------------------------------ MODULE MCWorker ------------------------------
(***************************************************************************)
(* Small instances of Worker: a chord in which any call may fail, with a   *)
(* delayed member and one that may panic; and a chord beside a chain whose *)
(* first task is delayed, without failing calls.                           *)
(***************************************************************************)
EXTENDS WorkerLifecycle, TLC

CONSTANTS m1, m2, cb, a, b, g1, lo, hi, p1, p2, p3

\* A chord of two members, the first with one retry; the callback is on the
\* high queue.
ChordTask == {m1, m2, cb}
ChordNext == [t \in ChordTask |-> None]

\* For liveness; a, on the high queue, is not due yet, and is followed by b.
LiveTask == {m1, m2, cb, a, b}
LiveQueue == [t \in LiveTask |-> IF t \in {cb, a} THEN hi ELSE lo]
LiveRetries == [t \in LiveTask |-> IF t = m1 THEN 1 ELSE 0]

QueueIn(T) == [t \in T |-> IF t \in {cb, a} THEN hi ELSE lo]
RetriesIn(T) == [t \in T |-> IF t \in {m1, a} THEN 1 ELSE 0]
NextIn(T) == [t \in T |-> IF t = a THEN b ELSE None]
GroupIn(T) == [t \in T |-> IF t \in {m1, m2} THEN g1 ELSE None]

ChordQueue == QueueIn(ChordTask)
ChordRetries == RetriesIn(ChordTask)
ChordGroup == GroupIn(ChordTask)
ChordCallbacks == g1 :> cb

LiveNext == NextIn(LiveTask)
LiveGroup == GroupIn(LiveTask)

HighFirst == <<hi, lo>>

Symmetry == Permutations(Permit)
=============================================================================
