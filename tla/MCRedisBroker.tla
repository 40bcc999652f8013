---------------------------- MODULE MCRedisBroker ----------------------------
(***************************************************************************)
(* Small instances of RedisBroker: a chord member with its callback, and a *)
(* delayed message on the queue of lower rank.                             *)
(***************************************************************************)
EXTENDS RedisBroker

CONSTANTS m, cb, e, lo, hi, w1, w2, k

HighFirst == <<hi, lo>>
Queues == [t \in Task |-> IF t = cb THEN hi ELSE lo]
Retries == [t \in Task |-> IF t = m THEN 1 ELSE 0]
KeyOfMember == [t \in Task |-> IF t = m THEN k ELSE None]
NoKeys == [t \in Task |-> None]
CallbackIds == [t \in Task |-> IF t = m THEN {cb} \cap Task ELSE {}]
=============================================================================
