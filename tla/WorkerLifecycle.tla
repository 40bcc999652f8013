--------------------------- MODULE WorkerLifecycle ---------------------------
(***************************************************************************)
(* The refinement mapping under which Worker implements TaskLifecycle.     *)
(***************************************************************************)
EXTENDS Worker

\* The messages whose success lets the worker enqueue t.
PrereqOf ==
    [t \in Task |-> {s \in Task : ChainNext[s] = t}
                    \cup UNION {Members(g) : g \in {h \in Group : ChordCallback[h] = t}}]

RetriesOf(t) == (CHOOSE m \in Copies(t) : TRUE).retries

\* Between the decision to retry and the enqueue of nack.
Retrying == {Id(p) : p \in {r \in InFlight : pc[r] \in {"backoff", "requeue"}}}

StatusOf(t) ==
    CASE t \notin sent -> [phase |-> "absent"]
      [] t \in done -> [phase |-> "success"]
      [] t \in DeadLettered -> [phase |-> "dead_lettered"]
      [] t \in Queued \cup InHand -> [phase |-> "waiting", retries |-> RetriesOf(t)]
      [] t \in Retrying -> [phase |-> "retry", retries |-> RetriesOf(t)]
      [] t \in Executing \ Retrying -> [phase |-> "active", retries |-> RetriesOf(t)]
      [] OTHER -> [phase |-> "lost"]

Lifecycle ==
    INSTANCE TaskLifecycle
        WITH Prereq <- PrereqOf, status <- [t \in Task |-> StatusOf(t)]

\* Every behaviour of the worker is, message by message, one of TaskLifecycle:
\* retries are counted one at a time up to the budget, nothing leaves success
\* or the dead-letter queue, and no continuation precedes what it depends on.
ImplementsLifecycle == Lifecycle!Spec
=============================================================================
