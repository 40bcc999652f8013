---------------------------- MODULE TaskLifecycle ----------------------------
(***************************************************************************)
(* What kojin promises about one message, without brokers, queues, permits *)
(* or locks: the life of a message, its retry budget, and the order in     *)
(* which the messages of a workflow come to life.  The phases stand for    *)
(* TaskState (kojin-core/src/state.rs) as a client can observe it.         *)
(***************************************************************************)
EXTENDS Naturals

CONSTANTS
    Task,           \* messages
    MaxRetries,     \* max_retries of each message
    Prereq          \* the messages whose results a continuation needs

VARIABLE status     \* per message, its phase and the retries it has used

Absent     == [phase |-> "absent"]
Waiting(n) == [phase |-> "waiting", retries |-> n]
Active(n)  == [phase |-> "active", retries |-> n]
Retry(n)   == [phase |-> "retry", retries |-> n]
Success    == [phase |-> "success"]
Dead       == [phase |-> "dead_lettered"]
Lost       == [phase |-> "lost"]

Set(t, s) == status' = [status EXCEPT ![t] = s]

\* A message is enqueued for the first time, a continuation only once all it
\* depends on has succeeded.
Create(t) ==
    /\ status[t] = Absent
    /\ \A s \in Prereq[t] : status[s] = Success
    /\ Set(t, Waiting(0))

\* A worker starts to execute it.
Start(t) == \E n \in 0..MaxRetries[t] : status[t] = Waiting(n) /\ Set(t, Active(n))

\* It is not due yet and goes back, with its retries untouched.
Defer(t) == \E n \in 0..MaxRetries[t] : status[t] = Active(n) /\ Set(t, Waiting(n))

Succeed(t) == \E n \in 0..MaxRetries[t] : status[t] = Active(n) /\ Set(t, Success)

\* It failed with retries left, and is enqueued again after the backoff.
Fail(t) ==
    \E n \in 0..MaxRetries[t] :
        status[t] = Active(n) /\ n < MaxRetries[t] /\ Set(t, Retry(n + 1))

Requeue(t) == \E n \in 1..MaxRetries[t] : status[t] = Retry(n) /\ Set(t, Waiting(n))

\* It failed with no retry left.
Bury(t) == status[t] = Active(MaxRetries[t]) /\ Set(t, Dead)

\* A shutdown, a panic or a failing call discards it before it is settled.
Lose(t) ==
    /\ status[t].phase \in {"waiting", "active", "retry"}
    /\ Set(t, Lost)

Init == status = [t \in Task |-> Absent]

Next ==
    \E t \in Task :
        \/ Create(t) \/ Start(t) \/ Defer(t) \/ Succeed(t)
        \/ Fail(t) \/ Requeue(t) \/ Bury(t) \/ Lose(t)

Spec == Init /\ [][Next]_status
=============================================================================
