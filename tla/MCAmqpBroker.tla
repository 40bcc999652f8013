---------------------------- MODULE MCAmqpBroker ----------------------------
(***************************************************************************)
(* A task without retries and a body that does not parse on one queue, a   *)
(* delayed task with a retry on the other.  One worker takes from both,    *)
(* another from the second queue only.                                     *)
(***************************************************************************)
EXTENDS AmqpBroker

CONSTANTS plain, later, garbage, q1, q2, w1, w2

Routes == [t \in Task |-> IF t = later THEN q2 ELSE q1]
Consumed == [w \in Worker |-> IF w = w1 THEN Queue ELSE {q2}]
Retries == [t \in Task |-> IF t = later THEN 1 ELSE 0]
=============================================================================
