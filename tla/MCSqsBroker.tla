---------------------------- MODULE MCSqsBroker ----------------------------
(***************************************************************************)
(* A delayed task, with a retry or without, and a body that does not       *)
(* parse, for two workers or for one with two permits.  A standard and a   *)
(* FIFO queue have the same name, and each process settles on one of them; *)
(* one of the names it polls is not configured.                            *)
(***************************************************************************)
EXTENDS SqsBroker

CONSTANTS order, garbage, w1, w2

Names == [u \in Url |-> IF u = "mail" THEN "mail" ELSE "orders"]
Queue == [t \in Task |-> "orders"]
Permit == {[w \in Worker |-> 1], [w \in Worker |-> IF w = w1 THEN 2 ELSE 0]}
OwnId == [t \in Task |-> t]
Polls == [w \in Worker |-> <<"ghost", "mail", "orders">>]
=============================================================================
