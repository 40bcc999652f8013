-------------------------- MODULE MCGroupCompletion --------------------------
(***************************************************************************)
(* Small groups for GroupCompletion: every member delivered once, or the   *)
(* first one a second time.                                                *)
(***************************************************************************)
EXTENDS GroupCompletion

CONSTANTS m1, m2, m3, d1, d2, d3, redelivered

OnceEach == [d \in {d1, d2, d3} |->
                CASE d = d1 -> m1 [] d = d2 -> m2 [] d = d3 -> m3]

Redelivery == [d \in {d1, d2, d3, redelivered} |->
                CASE d \in {d1, redelivered} -> m1 [] d = d2 -> m2 [] d = d3 -> m3]
=============================================================================
