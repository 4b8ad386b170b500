------------------------- MODULE MCConditionVariable ------------------------
(* Three threads that wait for the first, the second and the third         *)
(* increment.                                                              *)
EXTENDS ConditionVariable, TLC

CONSTANTS w1, w2, w3

Targets == (w1 :> 1) @@ (w2 :> 2) @@ (w3 :> 3)
=============================================================================
