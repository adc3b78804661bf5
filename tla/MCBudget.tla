------------------------------ MODULE MCBudget ------------------------------
(***************************************************************************)
(* A small instance of module Budget for TLC: two workers, one of them     *)
(* with two handlers, a budget of 3 ticks and a grace of 2.                *)
(***************************************************************************)
EXTENDS Budget, TLC

CONSTANTS w1, w2, s1, s2, s3

TwoAndOne == (s1 :> w1) @@ (s2 :> w1) @@ (s3 :> w2)

============================================================================
