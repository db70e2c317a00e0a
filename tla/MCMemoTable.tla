----------------------------- MODULE MCMemoTable ----------------------------
(* Instances of MemoTable for TLC. *)
EXTENDS MemoTable, TLC

CONSTANTS k1, k2

Unbounded == {-1}
AtMostTwo == {2}
Collide == (k1 :> 0) @@ (k2 :> 0)
=============================================================================
