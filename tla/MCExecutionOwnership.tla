------------------------- MODULE MCExecutionOwnership -------------------------
(* Instances of ExecutionOwnership for TLC. *)
EXTENDS ExecutionOwnership, TLC

CONSTANTS r1, r2, s1, s2, s3

TwoRuntimes == (s1 :> r1) @@ (s2 :> r2)
Siblings == (s1 :> r1) @@ (s2 :> r1)
SiblingsAndOther == (s1 :> r1) @@ (s2 :> r1) @@ (s3 :> r2)
=============================================================================
