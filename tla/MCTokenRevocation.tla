------------------------- MODULE MCTokenRevocation -------------------------
(* Instances of TokenRevocation for TLC: requests are interchangeable. *)
EXTENDS TokenRevocation, TLC

RequestSymmetry == Permutations(Procs)
=============================================================================
