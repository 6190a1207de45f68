---------------------------- MODULE MCMigrations ----------------------------
(* Runners and applications are interchangeable. *)
EXTENDS Migrations, TLC

RunnerSymmetry == Permutations(Runners) \cup Permutations(Apps)
=============================================================================
