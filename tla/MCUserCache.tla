---------------------------- MODULE MCUserCache ----------------------------
(* With liveness, no symmetry. *)
EXTENDS UserCache
=============================================================================
