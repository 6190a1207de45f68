------------------------ MODULE MCServerLifecycle ------------------------
(* Instances of ServerLifecycle for TLC.  With liveness, no symmetry. *)
EXTENDS ServerLifecycle
=============================================================================
