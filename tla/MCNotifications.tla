-------------------------- MODULE MCNotifications --------------------------
(* With liveness, no symmetry. *)
EXTENDS Notifications

(* Two connections of one user. *)
MCHome == [s \in Sockets |-> "home"]
=============================================================================
