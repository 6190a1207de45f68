---------------------------- MODULE MCAccounts ----------------------------
(* Instances of Accounts for TLC: requests, documents and passwords are    *)
(* interchangeable.                                                        *)
EXTENDS Accounts, TLC

Symmetry == Permutations(Procs) \cup Permutations(Ids) \cup Permutations(Passwords)
=============================================================================
