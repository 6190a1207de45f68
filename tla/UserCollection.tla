--------------------------- MODULE UserCollection ---------------------------
(***************************************************************************)
(* The users collection as the read side of the user module sees it: which *)
(* documents there are, their createdAt and which of them are active.      *)
(* Names, emails and passwords are left out; role never changes.           *)
(***************************************************************************)
EXTENDS Integers, FiniteSets

CONSTANTS
    Users,      \* documents that may come to exist
    Admins,     \* those whose role is 'admin', which nothing in src/ sets
    MaxTime     \* bound: the instants of createdAt

ASSUME UsersFinite == IsFiniteSet(Users) /\ Users # {}
ASSUME MaxTimePositive == MaxTime \in Nat \ {0}

VARIABLES
    created,    \* createdAt of the documents, 0 while there is none
    active      \* the documents with isActive

Times == 1 .. MaxTime

Documents == {u \in Users : created[u] > 0}

Role(u) == IF u \in Admins THEN "admin" ELSE "user"

(* What buildActiveUsersFilter selects, the filter "none", and             *)
(* buildUserListFilter for a ?role=, which may be any string.              *)
Listed(filter) == {u \in active : filter \in {"none", Role(u)}}

CollectionTypeOK ==
    /\ created \in [Users -> Times \cup {0}]
    /\ active \subseteq Documents

CollectionInit ==
    /\ created = [u \in Users |-> 0]
    /\ active = {}

(* createdAt is the time of the process, taken before the insertion: two  *)
(* may be the same, and a later document may have the earlier one.         *)
Insert(u, t) ==
    /\ created[u] = 0
    /\ created' = [created EXCEPT ![u] = t]
    /\ active' = active \cup {u}

SoftDelete(u) ==
    /\ u \in active
    /\ active' = active \ {u}
    /\ UNCHANGED created
=============================================================================
