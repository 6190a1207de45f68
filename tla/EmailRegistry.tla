---------------------------- MODULE EmailRegistry ----------------------------
(***************************************************************************)
(* What the accounts promise about email addresses, whatever requests are  *)
(* in progress: an address has the accounts that own it, an account owns   *)
(* its address once and gives it up for good, and while uniqueness is      *)
(* enforced an address is claimed only when nobody owns it.                *)
(***************************************************************************)

CONSTANTS Emails, Ids

VARIABLES
    owners,     \* owners[e]: the active accounts registered under e
    spent,      \* accounts that have ever existed
    enforced    \* whether two active accounts may not share an address

registry == <<owners, spent, enforced>>

Init ==
    /\ owners = [e \in Emails |-> {}]
    /\ spent = {}
    /\ enforced \in BOOLEAN

Claim(e, i) ==
    /\ i \notin spent
    /\ enforced => owners[e] = {}
    /\ owners' = [owners EXCEPT ![e] = @ \cup {i}]
    /\ spent' = spent \cup {i}
    /\ UNCHANGED enforced

Release(e, i) ==
    /\ i \in owners[e]
    /\ owners' = [owners EXCEPT ![e] = @ \ {i}]
    /\ UNCHANGED <<spent, enforced>>

(* Uniqueness can be enforced only where it holds already. *)
Enforce ==
    /\ \A e \in Emails : \A i, j \in owners[e] : i = j
    /\ enforced' = TRUE
    /\ UNCHANGED <<owners, spent>>

Relax ==
    /\ enforced' = FALSE
    /\ UNCHANGED <<owners, spent>>

Next ==
    \/ \E e \in Emails, i \in Ids : Claim(e, i) \/ Release(e, i)
    \/ Enforce
    \/ Relax

Spec == Init /\ [][Next]_registry
=============================================================================
