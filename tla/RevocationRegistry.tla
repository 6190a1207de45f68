------------------------- MODULE RevocationRegistry -------------------------
(***************************************************************************)
(* What token revocation promises, whatever keeps the record of it: a      *)
(* revocation is a fact that lasts for ever, and a guard asks for the      *)
(* facts one after the other.  There is no TTL here, no key that expires   *)
(* or is overwritten, and nothing between computing an entry and storing   *)
(* it: the record changes in one step, by the request of the very token.   *)
(*                                                                         *)
(* A question about a live token that is answered is answered exactly.  A  *)
(* question that is not, or comes after the token expired, may miss a      *)
(* revocation and leaves its mark on the request; it never invents one.    *)
(***************************************************************************)
EXTENDS Naturals

CONSTANTS Users, Procs, None

VARIABLES
    now,        \* the clock
    issued,     \* tokens handed out so far
    revoked,    \* tokens that were revoked, for ever
    cut,        \* cut[u]: tokens of u issued before this second are revoked
    view        \* view[p]: what request p has been told about its token

registry == <<now, issued, revoked, cut, view>>

(* refuse is the answer so far; unsure and unsureCut say which of the two  *)
(* questions may have missed a revocation.                                 *)
Untold(phase, t) == [phase |-> phase, tok |-> t, refuse |-> FALSE,
                     unsure |-> FALSE, unsureCut |-> FALSE]

Absent == Untold("absent", None)

Init ==
    /\ now = 0
    /\ issued = {}
    /\ revoked = {}
    /\ cut = [u \in Users |-> 0]
    /\ view = [p \in Procs |-> Absent]

Live(t) == now < t.exp

Tick ==
    /\ now' = now + 1
    /\ UNCHANGED <<issued, revoked, cut, view>>

(* A token tells the second it was issued in, so that a cutoff of an       *)
(* earlier second never meets it.                                          *)
Issue ==
    /\ issued \subseteq issued'
    /\ \A t \in issued' \ issued : t.iat = now /\ Live(t)
    /\ UNCHANGED <<now, revoked, cut, view>>

Ask(p) ==
    /\ view[p] = Absent
    /\ \E t \in issued :
          /\ Live(t)
          /\ view' = [view EXCEPT ![p] = Untold("asked", t)]
    /\ UNCHANGED <<now, issued, revoked, cut>>

(* Is this token revoked?  Without doubt the answer is the truth. *)
AnswerToken(p) ==
    LET t == view[p].tok IN
    /\ view[p].phase = "asked"
    /\ \E answer, doubt \in BOOLEAN :
          /\ answer => t \in revoked
          /\ doubt \/ (Live(t) /\ (t \in revoked => answer))
          /\ view' = [view EXCEPT ![p] = [phase |-> "looked",
                                          tok |-> t,
                                          refuse |-> answer,
                                          unsure |-> doubt,
                                          unsureCut |-> FALSE]]
    /\ UNCHANGED <<now, issued, revoked, cut>>

(* Was it issued before its user's cutoff?  A refusal stands. *)
AnswerCut(p) ==
    LET t == view[p].tok IN
    /\ view[p].phase = "looked"
    /\ \E answer, doubt \in BOOLEAN :
          /\ answer => t.iat < cut[t.sub]
          /\ doubt \/ (Live(t) /\ (t.iat < cut[t.sub] => answer))
          /\ view' = [view EXCEPT ![p] = [phase |-> "judged",
                                          tok |-> t,
                                          refuse |-> view[p].refuse \/ answer,
                                          unsure |-> view[p].unsure,
                                          unsureCut |-> doubt]]
    /\ UNCHANGED <<now, issued, revoked, cut>>

Admit(p) ==
    /\ view[p].phase = "judged"
    /\ ~view[p].refuse
    /\ view' = [view EXCEPT ![p] = Untold("admitted", view[p].tok)]
    /\ UNCHANGED <<now, issued, revoked, cut>>

(* A refused request ends, an admitted one whenever it likes. *)
End(p) ==
    /\ \/ view[p].phase = "judged" /\ view[p].refuse
       \/ view[p].phase \in {"admitted", "leaving"}
    /\ view' = [view EXCEPT ![p] = Absent]
    /\ UNCHANGED <<now, issued, revoked, cut>>

(* Only a request the guard has let in gives up its token, and its own. *)
Leave(p) ==
    /\ view[p].phase = "admitted"
    /\ view' = [view EXCEPT ![p] = Untold("leaving", view[p].tok)]
    /\ UNCHANGED <<now, issued, revoked, cut>>

Revoke(p) ==
    /\ view[p].phase = "leaving"
    /\ revoked' = revoked \cup {view[p].tok}
    /\ view' = [view EXCEPT ![p] = Absent]
    /\ UNCHANGED <<now, issued, cut>>

(* A cutoff is never set in the future (see Next). *)
CutOff(u, s) ==
    /\ cut' = [cut EXCEPT ![u] = s]
    /\ UNCHANGED <<now, issued, revoked, view>>

Next ==
    \/ Tick
    \/ Issue
    \/ \E p \in Procs :
          \/ Ask(p)
          \/ AnswerToken(p)
          \/ AnswerCut(p)
          \/ Admit(p)
          \/ End(p)
          \/ Leave(p)
          \/ Revoke(p)
    \/ \E u \in Users, s \in 0 .. now : CutOff(u, s)

Spec == Init /\ [][Next]_registry
=============================================================================
