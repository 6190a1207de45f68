----------------------- MODULE TokenRevocationProofs -----------------------
(***************************************************************************)
(* Proofs about TokenRevocation, for any lifetimes that satisfy            *)
(* RevokeOutlastsTokens, any number of users and requests and any clock    *)
(* bound.                                                                  *)
(*                                                                         *)
(* The invariants of the runs speak of what Redis holds now.  IndInv says  *)
(* until when it will hold it, and what the requests in progress are about *)
(* to write: a TTL computed some time before SETEX is executed.            *)
(***************************************************************************)
EXTENDS TokenRevocation, TLAPS

HasToken == {"exists", "get", "decide", "handle", "store", "socket"}

(* Requests carry what their next step uses. *)
Equipped ==
    \A p \in Procs : /\ pc[p] \in HasToken => req[p].tok \in Tokens
                     /\ pc[p] \in {"issue", "cut"} => req[p].user \in Users
                     /\ pc[p] = "cut" => req[p].at <= now

(* No token outlives a cutoff stored in or after the second of its issue. *)
IssuedBounded ==
    \A t \in issued : t.exp <= t.iat + RevokeTtl

(* The TTL about to be stored covers the rest of the token's life. *)
TtlSuffices ==
    \A p \in Procs : pc[p] = "store" =>
        (Live(req[p].tok) => req[p].tok.exp <= now + req[p].ttl)

(* The key of a stored logout stays until the token has expired. *)
KeptUntilExpiry ==
    \A t \in stored : Live(t) => \E b \in blacklist : b.tok = t /\ t.exp <= b.until

(* The last cutoff stored for u is in Redis for RevokeTtl from then on. *)
CutoffKept ==
    \A u \in Users :
        \/ cut[u] = 0
        \/ cutoff[u].at = cut[u] /\ cut[u] + RevokeTtl <= cutoff[u].until
        \/ cut[u] + RevokeTtl <= now

(* A logged-out token on its way through the guard. *)
GuardKnows ==
    \A p \in Procs : req[p].loggedOut =>
        /\ pc[p] = "exists" => req[p].tok \in stored
        /\ pc[p] \in {"get", "decide", "handle"} => req[p].revoked \/ req[p].unsure

HandledUnrevoked == \A p \in Procs : pc[p] = "handle" => ~req[p].revoked

IndInv ==
    /\ TypeOK
    /\ Equipped
    /\ IssuedBounded
    /\ TtlSuffices
    /\ KeptUntilExpiry
    /\ CutoffKept
    /\ GuardKnows
    /\ HandledUnrevoked

-----------------------------------------------------------------------------
(* Type correctness. *)

LEMMA IdleType == Idle \in Requests
BY DEF Idle, Requests

LEMMA TypeInit == Init => TypeOK
BY Positive, IdleType DEF Init, TypeOK

LEMMA DoneType ==
    ASSUME TypeOK, NEW p \in Procs, Done(p)
    PROVE  /\ pc' \in [Procs -> {"idle", "issue", "exists", "get", "decide", "handle",
                                 "store", "cut", "socket"}]
           /\ req' \in [Procs -> Requests]
           /\ \A q \in Procs : pc'[q] = "store" => req'[q].ttl > 0
BY IdleType DEF TypeOK, Done

LEMMA GuardType ==
    ASSUME TypeOK, NEW p \in Procs, Guard(p)
    PROVE  TypeOK'
<1> USE DEF TypeOK
<1>1. ASSUME NEW t \in issued, Verify(p, t) \/ Handshake(p, t) PROVE TypeOK'
  <2>0. t \in Tokens /\ (t \in stored) \in BOOLEAN
    OBVIOUS
  <2>1. [Idle EXCEPT !.tok = t, !.loggedOut = t \in stored] \in Requests
    BY <2>0, IdleType DEF Requests
  <2>2. [Idle EXCEPT !.tok = t] \in Requests
    BY <2>0, IdleType DEF Requests
  <2> QED BY <1>1, <2>1, <2>2 DEF Verify, Handshake
<1>2. CASE IsTokenBlacklisted(p)
  <2>1. [req[p] EXCEPT !.revoked = Blacklisted(req[p].tok),
                       !.unsure = ~Live(req[p].tok)] \in Requests
    BY DEF Requests, Blacklisted, Live
  <2> QED BY <1>2, <2>1 DEF IsTokenBlacklisted
<1>3. CASE IsTokenBlacklistedLost(p)
  <2>1. [req[p] EXCEPT !.unsure = TRUE] \in Requests
    BY DEF Requests
  <2> QED BY <1>3, <2>1 DEF IsTokenBlacklistedLost
<1>4. CASE IsTokenRevokedForUser(p)
  <2>1. [req[p] EXCEPT !.revoked = @ \/ CutBefore(req[p].tok),
                       !.unsureCut = ~Live(req[p].tok)] \in Requests
    BY DEF Requests, CutBefore, Live
  <2> QED BY <1>4, <2>1 DEF IsTokenRevokedForUser
<1>5. CASE IsTokenRevokedForUserLost(p)
  <2>1. [req[p] EXCEPT !.unsureCut = TRUE] \in Requests
    BY DEF Requests
  <2> QED BY <1>5, <2>1 DEF IsTokenRevokedForUserLost
<1>6. CASE Reject(p)
  BY <1>6, IdleType DEF Reject, Done
<1>7. CASE Accept(p)
  <2>1. [req[p] EXCEPT !.unsureCut = FALSE] \in Requests
    BY DEF Requests
  <2> QED BY <1>7, <2>1 DEF Accept
<1> QED BY <1>1, <1>2, <1>3, <1>4, <1>5, <1>6, <1>7 DEF Guard

LEMMA HandleType ==
    ASSUME TypeOK, Equipped, NEW p \in Procs, Handle(p)
    PROVE  TypeOK'
<1> USE DEF TypeOK
<1>0. pc[p] \in {"handle", "store"} => req[p].tok \in Tokens
  BY DEF Equipped, HasToken
<1>1. CASE Serve(p)
  BY <1>1, IdleType DEF Serve, Done
<1>3. CASE Logout(p)
  <2>1. req[p].tok \in Tokens /\ BlacklistTtl(req[p].tok) \in Nat \ {0}
    BY <1>0, <1>3, Positive DEF Logout, BlacklistTtl, Tokens
  <2>2. [Idle EXCEPT !.tok = req[p].tok, !.ttl = BlacklistTtl(req[p].tok)] \in Requests
    BY <2>1, IdleType DEF Requests
  <2>3. [Idle EXCEPT !.tok = req[p].tok, !.ttl = BlacklistTtl(req[p].tok)].ttl > 0
    BY <2>1 DEF Idle
  <2>4. \A q \in Procs : pc'[q] = "store" => req'[q].ttl > 0
    BY <1>3, <2>3 DEF Logout
  <2> QED BY <1>3, <2>2, <2>4 DEF Logout
<1>4. CASE BlacklistToken(p)
  <2>1. req[p].tok \in Tokens /\ req[p].ttl \in Nat
    BY <1>0, <1>4 DEF BlacklistToken, Requests
  <2>2. [tok |-> req[p].tok, until |-> now + req[p].ttl] \in [tok : Tokens, until : Nat]
    BY <2>1
  <2>3. blacklist' \subseteq [tok : Tokens, until : Nat]
    BY <1>4, <2>2 DEF BlacklistToken
  <2> QED BY <1>4, <2>1, <2>3, DoneType DEF BlacklistToken
<1>5. CASE BlacklistTokenLost(p)
  BY <1>5, IdleType DEF BlacklistTokenLost, Done
<1> QED BY <1>1, <1>3, <1>4, <1>5 DEF Handle

LEMMA TypeStep == TypeOK /\ Equipped /\ [Next]_vars => TypeOK'
<1> SUFFICES ASSUME TypeOK, Equipped, [Next]_vars PROVE TypeOK'
  OBVIOUS
<1>1. ASSUME NEW p \in Procs, NEW u \in Users, Login(p, u) PROVE TypeOK'
  <2>1. [Idle EXCEPT !.user = u] \in Requests
    BY IdleType DEF Requests
  <2> QED BY <1>1, <2>1 DEF Login, TypeOK
<1>2. ASSUME NEW p \in Procs, NEW u \in Users, RevokeAll(p, u) PROVE TypeOK'
  <2>0. now \in Nat
    BY Positive DEF TypeOK
  <2>1. [Idle EXCEPT !.user = u, !.at = now] \in Requests
    BY <2>0, IdleType DEF Requests
  <2> QED BY <1>2, <2>1 DEF RevokeAll, TypeOK
<1>3. ASSUME NEW p \in Procs, Issue(p) PROVE TypeOK'
  <2>1. req[p].user \in Users
    BY <1>3 DEF Issue, Equipped
  <2>2. TokenPair(req[p].user) \subseteq Tokens
    BY <2>1, Positive DEF TokenPair, Tokens, TypeOK
  <2> QED BY <1>3, <2>2, DoneType DEF Issue, TypeOK
<1>4. ASSUME NEW p \in Procs, Guard(p) PROVE TypeOK'
  BY <1>4, GuardType
<1>5. ASSUME NEW p \in Procs, Handle(p) PROVE TypeOK'
  BY <1>5, HandleType
<1>6. ASSUME NEW p \in Procs, StoreCutoff(p) PROVE TypeOK'
  <2>1. req[p].user \in Users /\ req[p].at \in Nat /\ now + CutoffTtl \in Nat
    BY <1>6, Positive DEF StoreCutoff, Equipped, TypeOK, Requests, CutoffTtl
  <2> QED BY <1>6, <2>1, DoneType DEF StoreCutoff, TypeOK
<1>7. ASSUME NEW p \in Procs, StoreCutoffLost(p) PROVE TypeOK'
  BY <1>7, DoneType DEF StoreCutoffLost, TypeOK
<1>8. CASE Tick
  BY <1>8, Positive DEF Tick, TypeOK
<1>9. CASE UNCHANGED vars
  BY <1>9 DEF vars, TypeOK
<1> QED BY <1>1, <1>2, <1>3, <1>4, <1>5, <1>6, <1>7, <1>8, <1>9 DEF Next

-----------------------------------------------------------------------------
(* The inductive invariant. *)

LEMMA IndInit == Init => IndInv
<1> SUFFICES ASSUME Init PROVE IndInv
  OBVIOUS
<1>1. TypeOK
  BY TypeInit
<1>2. \A p \in Procs : pc[p] = "idle" /\ ~req[p].loggedOut
  BY DEF Init, Idle
<1>3. Equipped /\ TtlSuffices /\ GuardKnows /\ HandledUnrevoked
  BY <1>2 DEF Equipped, TtlSuffices, GuardKnows, HandledUnrevoked, HasToken
<1>4. IssuedBounded /\ KeptUntilExpiry /\ CutoffKept
  BY DEF Init, IssuedBounded, KeptUntilExpiry, CutoffKept
<1> QED BY <1>1, <1>3, <1>4 DEF IndInv

(* A step of request p that neither issues nor stores anything. *)
LEMMA RequestStep ==
    ASSUME IndInv, TypeOK', NEW p \in Procs,
           UNCHANGED <<now, issued, blacklist, cutoff, stored, cut>>,
           \A q \in Procs : q # p => pc'[q] = pc[q] /\ req'[q] = req[q],
           pc'[p] \in HasToken => req'[p].tok \in Tokens,
           pc'[p] \in {"issue", "cut"} => req'[p].user \in Users,
           pc'[p] = "cut" => req'[p].at <= now,
           pc'[p] = "store" =>
               (Live(req'[p].tok) => req'[p].tok.exp <= now + req'[p].ttl),
           req'[p].loggedOut =>
               /\ pc'[p] = "exists" => req'[p].tok \in stored
               /\ pc'[p] \in {"get", "decide", "handle"}
                  => req'[p].revoked \/ req'[p].unsure,
           pc'[p] = "handle" => ~req'[p].revoked
    PROVE  IndInv'
<1>1. Equipped'
  BY DEF IndInv, Equipped
<1>2. TtlSuffices'
  BY DEF IndInv, TtlSuffices, Live
<1>3. GuardKnows' /\ HandledUnrevoked'
  BY DEF IndInv, GuardKnows, HandledUnrevoked
<1>4. IssuedBounded' /\ KeptUntilExpiry' /\ CutoffKept'
  BY DEF IndInv, IssuedBounded, KeptUntilExpiry, CutoffKept, Live
<1> QED BY <1>1, <1>2, <1>3, <1>4 DEF IndInv

LEMMA DoneEffect ==
    ASSUME TypeOK, NEW p \in Procs, Done(p)
    PROVE  /\ pc'[p] = "idle"
           /\ ~req'[p].loggedOut
           /\ \A q \in Procs : q # p => pc'[q] = pc[q] /\ req'[q] = req[q]
BY DEF TypeOK, Done, Idle

(* The guard knows a stored logout as long as the token is live. *)
LEMMA StoredBlacklisted ==
    ASSUME IndInv, NEW t \in stored, Live(t)
    PROVE  Blacklisted(t)
<1>1. PICK b \in blacklist : b.tok = t /\ t.exp <= b.until
  BY DEF IndInv, KeptUntilExpiry
<1>2. now \in Nat /\ t.exp \in Nat /\ b.until \in Nat
  BY <1>1, Positive DEF IndInv, TypeOK, Tokens
<1> QED BY <1>1, <1>2 DEF Blacklisted, Live

LEMMA GuardInd ==
    ASSUME IndInv, TypeOK', NEW p \in Procs, Guard(p)
    PROVE  IndInv'
<1>0. TypeOK
  BY DEF IndInv
<1>1. ASSUME NEW t \in issued, Verify(p, t) PROVE IndInv'
  <2>1. /\ pc'[p] = "exists"
        /\ req'[p].tok = t
        /\ req'[p].loggedOut = (t \in stored)
        /\ \A q \in Procs : q # p => pc'[q] = pc[q] /\ req'[q] = req[q]
    BY <1>0, <1>1 DEF Verify, Idle, TypeOK
  <2>2. t \in Tokens
    BY <1>0 DEF TypeOK
  <2> QED BY <1>1, <2>1, <2>2, RequestStep DEF Verify, HasToken
<1>2. ASSUME NEW t \in issued, Handshake(p, t) PROVE IndInv'
  <2>1. /\ pc'[p] = "socket"
        /\ req'[p].tok = t
        /\ \A q \in Procs : q # p => pc'[q] = pc[q] /\ req'[q] = req[q]
    BY <1>0, <1>2 DEF Handshake, Idle, TypeOK
  <2>2. t \in Tokens
    BY <1>0 DEF TypeOK
  <2> QED BY <1>2, <2>1, <2>2, RequestStep DEF Handshake, HasToken
<1>3. CASE IsTokenBlacklisted(p)
  <2>1. /\ pc[p] = "exists"
        /\ pc'[p] = "get"
        /\ \A q \in Procs : q # p => pc'[q] = pc[q] /\ req'[q] = req[q]
    BY <1>0, <1>3 DEF IsTokenBlacklisted, TypeOK
  <2>2. req'[p] = [req[p] EXCEPT !.revoked = Blacklisted(req[p].tok),
                                 !.unsure = ~Live(req[p].tok)]
    BY <1>0, <1>3 DEF IsTokenBlacklisted, TypeOK
  <2>3. /\ req'[p].tok = req[p].tok
        /\ req'[p].loggedOut = req[p].loggedOut
        /\ req'[p].revoked = Blacklisted(req[p].tok)
        /\ req'[p].unsure = ~Live(req[p].tok)
    BY <1>0, <2>2 DEF TypeOK, Requests
  <2>4. req[p].tok \in Tokens
    BY <2>1 DEF IndInv, Equipped, HasToken
  <2>5. req[p].loggedOut => Blacklisted(req[p].tok) \/ ~Live(req[p].tok)
    BY <2>1, StoredBlacklisted DEF IndInv, GuardKnows
  <2>6. UNCHANGED <<now, issued, blacklist, cutoff, stored, cut>>
    BY <1>3 DEF IsTokenBlacklisted
  <2> QED BY <2>1, <2>3, <2>4, <2>5, <2>6, RequestStep
<1>4. CASE IsTokenBlacklistedLost(p)
  <2>1. /\ pc[p] = "exists"
        /\ pc'[p] = "get"
        /\ \A q \in Procs : q # p => pc'[q] = pc[q] /\ req'[q] = req[q]
        /\ req'[p] = [req[p] EXCEPT !.unsure = TRUE]
    BY <1>0, <1>4 DEF IsTokenBlacklistedLost, TypeOK
  <2>2. req'[p].tok = req[p].tok /\ req'[p].unsure
    BY <1>0, <2>1 DEF TypeOK, Requests
  <2>3. req[p].tok \in Tokens
    BY <2>1 DEF IndInv, Equipped, HasToken
  <2> QED BY <1>4, <2>1, <2>2, <2>3, RequestStep DEF IsTokenBlacklistedLost
<1>5. CASE IsTokenRevokedForUser(p)
  <2>1. /\ pc[p] = "get"
        /\ pc'[p] = "decide"
        /\ \A q \in Procs : q # p => pc'[q] = pc[q] /\ req'[q] = req[q]
        /\ req'[p] = [req[p] EXCEPT !.revoked = @ \/ CutBefore(req[p].tok),
                                    !.unsureCut = ~Live(req[p].tok)]
    BY <1>0, <1>5 DEF IsTokenRevokedForUser, TypeOK
  <2>2. /\ req'[p].tok = req[p].tok
        /\ req'[p].loggedOut = req[p].loggedOut
        /\ req'[p].unsure = req[p].unsure
        /\ req[p].revoked => req'[p].revoked
    BY <1>0, <2>1 DEF TypeOK, Requests
  <2>3. req[p].tok \in Tokens
    BY <2>1 DEF IndInv, Equipped, HasToken
  <2>4. req[p].loggedOut => req[p].revoked \/ req[p].unsure
    BY <2>1 DEF IndInv, GuardKnows
  <2> QED BY <1>5, <2>1, <2>2, <2>3, <2>4, RequestStep DEF IsTokenRevokedForUser
<1>6. CASE IsTokenRevokedForUserLost(p)
  <2>1. /\ pc[p] = "get"
        /\ pc'[p] = "decide"
        /\ \A q \in Procs : q # p => pc'[q] = pc[q] /\ req'[q] = req[q]
        /\ req'[p] = [req[p] EXCEPT !.unsureCut = TRUE]
    BY <1>0, <1>6 DEF IsTokenRevokedForUserLost, TypeOK
  <2>4. /\ req'[p].tok = req[p].tok
        /\ req'[p].loggedOut = req[p].loggedOut
        /\ req'[p].revoked = req[p].revoked
        /\ req'[p].unsure = req[p].unsure
    BY <1>0, <2>1 DEF TypeOK, Requests
  <2>2. req[p].tok \in Tokens
    BY <2>1 DEF IndInv, Equipped, HasToken
  <2>3. req[p].loggedOut => req[p].revoked \/ req[p].unsure
    BY <2>1 DEF IndInv, GuardKnows
  <2> QED BY <1>6, <2>1, <2>2, <2>3, <2>4, RequestStep DEF IsTokenRevokedForUserLost
<1>7. CASE Reject(p)
  BY <1>0, <1>7, DoneEffect, RequestStep DEF Reject, HasToken
<1>8. CASE Accept(p)
  <2>1. /\ pc[p] = "decide"
        /\ pc'[p] = "handle"
        /\ \A q \in Procs : q # p => pc'[q] = pc[q] /\ req'[q] = req[q]
        /\ ~req[p].revoked
        /\ req'[p] = [req[p] EXCEPT !.unsureCut = FALSE]
    BY <1>0, <1>8 DEF Accept, TypeOK
  <2>4. /\ req'[p].tok = req[p].tok
        /\ req'[p].loggedOut = req[p].loggedOut
        /\ req'[p].revoked = req[p].revoked
        /\ req'[p].unsure = req[p].unsure
    BY <1>0, <2>1 DEF TypeOK, Requests
  <2>2. req[p].tok \in Tokens
    BY <2>1 DEF IndInv, Equipped, HasToken
  <2>3. req[p].loggedOut => req[p].revoked \/ req[p].unsure
    BY <2>1 DEF IndInv, GuardKnows
  <2> QED BY <1>8, <2>1, <2>2, <2>3, <2>4, RequestStep DEF Accept
<1> QED BY <1>1, <1>2, <1>3, <1>4, <1>5, <1>6, <1>7, <1>8 DEF Guard

LEMMA HandleInd ==
    ASSUME IndInv, TypeOK', NEW p \in Procs, Handle(p)
    PROVE  IndInv'
<1>0. TypeOK
  BY DEF IndInv
<1>1. CASE Serve(p)
  BY <1>0, <1>1, DoneEffect, RequestStep DEF Serve, HasToken
<1>3. CASE Logout(p)
  <2> DEFINE t == req[p].tok
  <2>1. /\ pc[p] = "handle"
        /\ pc'[p] = "store"
        /\ \A q \in Procs : q # p => pc'[q] = pc[q] /\ req'[q] = req[q]
        /\ req'[p].tok = t
        /\ ~req'[p].loggedOut
        /\ req'[p].ttl = BlacklistTtl(t)
    BY <1>0, <1>3 DEF Logout, TypeOK, Idle
  <2>2. t \in Tokens
    BY <2>1 DEF IndInv, Equipped, HasToken
  <2>3. Live(t) => t.exp <= now + BlacklistTtl(t)
    <3>1. now \in Nat /\ t.exp \in Nat
      BY <1>0, <2>2, Positive DEF TypeOK, Tokens
    <3> QED BY <3>1 DEF Live, BlacklistTtl
  <2> HIDE DEF t
  <2>4. Live(req'[p].tok) => req'[p].tok.exp <= now + req'[p].ttl
    BY <2>1, <2>3
  <2> QED BY <1>3, <2>1, <2>2, <2>4, RequestStep DEF Logout
<1>4. CASE BlacklistToken(p)
  <2> DEFINE t == req[p].tok
  <2> DEFINE key == [tok |-> t, until |-> now + req[p].ttl]
  <2>1. /\ pc[p] = "store"
        /\ blacklist' = {b \in blacklist : b.tok # t} \cup {key}
        /\ stored' = stored \cup {t}
        /\ Done(p)
        /\ UNCHANGED <<now, issued, cutoff, cut>>
    BY <1>4 DEF BlacklistToken
  <2>2. /\ pc'[p] = "idle"
        /\ ~req'[p].loggedOut
        /\ \A q \in Procs : q # p => pc'[q] = pc[q] /\ req'[q] = req[q]
    BY <1>0, <2>1, DoneEffect
  <2>3. Equipped' /\ TtlSuffices'
    BY <2>1, <2>2 DEF IndInv, Equipped, TtlSuffices, HasToken, Live
  <2>4. IssuedBounded' /\ CutoffKept'
    BY <2>1 DEF IndInv, IssuedBounded, CutoffKept
  <2>5. GuardKnows' /\ HandledUnrevoked'
    BY <2>1, <2>2 DEF IndInv, GuardKnows, HandledUnrevoked
  <2>6. KeptUntilExpiry'
    <3> SUFFICES ASSUME NEW s \in stored', Live(s)
                 PROVE  \E b \in blacklist' : b.tok = s /\ s.exp <= b.until
      BY <2>1 DEF KeptUntilExpiry, Live
    <3>1. CASE s = t
      <4>1. s.exp <= now + req[p].ttl
        BY <2>1, <3>1 DEF IndInv, TtlSuffices
      <4>2. key \in blacklist' /\ key.tok = s /\ key.until = now + req[p].ttl
        BY <2>1, <3>1
      <4> QED BY <4>1, <4>2
    <3>2. CASE s # t
      <4>1. PICK b \in blacklist : b.tok = s /\ s.exp <= b.until
        BY <2>1, <3>2 DEF IndInv, KeptUntilExpiry
      <4> QED BY <2>1, <3>2, <4>1
    <3> QED BY <3>1, <3>2
  <2> QED BY <2>3, <2>4, <2>5, <2>6 DEF IndInv
<1>5. CASE BlacklistTokenLost(p)
  BY <1>0, <1>5, DoneEffect, RequestStep DEF BlacklistTokenLost, HasToken
<1> QED BY <1>1, <1>3, <1>4, <1>5 DEF Handle

LEMMA IssueInd ==
    ASSUME IndInv, TypeOK', NEW p \in Procs, Issue(p)
    PROVE  IndInv'
<1>0. TypeOK
  BY DEF IndInv
<1>1. /\ issued' = issued \cup TokenPair(req[p].user)
      /\ Done(p)
      /\ UNCHANGED <<now, blacklist, cutoff, stored, cut>>
  BY DEF Issue
<1>2. /\ pc'[p] = "idle"
      /\ ~req'[p].loggedOut
      /\ \A q \in Procs : q # p => pc'[q] = pc[q] /\ req'[q] = req[q]
  BY <1>0, <1>1, DoneEffect
<1>3. Equipped' /\ TtlSuffices' /\ GuardKnows' /\ HandledUnrevoked'
  BY <1>1, <1>2 DEF IndInv, Equipped, TtlSuffices, GuardKnows, HandledUnrevoked,
                    HasToken, Live
<1>4. KeptUntilExpiry' /\ CutoffKept'
  BY <1>1 DEF IndInv, KeptUntilExpiry, CutoffKept, Live
<1>5. IssuedBounded'
  <2>1. \A t \in TokenPair(req[p].user) : t.exp <= t.iat + RevokeTtl
    BY <1>0, Positive, RevokeOutlastsTokens DEF TokenPair, TypeOK
  <2> QED BY <1>1, <2>1 DEF IndInv, IssuedBounded
<1> QED BY <1>3, <1>4, <1>5 DEF IndInv

LEMMA StoreCutoffInd ==
    ASSUME IndInv, TypeOK', NEW p \in Procs, StoreCutoff(p)
    PROVE  IndInv'
<1> DEFINE u == req[p].user
<1>0. TypeOK
  BY DEF IndInv
<1>1. /\ pc[p] = "cut"
      /\ cutoff' = [cutoff EXCEPT ![u] = [at |-> req[p].at, until |-> now + CutoffTtl]]
      /\ cut' = [cut EXCEPT ![u] = req[p].at]
      /\ Done(p)
      /\ UNCHANGED <<now, issued, blacklist, stored>>
  BY DEF StoreCutoff
<1>2. /\ pc'[p] = "idle"
      /\ ~req'[p].loggedOut
      /\ \A q \in Procs : q # p => pc'[q] = pc[q] /\ req'[q] = req[q]
  BY <1>0, <1>1, DoneEffect
<1>3. Equipped' /\ TtlSuffices' /\ GuardKnows' /\ HandledUnrevoked'
  BY <1>1, <1>2 DEF IndInv, Equipped, TtlSuffices, GuardKnows, HandledUnrevoked,
                    HasToken, Live
<1>4. KeptUntilExpiry' /\ IssuedBounded'
  BY <1>1 DEF IndInv, KeptUntilExpiry, IssuedBounded, Live
<1>5. CutoffKept'
  <2>1. u \in Users /\ req[p].at <= now
    BY <1>1 DEF IndInv, Equipped
  <2>2. /\ cut'[u] = req[p].at
        /\ cutoff'[u].at = req[p].at
        /\ cutoff'[u].until = now + RevokeTtl
        /\ \A w \in Users : w # u => cut'[w] = cut[w] /\ cutoff'[w] = cutoff[w]
    BY <1>0, <1>1, <2>1 DEF TypeOK, CutoffTtl
  <2>3. req[p].at + RevokeTtl <= now + RevokeTtl
    BY <1>0, <2>1, Positive DEF TypeOK, Requests
  <2> QED BY <1>1, <2>1, <2>2, <2>3 DEF IndInv, CutoffKept
<1> QED BY <1>3, <1>4, <1>5 DEF IndInv

LEMMA TickInd ==
    ASSUME IndInv, TypeOK', Tick
    PROVE  IndInv'
<1>0. /\ TypeOK
      /\ now \in Nat
      /\ now' = now + 1
      /\ blacklist' = {b \in blacklist : b.until > now + 1}
      /\ UNCHANGED <<issued, pc, req, stored, cut>>
  BY Positive DEF IndInv, TypeOK, Tick
<1>1. Equipped'
  BY <1>0 DEF IndInv, Equipped, TypeOK, Requests
<1>2. IssuedBounded' /\ GuardKnows' /\ HandledUnrevoked'
  BY <1>0 DEF IndInv, IssuedBounded, GuardKnows, HandledUnrevoked
<1>3. TtlSuffices'
  <2> SUFFICES ASSUME NEW p \in Procs, pc[p] = "store", now + 1 < req[p].tok.exp
               PROVE  req[p].tok.exp <= now + 1 + req[p].ttl
    BY <1>0 DEF TtlSuffices, Live
  <2>1. req[p].tok \in Tokens /\ req[p].ttl \in Nat
    BY <1>0 DEF IndInv, Equipped, HasToken, TypeOK, Requests
  <2>2. req[p].tok.exp \in Nat
    BY <2>1 DEF Tokens
  <2>3. now < req[p].tok.exp => req[p].tok.exp <= now + req[p].ttl
    BY DEF IndInv, TtlSuffices, Live
  <2> QED BY <1>0, <2>1, <2>2, <2>3
<1>4. KeptUntilExpiry'
  <2> SUFFICES ASSUME NEW t \in stored, now + 1 < t.exp
               PROVE  \E b \in blacklist' : b.tok = t /\ t.exp <= b.until
    BY <1>0 DEF KeptUntilExpiry, Live
  <2>1. t.exp \in Nat
    BY <1>0 DEF TypeOK, Tokens
  <2>2. PICK b \in blacklist : b.tok = t /\ t.exp <= b.until
    BY <1>0, <2>1 DEF IndInv, KeptUntilExpiry, Live
  <2>3. b.until \in Nat
    BY <1>0 DEF TypeOK
  <2> QED BY <1>0, <2>1, <2>2, <2>3
<1>5. CutoffKept'
  <2> SUFFICES ASSUME NEW u \in Users
               PROVE  \/ cut[u] = 0
                      \/ cutoff'[u].at = cut[u] /\ cut[u] + RevokeTtl <= cutoff'[u].until
                      \/ cut[u] + RevokeTtl <= now + 1
    BY <1>0 DEF CutoffKept
  <2>1. cut[u] \in Nat /\ cutoff[u].until \in Nat
    BY <1>0 DEF TypeOK
  <2>2. CASE cutoff[u].until > now + 1
    <3>1. cutoff'[u] = cutoff[u]
      BY <2>2 DEF Tick
    <3> QED BY <1>0, <2>1, <3>1, Positive DEF IndInv, CutoffKept
  <2>3. CASE cutoff[u].until <= now + 1
    BY <1>0, <2>1, <2>3, Positive DEF IndInv, CutoffKept
  <2> QED BY <1>0, <2>1, <2>2, <2>3
<1> QED BY <1>1, <1>2, <1>3, <1>4, <1>5 DEF IndInv

LEMMA IndStep == IndInv /\ [Next]_vars => IndInv'
<1> SUFFICES ASSUME IndInv, [Next]_vars PROVE IndInv'
  OBVIOUS
<1>0. TypeOK /\ TypeOK'
  BY TypeStep DEF IndInv
<1>1. ASSUME NEW p \in Procs, NEW u \in Users, Login(p, u) PROVE IndInv'
  <2>1. /\ pc'[p] = "issue"
        /\ req'[p].user = u
        /\ ~req'[p].loggedOut
        /\ \A q \in Procs : q # p => pc'[q] = pc[q] /\ req'[q] = req[q]
    BY <1>0, <1>1 DEF Login, Idle, TypeOK
  <2> QED BY <1>0, <1>1, <2>1, RequestStep DEF Login, HasToken
<1>2. ASSUME NEW p \in Procs, NEW u \in Users, RevokeAll(p, u) PROVE IndInv'
  <2>1. /\ pc'[p] = "cut"
        /\ req'[p].user = u
        /\ req'[p].at = now
        /\ ~req'[p].loggedOut
        /\ \A q \in Procs : q # p => pc'[q] = pc[q] /\ req'[q] = req[q]
    BY <1>0, <1>2 DEF RevokeAll, Idle, TypeOK
  <2>2. now <= now
    BY <1>0, Positive DEF TypeOK
  <2> QED BY <1>0, <1>2, <2>1, <2>2, RequestStep DEF RevokeAll, HasToken
<1>3. ASSUME NEW p \in Procs, Issue(p) PROVE IndInv'
  BY <1>0, <1>3, IssueInd
<1>4. ASSUME NEW p \in Procs, Guard(p) PROVE IndInv'
  BY <1>0, <1>4, GuardInd
<1>5. ASSUME NEW p \in Procs, Handle(p) PROVE IndInv'
  BY <1>0, <1>5, HandleInd
<1>6. ASSUME NEW p \in Procs, StoreCutoff(p) PROVE IndInv'
  BY <1>0, <1>6, StoreCutoffInd
<1>7. ASSUME NEW p \in Procs, StoreCutoffLost(p) PROVE IndInv'
  BY <1>0, <1>7, DoneEffect, RequestStep DEF StoreCutoffLost, HasToken
<1>8. CASE Tick
  BY <1>0, <1>8, TickInd
<1>9. CASE UNCHANGED vars
  BY <1>9 DEF vars, IndInv, TypeOK, Equipped, IssuedBounded, TtlSuffices,
              KeptUntilExpiry, CutoffKept, GuardKnows, HandledUnrevoked, Live
<1> QED BY <1>1, <1>2, <1>3, <1>4, <1>5, <1>6, <1>7, <1>8, <1>9 DEF Next

LEMMA Inductive == Spec => []IndInv
<1>1. Init => IndInv
  BY IndInit
<1>2. IndInv /\ [Next]_vars => IndInv'
  BY IndStep
<1> QED BY <1>1, <1>2, PTL DEF Spec

-----------------------------------------------------------------------------
(* The theorems. *)

(* The variables keep their types; above all, every TTL handed to SETEX is *)
(* positive, although it is a difference of two times.                     *)
THEOREM TypeCorrect == Spec => []TypeOK
<1>1. IndInv => TypeOK
  BY DEF IndInv
<1> QED BY <1>1, Inductive, PTL

(* A logout that reached Redis is remembered while the token is live. *)
THEOREM LogoutRemembered == Spec => []RevocationOutlivesToken
<1>1. IndInv => RevocationOutlivesToken
  BY StoredBlacklisted DEF RevocationOutlivesToken
<1> QED BY <1>1, Inductive, PTL

(* A logged-out token passes the HTTP guard only when Redis did not answer *)
(* or the token expired under way.                                         *)
THEOREM GuardSound == Spec => []LoggedOutRejected
<1>1. IndInv => LoggedOutRejected
  BY DEF IndInv, GuardKnows, HandledUnrevoked, LoggedOutRejected
<1> QED BY <1>1, Inductive, PTL

LEMMA CutoffMet == IndInv => CutoffOutlivesTokens
<1> SUFFICES ASSUME IndInv, NEW t \in issued, Live(t), t.iat < cut[t.sub]
             PROVE  CutBefore(t)
  BY DEF CutoffOutlivesTokens
<1>1. /\ t.sub \in Users
      /\ t.iat \in Nat
      /\ t.exp \in Nat
      /\ now \in Nat
      /\ cut[t.sub] \in Nat
      /\ cutoff[t.sub].until \in Nat
  BY Positive DEF IndInv, TypeOK, Tokens
<1>2. t.exp <= t.iat + RevokeTtl
  BY DEF IndInv, IssuedBounded
<1>3. \/ cutoff[t.sub].at = cut[t.sub] /\ cut[t.sub] + RevokeTtl <= cutoff[t.sub].until
      \/ cut[t.sub] + RevokeTtl <= now
  BY <1>1 DEF IndInv, CutoffKept
<1> QED BY <1>1, <1>2, <1>3, Positive DEF CutBefore, Live

(* A stored cutoff is enforced on every token it covers while that is live. *)
THEOREM CutoffRemembered == Spec => []CutoffOutlivesTokens
BY CutoffMet, Inductive, PTL

-----------------------------------------------------------------------------
(* TokenRevocation implements RevocationRegistry.  Besides IndInv, the     *)
(* mapping needs to know that the two keys never say too much: nothing is  *)
(* in Redis that was not revoked.                                          *)

TokenIssued == \A p \in Procs : pc[p] \in HasToken => req[p].tok \in issued

EntriesStored == \A b \in blacklist : b.tok \in stored

CutoffIsLast == \A u \in Users : now < cutoff[u].until => cutoff[u].at = cut[u]

(* No request is refused before its first lookup. *)
AskedUnrefused == \A p \in Procs : pc[p] = "exists" => req[p].revoked = FALSE

NothingElse ==
    /\ TokenIssued
    /\ AskedUnrefused
    /\ EntriesStored
    /\ CutoffIsLast

LEMMA NothingElseInit == Init => NothingElse
BY DEF Init, NothingElse, TokenIssued, AskedUnrefused, EntriesStored, CutoffIsLast, HasToken

(* What the steps do to the token a request holds. *)
LEMMA TokenHeld ==
    ASSUME TypeOK, [Next]_vars, NEW p \in Procs, pc'[p] \in HasToken
    PROVE  \/ pc[p] \in HasToken /\ req'[p].tok = req[p].tok
           \/ req'[p].tok \in issued
<1> DEFINE Goal == \/ pc[p] \in HasToken /\ req'[p].tok = req[p].tok
                   \/ req'[p].tok \in issued
<1>0. /\ pc \in [Procs -> {"idle", "issue", "exists", "get", "decide", "handle",
                           "store", "cut", "socket"}]
      /\ req \in [Procs -> Requests]
  BY DEF TypeOK
<1>1. ASSUME NEW q \in Procs, Done(q) PROVE Goal
  BY <1>0, <1>1 DEF Done, HasToken
<1>2. ASSUME NEW q \in Procs, NEW u \in Users, Login(q, u) \/ RevokeAll(q, u) PROVE Goal
  BY <1>0, <1>2 DEF Login, RevokeAll, HasToken
<1>3. ASSUME NEW q \in Procs, NEW t \in issued, Verify(q, t) \/ Handshake(q, t) PROVE Goal
  BY <1>0, <1>3 DEF Verify, Handshake, Idle, HasToken
<1>4. ASSUME NEW q \in Procs, \/ IsTokenBlacklisted(q) \/ IsTokenBlacklistedLost(q)
                              \/ IsTokenRevokedForUser(q) \/ IsTokenRevokedForUserLost(q)
                              \/ Accept(q) PROVE Goal
  BY <1>0, <1>4 DEF IsTokenBlacklisted, IsTokenBlacklistedLost, IsTokenRevokedForUser,
                    IsTokenRevokedForUserLost, Accept, Requests, HasToken
<1>5. ASSUME NEW q \in Procs, Logout(q) PROVE Goal
  BY <1>0, <1>5, IdleType DEF Logout, Requests, HasToken
<1>6. ASSUME Tick PROVE Goal
  BY <1>6 DEF Tick
<1>7. ASSUME UNCHANGED vars PROVE Goal
  BY <1>7 DEF vars
<1> HIDE DEF Goal
<1>8. ASSUME NEW q \in Procs, Guard(q) PROVE Goal
  BY <1>1, <1>3, <1>4, <1>8 DEF Guard, Reject
<1>9. ASSUME NEW q \in Procs, Handle(q) PROVE Goal
  BY <1>1, <1>5, <1>9 DEF Handle, Serve, BlacklistToken, BlacklistTokenLost
<1>10. ASSUME NEW q \in Procs, Issue(q) \/ StoreCutoff(q) \/ StoreCutoffLost(q) PROVE Goal
  BY <1>1, <1>10 DEF Issue, StoreCutoff, StoreCutoffLost
<1>11. Goal
  BY <1>2, <1>6, <1>7, <1>8, <1>9, <1>10 DEF Next
<1> QED BY <1>11 DEF Goal

(* Tokens are never taken back. *)
LEMMA IssuedGrows == [Next]_vars => issued \subseteq issued'
BY DEF Next, vars, Login, RevokeAll, Issue, Guard, Verify, Handshake,
       IsTokenBlacklisted, IsTokenBlacklistedLost, IsTokenRevokedForUser,
       IsTokenRevokedForUserLost, Reject, Accept, Handle, Serve, Logout,
       BlacklistToken, BlacklistTokenLost, StoreCutoff, StoreCutoffLost, Tick

(* What Redis may learn in one step. *)
LEMMA KeysStep ==
    ASSUME [Next]_vars
    PROVE  \/ UNCHANGED <<now, blacklist, cutoff, stored, cut>>
           \/ \E p \in Procs : BlacklistToken(p) \/ StoreCutoff(p)
           \/ Tick
BY DEF Next, vars, Login, RevokeAll, Issue, Guard, Verify, Handshake,
       IsTokenBlacklisted, IsTokenBlacklistedLost, IsTokenRevokedForUser,
       IsTokenRevokedForUserLost, Reject, Accept, Handle, Serve, Logout,
       BlacklistTokenLost, StoreCutoffLost

(* A request comes to its first lookup from jwt.verify. *)
LEMMA AskedStep ==
    ASSUME TypeOK, AskedUnrefused, [Next]_vars
    PROVE  AskedUnrefused'
<1>0. /\ pc \in [Procs -> {"idle", "issue", "exists", "get", "decide", "handle",
                           "store", "cut", "socket"}]
      /\ req \in [Procs -> Requests]
  BY DEF TypeOK
<1>1. ASSUME NEW p \in Procs, NEW c, c # "exists", pc' = [pc EXCEPT ![p] = c],
             NEW r, req' = [req EXCEPT ![p] = r]
      PROVE  AskedUnrefused'
  BY <1>0, <1>1 DEF AskedUnrefused
<1>2. ASSUME NEW q \in Procs, Done(q) PROVE AskedUnrefused'
  BY <1>1, <1>2 DEF Done
<1>3. ASSUME NEW q \in Procs, NEW u \in Users, Login(q, u) \/ RevokeAll(q, u)
      PROVE  AskedUnrefused'
  BY <1>1, <1>3 DEF Login, RevokeAll
<1>4. ASSUME NEW q \in Procs, NEW t \in issued, Verify(q, t) PROVE AskedUnrefused'
  BY <1>0, <1>4 DEF Verify, Idle, AskedUnrefused
<1>5. ASSUME NEW q \in Procs, NEW t \in issued, Handshake(q, t) PROVE AskedUnrefused'
  BY <1>1, <1>5 DEF Handshake
<1>6. ASSUME NEW q \in Procs, IsTokenBlacklisted(q) \/ IsTokenBlacklistedLost(q)
      PROVE  AskedUnrefused'
  BY <1>1, <1>6 DEF IsTokenBlacklisted, IsTokenBlacklistedLost
<1>7. ASSUME NEW q \in Procs, IsTokenRevokedForUser(q) \/ IsTokenRevokedForUserLost(q)
      PROVE  AskedUnrefused'
  BY <1>1, <1>7 DEF IsTokenRevokedForUser, IsTokenRevokedForUserLost
<1>8. ASSUME NEW q \in Procs, Accept(q) \/ Logout(q) PROVE AskedUnrefused'
  BY <1>1, <1>8 DEF Accept, Logout
<1>9. CASE Tick \/ UNCHANGED vars
  BY <1>9 DEF Tick, vars, AskedUnrefused
<1>10. ASSUME NEW q \in Procs, Guard(q) PROVE AskedUnrefused'
  BY <1>2, <1>4, <1>5, <1>6, <1>7, <1>8, <1>10 DEF Guard, Reject
<1>11. ASSUME NEW q \in Procs, Handle(q) PROVE AskedUnrefused'
  BY <1>2, <1>8, <1>11 DEF Handle, Serve, BlacklistToken, BlacklistTokenLost
<1>12. ASSUME NEW q \in Procs, Issue(q) \/ StoreCutoff(q) \/ StoreCutoffLost(q)
       PROVE  AskedUnrefused'
  BY <1>2, <1>12 DEF Issue, StoreCutoff, StoreCutoffLost
<1> QED BY <1>3, <1>9, <1>10, <1>11, <1>12 DEF Next

LEMMA NothingElseStep == IndInv /\ NothingElse /\ [Next]_vars => NothingElse'
<1> SUFFICES ASSUME IndInv, NothingElse, [Next]_vars PROVE NothingElse'
  OBVIOUS
<1>0. TypeOK
  BY DEF IndInv
<1>1. TokenIssued'
  <2> SUFFICES ASSUME NEW p \in Procs, pc'[p] \in HasToken PROVE req'[p].tok \in issued'
    BY DEF TokenIssued
  <2> QED BY <1>0, TokenHeld, IssuedGrows DEF NothingElse, TokenIssued
<1>9. AskedUnrefused'
  BY <1>0, AskedStep DEF NothingElse
<1>2. CASE UNCHANGED <<now, blacklist, cutoff, stored, cut>>
  <2>1. EntriesStored' /\ CutoffIsLast'
    BY <1>2 DEF NothingElse, EntriesStored, CutoffIsLast
  <2> QED BY <1>1, <1>9, <2>1 DEF NothingElse
<1>3. ASSUME NEW p \in Procs, BlacklistToken(p) PROVE NothingElse'
  <2>1. EntriesStored'
    BY <1>3 DEF BlacklistToken, NothingElse, EntriesStored
  <2>2. CutoffIsLast'
    BY <1>3 DEF BlacklistToken, NothingElse, CutoffIsLast
  <2> QED BY <1>1, <1>9, <2>1, <2>2 DEF NothingElse
<1>4. ASSUME NEW p \in Procs, StoreCutoff(p) PROVE NothingElse'
  <2> DEFINE u == req[p].user
  <2>1. /\ u \in Users
        /\ cutoff' = [cutoff EXCEPT ![u] = [at |-> req[p].at, until |-> now + CutoffTtl]]
        /\ cut' = [cut EXCEPT ![u] = req[p].at]
        /\ UNCHANGED <<now, blacklist, stored>>
    BY <1>4 DEF StoreCutoff, IndInv, Equipped
  <2>2. /\ cutoff'[u].at = cut'[u]
        /\ \A w \in Users : w # u => cutoff'[w] = cutoff[w] /\ cut'[w] = cut[w]
    BY <1>0, <2>1 DEF TypeOK
  <2>3. CutoffIsLast'
    BY <2>1, <2>2 DEF NothingElse, CutoffIsLast
  <2>4. EntriesStored'
    BY <2>1 DEF NothingElse, EntriesStored
  <2> QED BY <1>1, <1>9, <2>3, <2>4 DEF NothingElse
<1>5. CASE Tick
  <2>1. EntriesStored'
    BY <1>5 DEF Tick, NothingElse, EntriesStored
  <2>2. CutoffIsLast'
    <3> SUFFICES ASSUME NEW u \in Users, now' < cutoff'[u].until
                 PROVE  cutoff'[u].at = cut'[u]
      BY DEF CutoffIsLast
    <3>1. now \in Nat /\ now' = now + 1 /\ cut' = cut /\ cutoff[u].until \in Nat
      BY <1>0, <1>5, Positive DEF Tick, TypeOK
    <3>2. cutoff'[u] = IF cutoff[u].until > now + 1 THEN cutoff[u] ELSE [at |-> 0, until |-> 0]
      BY <1>5 DEF Tick
    <3>3. cutoff'[u] = cutoff[u] /\ now < cutoff[u].until
      BY <3>1, <3>2
    <3> QED BY <3>1, <3>3 DEF NothingElse, CutoffIsLast
  <2> QED BY <1>1, <1>9, <2>1, <2>2 DEF NothingElse
<1> QED BY <1>2, <1>3, <1>4, <1>5, KeysStep

-----------------------------------------------------------------------------
(* The view of a request, before and after a step. *)

LEMMA Phases ==
    /\ DOMAIN Phase = {"exists", "get", "decide", "handle", "store"}
    /\ Phase["exists"] = "asked"
    /\ Phase["get"] = "looked"
    /\ Phase["decide"] = "judged"
    /\ Phase["handle"] = "admitted"
    /\ Phase["store"] = "leaving"
BY DEF Phase

LEMMA RegistryInit == Init => Registry!Init
BY Phases DEF Init, Registry!Init, Registry!Absent, Registry!Untold, Views, View, Idle

LEMMA Seen ==
    ASSUME NEW p \in Procs
    PROVE  Views[p] = View(p)
BY DEF Views

(* A step of p alone changes what p has been told, and nothing else. *)
LEMMA ViewStep ==
    ASSUME NEW p \in Procs,
           \A q \in Procs : q # p => pc'[q] = pc[q] /\ req'[q] = req[q],
           NEW r, View(p)' = r
    PROVE  Views' = [Views EXCEPT ![p] = r]
<1>1. ASSUME NEW q \in Procs, q # p PROVE View(q)' = View(q)
  <2>1. pc'[q] = pc[q] /\ req'[q] = req[q]
    BY <1>1
  <2>2. PICK c, x : c = pc[q] /\ x = req[q]
    OBVIOUS
  <2>3. pc'[q] = c /\ req'[q] = x
    BY <2>1, <2>2
  <2> QED BY <2>2, <2>3 DEF View
<1> QED BY <1>1 DEF Views

(* Requests that ask nothing show nothing. *)
LEMMA Unseen ==
    ASSUME NEW p \in Procs, pc[p] \notin {"exists", "get", "decide", "handle", "store"}
    PROVE  View(p) = Registry!Absent
<1>1. (pc[p] = "decide" /\ Idle.unsureCut) = FALSE
  OBVIOUS
<1>2. (pc[p] \in {"get", "decide"} /\ Idle.unsure) = FALSE
  OBVIOUS
<1> QED BY <1>1, <1>2, Phases DEF View, Idle, Registry!Absent, Registry!Untold

LEMMA UnseenNext ==
    ASSUME NEW p \in Procs, pc'[p] \notin {"exists", "get", "decide", "handle", "store"}
    PROVE  View(p)' = Registry!Absent
<1>1. (pc'[p] = "decide" /\ Idle.unsureCut) = FALSE
  OBVIOUS
<1>2. (pc'[p] \in {"get", "decide"} /\ Idle.unsure) = FALSE
  OBVIOUS
<1> QED BY <1>1, <1>2, Phases DEF View, Idle, Registry!Absent, Registry!Untold

(* A request that asks nothing before and after the step. *)
LEMMA UnseenStep ==
    ASSUME NEW p \in Procs,
           \A q \in Procs : q # p => pc'[q] = pc[q] /\ req'[q] = req[q],
           pc[p] \notin {"exists", "get", "decide", "handle", "store"},
           pc'[p] \notin {"exists", "get", "decide", "handle", "store"}
    PROVE  UNCHANGED Views
<1>1. View(p)' = View(p)
  BY Unseen, UnseenNext
<1>2. \A q \in Procs : View(q)' = View(q)
  BY <1>1 DEF View
<1> QED BY <1>2 DEF Views

(* What the others show, by the step they are at. *)
Told(phase, r, unsure, unsureCut) ==
    [phase |-> phase, tok |-> r.tok, refuse |-> r.revoked,
     unsure |-> unsure, unsureCut |-> unsureCut]

Shown(at, r) ==
    CASE at = "exists" -> Told("asked", r, FALSE, FALSE)
      [] at = "get"    -> Told("looked", r, r.unsure, FALSE)
      [] at = "decide" -> Told("judged", r, r.unsure, r.unsureCut)
      [] at = "handle" -> Told("admitted", r, FALSE, FALSE)
      [] at = "store"  -> Told("leaving", r, FALSE, FALSE)

LEMMA ShownIsView ==
    ASSUME NEW at \in {"exists", "get", "decide", "handle", "store"},
           NEW r \in Requests, NEW unsure, NEW unsureCut,
           unsure = (at \in {"get", "decide"} /\ r.unsure),
           unsureCut = (at = "decide" /\ r.unsureCut)
    PROVE  Told(Phase[at], r, unsure, unsureCut) = Shown(at, r)
<1>0. r.unsure \in BOOLEAN /\ r.unsureCut \in BOOLEAN
  BY DEF Requests
<1>1. CASE at = "exists"
  BY <1>1, Phases DEF Shown
<1>2. CASE at = "get"
  BY <1>0, <1>2, Phases DEF Shown
<1>3. CASE at = "decide"
  BY <1>0, <1>3, Phases DEF Shown
<1>4. CASE at = "handle"
  BY <1>4, Phases DEF Shown
<1>5. CASE at = "store"
  BY <1>5, Phases DEF Shown
<1> QED BY <1>1, <1>2, <1>3, <1>4, <1>5

LEMMA ViewShown ==
    ASSUME TypeOK, NEW p \in Procs, pc[p] \in {"exists", "get", "decide", "handle", "store"}
    PROVE  Views[p] = Shown(pc[p], req[p])
<1>1. PICK unsure, unsureCut : /\ unsure = (pc[p] \in {"get", "decide"} /\ req[p].unsure)
                               /\ unsureCut = (pc[p] = "decide" /\ req[p].unsureCut)
  OBVIOUS
<1>2. Views[p] = Told(Phase[pc[p]], req[p], unsure, unsureCut)
  BY <1>1, Phases DEF Views, View, Told
<1>3. req[p] \in Requests
  BY DEF TypeOK
<1> QED BY <1>1, <1>2, <1>3, ShownIsView

LEMMA ViewShownNext ==
    ASSUME TypeOK', NEW p \in Procs, NEW at, NEW r, pc'[p] = at, req'[p] = r,
           at \in {"exists", "get", "decide", "handle", "store"}
    PROVE  View(p)' = Shown(at, r)
<1>1. PICK unsure, unsureCut : /\ unsure = (at \in {"get", "decide"} /\ r.unsure)
                               /\ unsureCut = (at = "decide" /\ r.unsureCut)
  OBVIOUS
<1>2. View(p)' = Told(Phase[at], r, unsure, unsureCut)
  BY <1>1, Phases DEF View, Told
<1>3. r \in Requests
  BY DEF TypeOK
<1> QED BY <1>1, <1>2, <1>3, ShownIsView

LEMMA StepVerify ==
    ASSUME IndInv, TypeOK', NEW p \in Procs, NEW t \in issued, Verify(p, t)
    PROVE  Registry!Ask(p)
<1>0. TypeOK
  BY DEF IndInv
<1>1. Views[p] = Registry!Absent
  BY <1>0, Seen, Unseen DEF Verify, TypeOK
<1>2. PICK r : /\ r = [Idle EXCEPT !.tok = t, !.loggedOut = t \in stored]
               /\ pc'[p] = "exists"
               /\ req'[p] = r
               /\ \A q \in Procs : q # p => pc'[q] = pc[q] /\ req'[q] = req[q]
  BY <1>0 DEF Verify, TypeOK
<1>3. View(p)' = Shown("exists", r)
  BY <1>2, ViewShownNext
<1>4. Shown("exists", r) = Registry!Untold("asked", t)
  BY <1>2 DEF Shown, Told, Idle, Registry!Untold
<1>5. Views' = [Views EXCEPT ![p] = Registry!Untold("asked", t)]
  BY <1>2, <1>3, <1>4, ViewStep
<1>6. Registry!Live(t)
  BY DEF Verify, Live, Registry!Live
<1> QED BY <1>1, <1>5, <1>6 DEF Registry!Ask, Verify

(* The two lookups: an answer is exact while the token is live. *)
LEMMA StepBlacklist ==
    ASSUME IndInv, NothingElse, TypeOK', NEW p \in Procs,
           IsTokenBlacklisted(p) \/ IsTokenBlacklistedLost(p)
    PROVE  Registry!AnswerToken(p)
<1>0. TypeOK /\ req[p] \in Requests
  BY DEF IndInv, TypeOK
<1>1. pc[p] = "exists"
  BY DEF IsTokenBlacklisted, IsTokenBlacklistedLost
<1>2. PICK t : t = req[p].tok
  OBVIOUS
<1>3. Views[p].phase = "asked" /\ Views[p].tok = t
  <2>1. Views[p] = Shown("exists", req[p])
    BY <1>0, <1>1, ViewShown
  <2> QED BY <1>2, <2>1 DEF Shown, Told
<1>4. \E answer, doubt \in BOOLEAN :
          /\ req'[p].revoked = answer
          /\ req'[p].unsure = doubt
          /\ req'[p].tok = t
          /\ answer => t \in stored
          /\ doubt \/ (Live(t) /\ (t \in stored => answer))
  <2>1. CASE IsTokenBlacklisted(p)
    <3>1. PICK answer, doubt : answer = Blacklisted(t) /\ doubt = ~Live(t)
      OBVIOUS
    <3>2. answer \in BOOLEAN /\ doubt \in BOOLEAN
      BY <3>1 DEF Blacklisted, Live
    <3>3. req'[p] = [req[p] EXCEPT !.revoked = answer, !.unsure = doubt]
      BY <1>0, <1>2, <2>1, <3>1 DEF IsTokenBlacklisted, TypeOK
    <3>4. req'[p].revoked = answer /\ req'[p].unsure = doubt /\ req'[p].tok = t
      BY <1>0, <1>2, <3>3 DEF Requests
    <3>5. answer => t \in stored
      BY <3>1 DEF Blacklisted, NothingElse, EntriesStored
    <3>6. doubt \/ (Live(t) /\ (t \in stored => answer))
      BY <3>1, StoredBlacklisted
    <3> QED BY <3>2, <3>4, <3>5, <3>6
  <2>2. CASE IsTokenBlacklistedLost(p)
    <3>1. req'[p] = [req[p] EXCEPT !.unsure = TRUE]
      BY <1>0, <2>2 DEF IsTokenBlacklistedLost, TypeOK
    <3>2. /\ req'[p].revoked = req[p].revoked
          /\ req'[p].unsure = TRUE
          /\ req'[p].tok = t
      BY <1>0, <1>2, <3>1 DEF Requests
    <3>3. req[p].revoked = FALSE
      BY <1>0, <1>1 DEF NothingElse, AskedUnrefused
    <3> QED BY <3>2, <3>3
  <2> QED BY <2>1, <2>2
<1>5. PICK answer, doubt \in BOOLEAN :
          /\ req'[p].revoked = answer
          /\ req'[p].unsure = doubt
          /\ req'[p].tok = t
          /\ answer => t \in stored
          /\ doubt \/ (Live(t) /\ (t \in stored => answer))
  BY <1>4
<1>6. PICK f : f = [phase |-> "looked", tok |-> t, refuse |-> answer,
                    unsure |-> doubt, unsureCut |-> FALSE]
  OBVIOUS
<1>7. /\ pc'[p] = "get"
      /\ \A q \in Procs : q # p => pc'[q] = pc[q] /\ req'[q] = req[q]
  BY <1>0 DEF IsTokenBlacklisted, IsTokenBlacklistedLost, TypeOK
<1>8. View(p)' = f
  <2>1. PICK r : req'[p] = r
    OBVIOUS
  <2>2. View(p)' = Shown("get", r)
    BY <1>7, <2>1, ViewShownNext
  <2>3. r.tok = t /\ r.revoked = answer /\ r.unsure = doubt
    BY <1>5, <2>1
  <2> QED BY <1>6, <2>2, <2>3 DEF Shown, Told
<1>9. Views' = [Views EXCEPT ![p] = f]
  BY <1>7, <1>8, ViewStep
<1>10. UNCHANGED <<now, issued, stored, cut>>
  BY DEF IsTokenBlacklisted, IsTokenBlacklistedLost
<1> QED BY <1>3, <1>5, <1>6, <1>9, <1>10 DEF Registry!AnswerToken, Registry!Live, Live

LEMMA StepCutoff ==
    ASSUME IndInv, NothingElse, TypeOK', NEW p \in Procs,
           IsTokenRevokedForUser(p) \/ IsTokenRevokedForUserLost(p)
    PROVE  Registry!AnswerCut(p)
<1>0. TypeOK /\ req[p] \in Requests
  BY DEF IndInv, TypeOK
<1>1. pc[p] = "get"
  BY DEF IsTokenRevokedForUser, IsTokenRevokedForUserLost
<1>2. PICK t, refused, unsure : t = req[p].tok /\ refused = req[p].revoked /\ unsure = req[p].unsure
  OBVIOUS
<1>3. /\ Views[p].phase = "looked"
      /\ Views[p].tok = t
      /\ Views[p].refuse = refused
      /\ Views[p].unsure = unsure
  <2>1. Views[p] = Shown("get", req[p])
    BY <1>0, <1>1, ViewShown
  <2> QED BY <1>2, <2>1 DEF Shown, Told
<1>4. t \in issued /\ t \in Tokens
  BY <1>0, <1>1, <1>2 DEF NothingElse, TokenIssued, HasToken, TypeOK
<1>5. \E answer, doubt \in BOOLEAN :
          /\ req'[p].revoked = (refused \/ answer)
          /\ req'[p].unsureCut = doubt
          /\ req'[p].unsure = unsure
          /\ req'[p].tok = t
          /\ answer => t.iat < cut[t.sub]
          /\ doubt \/ (Live(t) /\ (t.iat < cut[t.sub] => answer))
  <2>1. CASE IsTokenRevokedForUser(p)
    <3>1. PICK answer, doubt : answer = CutBefore(t) /\ doubt = ~Live(t)
      OBVIOUS
    <3>2. answer \in BOOLEAN /\ doubt \in BOOLEAN
      BY <3>1 DEF CutBefore, Live
    <3>3. req'[p] = [req[p] EXCEPT !.revoked = refused \/ answer, !.unsureCut = doubt]
      BY <1>0, <1>2, <2>1, <3>1 DEF IsTokenRevokedForUser, TypeOK
    <3>4. /\ req'[p].revoked = (refused \/ answer)
          /\ req'[p].unsureCut = doubt
          /\ req'[p].unsure = unsure
          /\ req'[p].tok = t
      BY <1>0, <1>2, <3>3 DEF Requests
    <3>5. answer => t.iat < cut[t.sub]
      <4>1. t.sub \in Users
        BY <1>4 DEF Tokens
      <4> QED BY <3>1, <4>1 DEF CutBefore, NothingElse, CutoffIsLast
    <3>6. doubt \/ (Live(t) /\ (t.iat < cut[t.sub] => answer))
      BY <1>4, <3>1, CutoffMet DEF CutoffOutlivesTokens
    <3> QED BY <3>2, <3>4, <3>5, <3>6
  <2>2. CASE IsTokenRevokedForUserLost(p)
    <3>1. req'[p] = [req[p] EXCEPT !.unsureCut = TRUE]
      BY <1>0, <2>2 DEF IsTokenRevokedForUserLost, TypeOK
    <3>2. /\ req'[p].revoked = refused
          /\ req'[p].unsureCut = TRUE
          /\ req'[p].unsure = unsure
          /\ req'[p].tok = t
      BY <1>0, <1>2, <3>1 DEF Requests
    <3>3. refused \in BOOLEAN
      BY <1>0, <1>2 DEF Requests
    <3>4. refused = (refused \/ FALSE)
      BY <3>3
    <3>5. /\ req'[p].revoked = (refused \/ FALSE)
          /\ FALSE => t.iat < cut[t.sub]
          /\ TRUE \/ (Live(t) /\ (t.iat < cut[t.sub] => FALSE))
      BY <3>2, <3>4
    <3> QED BY <3>2, <3>5
  <2> QED BY <2>1, <2>2
<1>6. PICK answer, doubt \in BOOLEAN :
          /\ req'[p].revoked = (refused \/ answer)
          /\ req'[p].unsureCut = doubt
          /\ req'[p].unsure = unsure
          /\ req'[p].tok = t
          /\ answer => t.iat < cut[t.sub]
          /\ doubt \/ (Live(t) /\ (t.iat < cut[t.sub] => answer))
  BY <1>5
<1>7. PICK f : f = [phase |-> "judged", tok |-> t, refuse |-> refused \/ answer,
                    unsure |-> unsure, unsureCut |-> doubt]
  OBVIOUS
<1>8. /\ pc'[p] = "decide"
      /\ \A q \in Procs : q # p => pc'[q] = pc[q] /\ req'[q] = req[q]
  BY <1>0 DEF IsTokenRevokedForUser, IsTokenRevokedForUserLost, TypeOK
<1>9. View(p)' = f
  <2>1. PICK r : req'[p] = r
    OBVIOUS
  <2>2. View(p)' = Shown("decide", r)
    BY <1>8, <2>1, ViewShownNext
  <2>3. PICK verdict : verdict = (refused \/ answer)
    OBVIOUS
  <2>4. r.tok = t /\ r.revoked = verdict /\ r.unsure = unsure /\ r.unsureCut = doubt
    BY <1>6, <2>1, <2>3
  <2>5. f = [phase |-> "judged", tok |-> t, refuse |-> verdict,
             unsure |-> unsure, unsureCut |-> doubt]
    BY <1>7, <2>3
  <2> QED BY <2>2, <2>4, <2>5 DEF Shown, Told
<1>10. Views' = [Views EXCEPT ![p] = f]
  BY <1>8, <1>9, ViewStep
<1>11. UNCHANGED <<now, issued, stored, cut>>
  BY DEF IsTokenRevokedForUser, IsTokenRevokedForUserLost
<1>12. /\ answer => t.iat < cut[t.sub]
       /\ doubt \/ (Registry!Live(t) /\ (t.iat < cut[t.sub] => answer))
  BY <1>6 DEF Registry!Live, Live
<1>13. Views' = [Views EXCEPT ![p] = [phase |-> "judged",
                                      tok |-> t,
                                      refuse |-> refused \/ answer,
                                      unsure |-> unsure,
                                      unsureCut |-> doubt]]
  BY <1>7, <1>10
<1> QED BY <1>3, <1>11, <1>12, <1>13 DEF Registry!AnswerCut

LEMMA StepAccept ==
    ASSUME IndInv, TypeOK', NEW p \in Procs, Accept(p)
    PROVE  Registry!Admit(p)
<1>0. TypeOK /\ req[p] \in Requests
  BY DEF IndInv, TypeOK
<1>1. Views[p] = Shown("decide", req[p])
  BY <1>0, ViewShown DEF Accept
<1>2. Views[p].phase = "judged" /\ Views[p].tok = req[p].tok /\ ~Views[p].refuse
  BY <1>1 DEF Shown, Told, Accept
<1>3. PICK r : /\ r = [req[p] EXCEPT !.unsureCut = FALSE]
               /\ pc'[p] = "handle"
               /\ req'[p] = r
               /\ \A q \in Procs : q # p => pc'[q] = pc[q] /\ req'[q] = req[q]
  BY <1>0 DEF Accept, TypeOK
<1>4. View(p)' = Shown("handle", r)
  BY <1>3, ViewShownNext
<1>5. r.tok = req[p].tok /\ r.revoked = FALSE
  BY <1>0, <1>3 DEF Requests, Accept
<1>6. Shown("handle", r) = Registry!Untold("admitted", req[p].tok)
  BY <1>5 DEF Shown, Told, Registry!Untold
<1>7. Views' = [Views EXCEPT ![p] = Registry!Untold("admitted", req[p].tok)]
  BY <1>3, <1>4, <1>6, ViewStep
<1> QED BY <1>2, <1>7 DEF Registry!Admit, Accept

LEMMA StepLogout ==
    ASSUME IndInv, TypeOK', NEW p \in Procs, Logout(p)
    PROVE  Registry!Leave(p)
<1>0. TypeOK /\ req[p] \in Requests
  BY DEF IndInv, TypeOK
<1>1. Views[p] = Shown("handle", req[p])
  BY <1>0, ViewShown DEF Logout
<1>2. Views[p].phase = "admitted" /\ Views[p].tok = req[p].tok
  BY <1>1 DEF Shown, Told
<1>3. PICK r : /\ r = [Idle EXCEPT !.tok = req[p].tok, !.ttl = BlacklistTtl(req[p].tok)]
               /\ pc'[p] = "store"
               /\ req'[p] = r
               /\ \A q \in Procs : q # p => pc'[q] = pc[q] /\ req'[q] = req[q]
  BY <1>0 DEF Logout, TypeOK
<1>4. View(p)' = Shown("store", r)
  BY <1>3, ViewShownNext
<1>5. r.tok = req[p].tok /\ r.revoked = FALSE
  BY <1>3 DEF Idle
<1>6. Shown("store", r) = Registry!Untold("leaving", req[p].tok)
  BY <1>5 DEF Shown, Told, Registry!Untold
<1>7. Views' = [Views EXCEPT ![p] = Registry!Untold("leaving", req[p].tok)]
  BY <1>3, <1>4, <1>6, ViewStep
<1> QED BY <1>2, <1>7 DEF Registry!Leave, Logout

(* A request that is done shows nothing any more. *)
LEMMA DoneView ==
    ASSUME TypeOK, NEW p \in Procs, Done(p)
    PROVE  Views' = [Views EXCEPT ![p] = Registry!Absent]
BY DoneEffect, UnseenNext, ViewStep

LEMMA StepEnd ==
    ASSUME IndInv, NEW p \in Procs, Done(p),
           UNCHANGED <<now, issued, stored, cut>>,
           \/ pc[p] = "decide" /\ req[p].revoked
           \/ pc[p] \in {"handle", "store"}
    PROVE  Registry!End(p)
<1>0. TypeOK
  BY DEF IndInv
<1>1. Views[p] = Shown(pc[p], req[p])
  BY <1>0, ViewShown
<1>2. \/ Views[p].phase = "judged" /\ Views[p].refuse
      \/ Views[p].phase \in {"admitted", "leaving"}
  <2>1. CASE pc[p] = "decide"
    BY <1>1, <2>1 DEF Shown, Told
  <2>2. CASE pc[p] = "handle"
    BY <1>1, <2>2 DEF Shown, Told
  <2>3. CASE pc[p] = "store"
    BY <1>1, <2>3 DEF Shown, Told
  <2> QED BY <2>1, <2>2, <2>3
<1> QED BY <1>0, <1>2, DoneView DEF Registry!End

LEMMA StepRevoke ==
    ASSUME IndInv, NEW p \in Procs, BlacklistToken(p)
    PROVE  Registry!Revoke(p)
<1>0. TypeOK
  BY DEF IndInv
<1>1. Views[p] = Shown("store", req[p])
  BY <1>0, ViewShown DEF BlacklistToken
<1>2. Views[p].phase = "leaving" /\ Views[p].tok = req[p].tok
  BY <1>1 DEF Shown, Told
<1>3. Views' = [Views EXCEPT ![p] = Registry!Absent]
  BY <1>0, DoneView DEF BlacklistToken
<1> QED BY <1>2, <1>3 DEF BlacklistToken, Registry!Revoke

(* Steps of a request that asks nothing. *)
LEMMA StepUnseen ==
    ASSUME IndInv, NEW p \in Procs,
           \/ \E u \in Users : Login(p, u) \/ RevokeAll(p, u)
           \/ \E t \in issued : Handshake(p, t)
           \/ Issue(p)
           \/ StoreCutoff(p)
           \/ StoreCutoffLost(p)
           \/ Serve(p) /\ pc[p] = "socket"
    PROVE  UNCHANGED Views
<1>0. TypeOK
  BY DEF IndInv
<1>1. ASSUME Done(p), pc[p] \in {"issue", "cut", "socket"} PROVE UNCHANGED Views
  BY <1>0, <1>1, DoneEffect, UnseenStep
<1>2. ASSUME NEW c \in {"issue", "cut", "socket"}, pc[p] = "idle",
             NEW r, pc' = [pc EXCEPT ![p] = c], req' = [req EXCEPT ![p] = r]
      PROVE  UNCHANGED Views
  <2>1. pc'[p] = c /\ \A q \in Procs : q # p => pc'[q] = pc[q] /\ req'[q] = req[q]
    BY <1>0, <1>2 DEF TypeOK
  <2> QED BY <1>2, <2>1, UnseenStep
<1>3. ASSUME NEW u \in Users, Login(p, u) \/ RevokeAll(p, u) PROVE UNCHANGED Views
  BY <1>2, <1>3 DEF Login, RevokeAll
<1>4. ASSUME NEW t \in issued, Handshake(p, t) PROVE UNCHANGED Views
  BY <1>2, <1>4 DEF Handshake
<1> QED BY <1>1, <1>3, <1>4 DEF Issue, StoreCutoff, StoreCutoffLost, Serve

LEMMA StepIssue ==
    ASSUME IndInv, NEW p \in Procs, Issue(p)
    PROVE  Registry!Issue
<1>1. UNCHANGED Views
  BY StepUnseen
<1>2. \A t \in TokenPair(req[p].user) : t.iat = now /\ now < t.exp
  BY Positive DEF TokenPair, IndInv, TypeOK
<1> QED BY <1>1, <1>2 DEF Issue, Registry!Issue, Registry!Live

LEMMA StepCutOff ==
    ASSUME IndInv, NEW p \in Procs, StoreCutoff(p)
    PROVE  \E u \in Users, s \in 0 .. now : Registry!CutOff(u, s)
<1>1. UNCHANGED Views
  BY StepUnseen
<1>2. req[p].user \in Users /\ req[p].at \in 0 .. now
  BY Positive DEF StoreCutoff, IndInv, Equipped, TypeOK, Requests
<1>3. Registry!CutOff(req[p].user, req[p].at)
  BY <1>1 DEF StoreCutoff, Registry!CutOff
<1> QED BY <1>2, <1>3

LEMMA StepTick == Tick => Registry!Tick
BY DEF Tick, Registry!Tick, Views, View

LEMMA RegistryStep ==
    ASSUME IndInv, NothingElse, TypeOK', [Next]_vars
    PROVE  [Registry!Next]_(Registry!registry)
<1>1. ASSUME UNCHANGED <<now, issued, stored, cut>>, UNCHANGED Views
      PROVE  UNCHANGED Registry!registry
  BY <1>1 DEF Registry!registry
<1>2. ASSUME NEW p \in Procs, NEW u \in Users, Login(p, u) \/ RevokeAll(p, u)
      PROVE  UNCHANGED Registry!registry
  BY <1>1, <1>2, StepUnseen DEF Login, RevokeAll
<1>3. ASSUME NEW p \in Procs, Guard(p) PROVE [Registry!Next]_(Registry!registry)
  <2>1. ASSUME NEW t \in issued, Handshake(p, t) PROVE UNCHANGED Registry!registry
    BY <1>1, <2>1, StepUnseen DEF Handshake
  <2>2. CASE Reject(p)
    BY <2>2, StepEnd DEF Reject, Registry!Next
  <2> QED BY <1>3, <2>1, <2>2, StepVerify, StepBlacklist, StepCutoff, StepAccept
          DEF Guard, Registry!Next
<1>4. ASSUME NEW p \in Procs, Handle(p) PROVE [Registry!Next]_(Registry!registry)
  <2>1. CASE Serve(p)
    <3>1. CASE pc[p] = "socket"
      BY <1>1, <2>1, <3>1, StepUnseen DEF Serve
    <3>2. CASE pc[p] = "handle"
      BY <2>1, <3>2, StepEnd DEF Serve, Registry!Next
    <3> QED BY <2>1, <3>1, <3>2 DEF Serve
  <2>2. CASE BlacklistTokenLost(p)
    BY <2>2, StepEnd DEF BlacklistTokenLost, Registry!Next
  <2> QED BY <1>4, <2>1, <2>2, StepLogout, StepRevoke DEF Handle, Registry!Next
<1>5. ASSUME NEW p \in Procs, StoreCutoffLost(p) PROVE UNCHANGED Registry!registry
  BY <1>1, <1>5, StepUnseen DEF StoreCutoffLost
<1>6. CASE UNCHANGED vars
  BY <1>6 DEF vars, Registry!registry, Views, View
<1> QED BY <1>2, <1>3, <1>4, <1>5, <1>6, StepIssue, StepCutOff, StepTick
        DEF Next, Registry!Next

(* Every step is a step of the registry of permanent facts, or none. *)
THEOREM Implements == Spec => ImplementsRegistry
<1>1. Init => NothingElse
  BY NothingElseInit
<1>2. IndInv /\ NothingElse /\ [Next]_vars => NothingElse'
  BY NothingElseStep
<1>3. IndInv /\ NothingElse /\ IndInv' /\ [Next]_vars
      => [Registry!Next]_(Registry!registry)
  BY RegistryStep DEF IndInv
<1> QED BY <1>1, <1>2, <1>3, RegistryInit, Inductive, PTL
        DEF Spec, ImplementsRegistry, Registry!Spec
=============================================================================
