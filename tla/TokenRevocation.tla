-------------------------- MODULE TokenRevocation --------------------------
(***************************************************************************)
(* Logout, "revoke all tokens" and the guard that honours them.            *)
(*                                                                         *)
(* A JWT stays valid until its exp claim, so the service remembers in      *)
(* Redis which tokens were logged out (token:blacklist:<token>) and, per   *)
(* user, the second before which every token is revoked                    *)
(* (token:revoked-before:<user>).  Both keys have a TTL that must outlast  *)
(* the tokens they speak of.  The guard authenticate() reads both keys     *)
(* after it has verified the token; a Redis command that cannot be         *)
(* executed counts as "not revoked".                                       *)
(*                                                                         *)
(* Time is counted in whole seconds, as iat, exp and Date.now() / 1000     *)
(* are, and is the same for all processes and for Redis.  jwt.sign is      *)
(* deterministic: two logins of one user in one second yield equal tokens. *)
(***************************************************************************)
EXTENDS Integers, FiniteSets

CONSTANTS
    Users,
    Procs,          \* requests that may be in progress at once
    AccessTtl,      \* JWT_ACCESS_EXPIRATION
    RefreshTtl,     \* JWT_REFRESH_EXPIRATION
    RevokeTtl,      \* default ttlSeconds of revokeAllUserTokens
    FallbackTtl,    \* blacklistToken's TTL for a token that has expired
    MaxTime,        \* bound: the clock
    MaxTokens,      \* bound: no login starts when so many tokens were issued
    None

ASSUME Positive ==
    /\ AccessTtl \in Nat \ {0}
    /\ RefreshTtl \in Nat \ {0}
    /\ RevokeTtl \in Nat \ {0}
    /\ FallbackTtl \in Nat \ {0}
    /\ MaxTime \in Nat

(* The default of revokeAllUserTokens is the lifetime of a refresh token.  *)
(* Both are configured apart; the code relies on this relation.            *)
ASSUME RevokeOutlastsTokens ==
    /\ AccessTtl <= RevokeTtl
    /\ RefreshTtl <= RevokeTtl

Tokens == [sub : Users, iat : Nat, exp : Nat]

ASSUME NoneIsNoToken == None \notin Tokens

VARIABLES
    now,        \* the clock
    issued,     \* tokens handed out so far
    blacklist,  \* keys token:blacklist:<tok> in Redis, gone at time until
    cutoff,     \* cutoff[u]: the key token:revoked-before:u, gone at until
    pc,         \* pc[p]: the next step of request p
    req,        \* req[p]: the request p is serving
    stored,     \* history: tokens whose logout reached Redis
    cut         \* history: cut[u] is the last cutoff stored for u

vars == <<now, issued, blacklist, cutoff, pc, req, stored, cut>>

(* The last three are history: whether the token had been logged out when  *)
(* the request arrived, and whether the lookup of the blacklist (unsure)   *)
(* and, until the verdict, of the cutoff (unsureCut) was not answered by   *)
(* Redis or came after the token had expired.                              *)
Requests == [user : Users \cup {None},
             tok : Tokens \cup {None},
             revoked : BOOLEAN,
             ttl : Nat,
             at : Nat,
             loggedOut : BOOLEAN,
             unsure : BOOLEAN,
             unsureCut : BOOLEAN]

Idle == [user |-> None, tok |-> None, revoked |-> FALSE,
         ttl |-> 0, at |-> 0, loggedOut |-> FALSE,
         unsure |-> FALSE, unsureCut |-> FALSE]

(* SETEX refuses a time to live of zero. *)
TypeOK ==
    /\ now \in 0 .. MaxTime
    /\ issued \subseteq Tokens
    /\ blacklist \subseteq [tok : Tokens, until : Nat]
    /\ cutoff \in [Users -> [at : Nat, until : Nat]]
    /\ pc \in [Procs -> {"idle", "issue", "exists", "get", "decide", "handle",
                         "store", "cut", "socket"}]
    /\ req \in [Procs -> Requests]
    /\ \A p \in Procs : pc[p] = "store" => req[p].ttl > 0
    /\ stored \subseteq Tokens
    /\ cut \in [Users -> Nat]

Init ==
    /\ now = 0
    /\ issued = {}
    /\ blacklist = {}
    /\ cutoff = [u \in Users |-> [at |-> 0, until |-> 0]]
    /\ pc = [p \in Procs |-> "idle"]
    /\ req = [p \in Procs |-> Idle]
    /\ stored = {}
    /\ cut = [u \in Users |-> 0]

-----------------------------------------------------------------------------
(* The two keys as Redis and the guard see them. *)

Blacklisted(t) == \E b \in blacklist : b.tok = t /\ now < b.until

(* Mutant of CutBefore: the second of the cutoff itself is revoked too. *)
CutUpTo(t) ==
    /\ now < cutoff[t.sub].until
    /\ t.iat <= cutoff[t.sub].at

CutBefore(t) ==
    /\ now < cutoff[t.sub].until
    /\ t.iat < cutoff[t.sub].at

(* Mutants of BlacklistTtl: the fallback comes a second late, and a TTL of *)
(* zero is one that SETEX refuses; the lifetime of an access token is used *)
(* for every token.                                                        *)
TtlOfZero(t) == IF t.exp >= now THEN t.exp - now ELSE FallbackTtl
TtlOfAccess(t) == AccessTtl

(* blacklistToken: what is left of the token's life, 24 h if nothing is. *)
BlacklistTtl(t) == IF t.exp > now THEN t.exp - now ELSE FallbackTtl

Live(t) == now < t.exp

Done(p) ==
    /\ pc' = [pc EXCEPT ![p] = "idle"]
    /\ req' = [req EXCEPT ![p] = Idle]

-----------------------------------------------------------------------------
(* AuthService.login past its checks of the password and of isActive (see  *)
(* Accounts): lastLoginAt is written, and then the pair of tokens is       *)
(* signed.  register() ends in the same pair.                              *)

Login(p, u) ==
    /\ pc[p] = "idle"
    /\ Cardinality(issued) < MaxTokens
    /\ pc' = [pc EXCEPT ![p] = "issue"]
    /\ req' = [req EXCEPT ![p] = [Idle EXCEPT !.user = u]]
    /\ UNCHANGED <<now, issued, blacklist, cutoff, stored, cut>>

TokenPair(u) == {[sub |-> u, iat |-> now, exp |-> now + AccessTtl],
                 [sub |-> u, iat |-> now, exp |-> now + RefreshTtl]}

Issue(p) ==
    /\ pc[p] = "issue"
    /\ issued' = issued \cup TokenPair(req[p].user)
    /\ Done(p)
    /\ UNCHANGED <<now, blacklist, cutoff, stored, cut>>

-----------------------------------------------------------------------------
(* authenticate(): jwt.verify, then the two lookups, started together and  *)
(* executed in this order by the connection, then the verdict.             *)

Verify(p, t) ==
    /\ pc[p] = "idle"
    /\ Live(t)
    /\ pc' = [pc EXCEPT ![p] = "exists"]
    /\ req' = [req EXCEPT ![p] = [Idle EXCEPT !.tok = t,
                                              !.loggedOut = t \in stored]]
    /\ UNCHANGED <<now, issued, blacklist, cutoff, stored, cut>>

(* The handshake of a socket verifies the token and looks nothing up. *)
Handshake(p, t) ==
    /\ pc[p] = "idle"
    /\ Live(t)
    /\ pc' = [pc EXCEPT ![p] = "socket"]
    /\ req' = [req EXCEPT ![p] = [Idle EXCEPT !.tok = t]]
    /\ UNCHANGED <<now, issued, blacklist, cutoff, stored, cut>>

IsTokenBlacklisted(p) ==
    /\ pc[p] = "exists"
    /\ pc' = [pc EXCEPT ![p] = "get"]
    /\ req' = [req EXCEPT ![p].revoked = Blacklisted(req[p].tok),
                          ![p].unsure = ~Live(req[p].tok)]
    /\ UNCHANGED <<now, issued, blacklist, cutoff, stored, cut>>

(* Fail-open: no client, or the command failed. *)
IsTokenBlacklistedLost(p) ==
    /\ pc[p] = "exists"
    /\ pc' = [pc EXCEPT ![p] = "get"]
    /\ req' = [req EXCEPT ![p].unsure = TRUE]
    /\ UNCHANGED <<now, issued, blacklist, cutoff, stored, cut>>

(* Mutant of IsTokenRevokedForUser: the second lookup decides alone. *)
LastLookupDecides(p) ==
    /\ pc[p] = "get"
    /\ pc' = [pc EXCEPT ![p] = "decide"]
    /\ req' = [req EXCEPT ![p].revoked = CutBefore(req[p].tok),
                          ![p].unsureCut = ~Live(req[p].tok)]
    /\ UNCHANGED <<now, issued, blacklist, cutoff, stored, cut>>

IsTokenRevokedForUser(p) ==
    /\ pc[p] = "get"
    /\ pc' = [pc EXCEPT ![p] = "decide"]
    /\ req' = [req EXCEPT ![p].revoked = @ \/ CutBefore(req[p].tok),
                          ![p].unsureCut = ~Live(req[p].tok)]
    /\ UNCHANGED <<now, issued, blacklist, cutoff, stored, cut>>

IsTokenRevokedForUserLost(p) ==
    /\ pc[p] = "get"
    /\ pc' = [pc EXCEPT ![p] = "decide"]
    /\ req' = [req EXCEPT ![p].unsureCut = TRUE]
    /\ UNCHANGED <<now, issued, blacklist, cutoff, stored, cut>>

Reject(p) ==
    /\ pc[p] = "decide"
    /\ req[p].revoked
    /\ Done(p)
    /\ UNCHANGED <<now, issued, blacklist, cutoff, stored, cut>>

Accept(p) ==
    /\ pc[p] = "decide"
    /\ ~req[p].revoked
    /\ pc' = [pc EXCEPT ![p] = "handle"]
    /\ req' = [req EXCEPT ![p].unsureCut = FALSE]
    /\ UNCHANGED <<now, issued, blacklist, cutoff, stored, cut>>

-----------------------------------------------------------------------------
(* The handlers behind the guard. *)

(* Any other handler, and the handshake: nothing of this module changes.   *)
(* deleteUser is one of them: it deactivates the caller's account and      *)
(* revokes none of its tokens.                                             *)
Serve(p) ==
    /\ pc[p] \in {"handle", "socket"}
    /\ Done(p)
    /\ UNCHANGED <<now, issued, blacklist, cutoff, stored, cut>>

(* logout computes the TTL, and Redis executes SETEX some time later. *)
Logout(p) ==
    /\ pc[p] = "handle"
    /\ pc' = [pc EXCEPT ![p] = "store"]
    /\ req' = [req EXCEPT ![p] = [Idle EXCEPT !.tok = req[p].tok,
                                              !.ttl = BlacklistTtl(req[p].tok)]]
    /\ UNCHANGED <<now, issued, blacklist, cutoff, stored, cut>>

BlacklistToken(p) ==
    LET t == req[p].tok IN
    /\ pc[p] = "store"
    /\ blacklist' = {b \in blacklist : b.tok # t}
                    \cup {[tok |-> t, until |-> now + req[p].ttl]}
    /\ stored' = stored \cup {t}
    /\ Done(p)
    /\ UNCHANGED <<now, issued, cutoff, cut>>

(* No client or a failed SETEX: it is logged, and logout answers 200. *)
BlacklistTokenLost(p) ==
    /\ pc[p] = "store"
    /\ Done(p)
    /\ UNCHANGED <<now, issued, blacklist, cutoff, stored, cut>>

-----------------------------------------------------------------------------
(* revokeAllUserTokens is exported and called from nowhere in src/: any    *)
(* caller may call it at any time.  The second is taken first, and Redis   *)
(* executes SETEX some time later.                                         *)

RevokeAll(p, u) ==
    /\ pc[p] = "idle"
    /\ pc' = [pc EXCEPT ![p] = "cut"]
    /\ req' = [req EXCEPT ![p] = [Idle EXCEPT !.user = u, !.at = now]]
    /\ UNCHANGED <<now, issued, blacklist, cutoff, stored, cut>>

(* Mutant of CutoffTtl: the lifetime of an access token. *)
CutoffTtlOfAccess == AccessTtl

CutoffTtl == RevokeTtl

StoreCutoff(p) ==
    LET u == req[p].user IN
    /\ pc[p] = "cut"
    /\ cutoff' = [cutoff EXCEPT ![u] = [at |-> req[p].at, until |-> now + CutoffTtl]]
    /\ cut' = [cut EXCEPT ![u] = req[p].at]
    /\ Done(p)
    /\ UNCHANGED <<now, issued, blacklist, stored>>

StoreCutoffLost(p) ==
    /\ pc[p] = "cut"
    /\ Done(p)
    /\ UNCHANGED <<now, issued, blacklist, cutoff, stored, cut>>

-----------------------------------------------------------------------------
(* One second passes, and Redis drops the keys whose time is over. *)
Tick ==
    /\ now < MaxTime
    /\ now' = now + 1
    /\ blacklist' = {b \in blacklist : b.until > now + 1}
    /\ cutoff' = [u \in Users |-> IF cutoff[u].until > now + 1 THEN cutoff[u]
                                  ELSE [at |-> 0, until |-> 0]]
    /\ UNCHANGED <<issued, pc, req, stored, cut>>

Guard(p) ==
    \/ \E t \in issued : Verify(p, t) \/ Handshake(p, t)
    \/ IsTokenBlacklisted(p)
    \/ IsTokenBlacklistedLost(p)
    \/ IsTokenRevokedForUser(p)
    \/ IsTokenRevokedForUserLost(p)
    \/ Reject(p)
    \/ Accept(p)

Handle(p) ==
    \/ Serve(p)
    \/ Logout(p)
    \/ BlacklistToken(p)
    \/ BlacklistTokenLost(p)

Next ==
    \/ \E p \in Procs :
          \/ \E u \in Users : Login(p, u) \/ RevokeAll(p, u)
          \/ Issue(p)
          \/ Guard(p)
          \/ Handle(p)
          \/ StoreCutoff(p)
          \/ StoreCutoffLost(p)
    \/ Tick

Spec == Init /\ [][Next]_vars

-----------------------------------------------------------------------------
(* Properties. *)

(* A logout that reached Redis is remembered as long as the token could be *)
(* used: however long SETEX was under way after the TTL was computed, and  *)
(* whatever other logouts of the same token overwrote the key meanwhile.   *)
RevocationOutlivesToken ==
    \A t \in stored : Live(t) => Blacklisted(t)

(* The guard lets a request through whose token was logged out before the  *)
(* request arrived only if Redis did not answer its lookup, or the token   *)
(* expired between jwt.verify and the lookup.                              *)
LoggedOutRejected ==
    \A p \in Procs :
        pc[p] = "handle" /\ req[p].loggedOut => req[p].unsure

(* The last cutoff stored for a user is remembered, and enforced, as long  *)
(* as a token issued before it could be used.                              *)
CutoffOutlivesTokens ==
    \A t \in issued : Live(t) /\ t.iat < cut[t.sub] => CutBefore(t)

-----------------------------------------------------------------------------
(* The request as the registry of permanent facts sees it.  A socket's     *)
(* handshake, a login and revokeAllUserTokens ask it nothing.              *)

Phase == [exists |-> "asked", get |-> "looked", decide |-> "judged",
          handle |-> "admitted", store |-> "leaving"]

View(p) ==
    LET asks == pc[p] \in DOMAIN Phase
        r == IF asks THEN req[p] ELSE Idle
    IN  [phase |-> IF asks THEN Phase[pc[p]] ELSE "absent",
         tok |-> r.tok,
         refuse |-> r.revoked,
         unsure |-> pc[p] \in {"get", "decide"} /\ r.unsure,
         unsureCut |-> pc[p] = "decide" /\ r.unsureCut]

Views == [p \in Procs |-> View(p)]

Registry == INSTANCE RevocationRegistry WITH
    revoked <- stored,
    view <- Views

(* Two keys that expire, are overwritten by a TTL computed earlier, and    *)
(* are read one after the other behave as two permanent facts, each looked *)
(* up in one step: no interleaving of logouts, cutoffs, lookups and the    *)
(* clock lets an answered question about a live token miss a revocation    *)
(* that Redis has executed, nor refuse a token that nobody revoked.        *)
ImplementsRegistry == Registry!Spec
=============================================================================
