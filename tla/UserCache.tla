----------------------------- MODULE UserCache -----------------------------
(***************************************************************************)
(* The cache-aside read path and the invalidating write path of            *)
(* UserService, over the Redis cache and the MongoDB users collection that *)
(* all processes of the service share.                                     *)
(*                                                                         *)
(* A document is abstracted to the number of writes it has seen (0 = there *)
(* is no document) and a cached value to the versions of the documents it  *)
(* was computed from.  Keys are of three kinds: one per profile, one per   *)
(* page of the user list, one per analytics query.  A page of the list is  *)
(* computed by two commands, find and countDocuments, so its rows and its  *)
(* totals may be of two moments: the versions are those of the earlier one *)
(* and what the later one saw is as new or newer.                          *)
(*                                                                         *)
(* Each element of Procs is one request at a time in some process of the   *)
(* service; every Redis command and every database operation is one step,  *)
(* so requests interleave wherever the code awaits.                        *)
(***************************************************************************)
EXTENDS Naturals, FiniteSets

CONSTANTS
    Users,      \* ids of users; the profile of u is cached under the key u
    ListKeys,   \* keys user:list:<page>:<limit>:<role>
    StatKeys,   \* keys user:analytics:...
    Procs,      \* requests that may be in progress at once
    MaxVer,     \* bound: writes to one document
    None        \* the reply of GET for a key that is not in Redis

(* An id that looks like another key, GET /users/list:1:20:all, is left    *)
(* out: it can be answered what is cached there, but stores nothing, as    *)
(* no document has such an id.                                             *)
ASSUME KeysApart ==
    /\ Users \cap ListKeys = {}
    /\ Users \cap StatKeys = {}
    /\ ListKeys \cap StatKeys = {}

ASSUME MaxVerNat == MaxVer \in Nat

Keys == Users \cup ListKeys \cup StatKeys
Versions == 0 .. MaxVer

(* The documents the value under key k is computed from. *)
Sees(k) == IF k \in Users THEN {k} ELSE Users

Entries == [data : [Users -> Versions], raced : BOOLEAN]

ASSUME NoneIsNoEntry == None \notin Entries
ASSUME NoneIsNoKey == None \notin Keys

VARIABLES
    ver,        \* ver[u]: version of u's document in MongoDB
    cache,      \* cache[k]: the value Redis holds under key k, or None
    pc,         \* pc[p]: the next step of request p
    fill,       \* fill[p]: the key p reads and the value it will store
    inv,        \* inv[p]: the invalidation p is executing
    floor       \* history: floor[k][u] is the newest version of u whose
                \* write has completed an invalidation of key k

vars == <<ver, cache, pc, fill, inv, floor>>

Fills == [key : Keys \cup {None}, data : [Users -> Versions], raced : BOOLEAN]

Invs == [user : Users \cup {None}, ver : Versions, scope : SUBSET Keys,
         pending : SUBSET Keys, page : SUBSET Keys, last : BOOLEAN]

Nothing == [u \in Users |-> 0]
NoFill == [key |-> None, data |-> Nothing, raced |-> FALSE]
NoInv == [user |-> None, ver |-> 0, scope |-> {}, pending |-> {}, page |-> {},
          last |-> FALSE]

TypeOK ==
    /\ ver \in [Users -> Versions]
    /\ cache \in [Keys -> Entries \cup {None}]
    /\ pc \in [Procs -> {"idle", "get", "find", "count", "fill",
                         "del", "open", "scan", "drop"}]
    /\ fill \in [Procs -> Fills]
    /\ inv \in [Procs -> Invs]
    /\ floor \in [Keys -> [Users -> Versions]]

Init ==
    /\ ver = Nothing
    /\ cache = [k \in Keys |-> None]
    /\ pc = [p \in Procs |-> "idle"]
    /\ fill = [p \in Procs |-> NoFill]
    /\ inv = [p \in Procs |-> NoInv]
    /\ floor = [k \in Keys |-> Nothing]

-----------------------------------------------------------------------------
(* Helpers. *)

Present == {k \in Keys : cache[k] # None}

(* Mutant of Query: a document that does not exist is answered as null. *)
QueryWithNull(k) ==
    [u \in Users |-> IF u \notin Sees(k) THEN 0
                     ELSE IF ver[u] = 0 THEN None ELSE ver[u]]

(* What the repository computes for key k from the current documents. *)
Query(k) == [u \in Users |-> IF u \in Sees(k) THEN ver[u] ELSE 0]

(* Keys matched by the pattern user:list:* and by the pattern user:*. *)
ListScope == ListKeys
UserScope == Keys

(* Redis removes the keys S: no SCAN in progress still owes them. *)
Remove(S) == cache' = [k \in Keys |-> IF k \in S THEN None ELSE cache[k]]

Forget(S) == [p \in Procs |-> [inv[p] EXCEPT !.pending = @ \ S]]

(* The steps of a request that has begun to read the database and has not  *)
(* stored what it reads.                                                   *)
HasRead == {"count", "fill"}

(* History: the fills of keys S that have begun to read have raced with an *)
(* invalidation of S.                                                      *)
MarkRaced(S) ==
    fill' = [p \in Procs |->
                IF pc[p] \in HasRead /\ fill[p].key \in S
                THEN [fill[p] EXCEPT !.raced = TRUE]
                ELSE fill[p]]

(* History: the write of version v of u has invalidated the keys S. *)
RaiseFloor(S, u, v) ==
    floor' = [k \in Keys |->
                 IF k \in S /\ u \in Sees(k) /\ v > floor[k][u]
                 THEN [floor[k] EXCEPT ![u] = v]
                 ELSE floor[k]]

-----------------------------------------------------------------------------
(* The five getters of UserService, which share one shape: GET, and on a   *)
(* miss a query of the database followed by SETEX.                         *)

Request(p, k) ==
    /\ pc[p] = "idle"
    /\ pc' = [pc EXCEPT ![p] = "get"]
    /\ fill' = [fill EXCEPT ![p] = [NoFill EXCEPT !.key = k]]
    /\ UNCHANGED <<ver, cache, inv, floor>>

CacheHit(p) ==
    /\ pc[p] = "get"
    /\ cache[fill[p].key] # None
    /\ pc' = [pc EXCEPT ![p] = "idle"]
    /\ fill' = [fill EXCEPT ![p] = NoFill]
    /\ UNCHANGED <<ver, cache, inv, floor>>

(* The key is absent, the client is not connected or the command failed:   *)
(* get() answers null in all three cases, whatever Redis holds.            *)
CacheMiss(p) ==
    /\ pc[p] = "get"
    /\ pc' = [pc EXCEPT ![p] = "find"]
    /\ UNCHANGED <<ver, cache, fill, inv, floor>>

(* getUserById found no document: NotFoundError, nothing is cached. *)
FindNothing(p) ==
    /\ pc[p] = "find"
    /\ fill[p].key \in Users
    /\ ver[fill[p].key] = 0
    /\ pc' = [pc EXCEPT ![p] = "idle"]
    /\ fill' = [fill EXCEPT ![p] = NoFill]
    /\ UNCHANGED <<ver, cache, inv, floor>>

(* The query of a profile or of a report, or the earlier of the two        *)
(* commands of a page: Promise.all sends both, and either may be executed  *)
(* first.                                                                  *)
Find(p) ==
    /\ pc[p] = "find"
    /\ fill[p].key \in Users => ver[fill[p].key] > 0
    /\ pc' = [pc EXCEPT ![p] = IF fill[p].key \in ListKeys THEN "count" ELSE "fill"]
    /\ fill' = [fill EXCEPT ![p].data = Query(fill[p].key)]
    /\ UNCHANGED <<ver, cache, inv, floor>>

(* The later of the two commands: the page is as old as before. *)
Count(p) ==
    /\ pc[p] = "count"
    /\ pc' = [pc EXCEPT ![p] = "fill"]
    /\ UNCHANGED <<ver, cache, fill, inv, floor>>

(* A query fails: the request ends with an error, nothing is cached. *)
QueryFails(p) ==
    /\ pc[p] \in {"find", "count"}
    /\ pc' = [pc EXCEPT ![p] = "idle"]
    /\ fill' = [fill EXCEPT ![p] = NoFill]
    /\ UNCHANGED <<ver, cache, inv, floor>>

(* SETEX overwrites whatever another request stored meanwhile. *)
CacheSet(p) ==
    /\ pc[p] = "fill"
    /\ cache' = [cache EXCEPT ![fill[p].key] =
                    [data |-> fill[p].data, raced |-> fill[p].raced]]
    /\ pc' = [pc EXCEPT ![p] = "idle"]
    /\ fill' = [fill EXCEPT ![p] = NoFill]
    /\ UNCHANGED <<ver, inv, floor>>

(* The client is not connected, SETEX failed or the process died. *)
CacheSetLost(p) ==
    /\ pc[p] = "fill"
    /\ pc' = [pc EXCEPT ![p] = "idle"]
    /\ fill' = [fill EXCEPT ![p] = NoFill]
    /\ UNCHANGED <<ver, cache, inv, floor>>

-----------------------------------------------------------------------------
(* Writes of a user document.  Two of them invalidate nothing.             *)

(* AuthService.register inserts the document. *)
Register(u) ==
    /\ ver[u] = 0
    /\ MaxVer > 0
    /\ ver' = [ver EXCEPT ![u] = 1]
    /\ UNCHANGED <<cache, pc, fill, inv, floor>>

(* AuthService.login sets lastLoginAt. *)
Login(u) ==
    /\ ver[u] \in 1 .. MaxVer - 1
    /\ ver' = [ver EXCEPT ![u] = @ + 1]
    /\ UNCHANGED <<cache, pc, fill, inv, floor>>

(* A write of UserService: p stores the document, and goes on with the     *)
(* invalidation of the keys in scope at step pc = next.                    *)
WriteThenInvalidate(p, u, scope, next) ==
    /\ pc[p] = "idle"
    /\ ver[u] \in 1 .. MaxVer - 1
    /\ ver' = [ver EXCEPT ![u] = @ + 1]
    /\ pc' = [pc EXCEPT ![p] = next]
    /\ inv' = [inv EXCEPT ![p] =
                  [NoInv EXCEPT !.user = u, !.ver = ver[u] + 1, !.scope = scope]]
    /\ UNCHANGED <<cache, fill, floor>>

(* updateUser: DEL user:<id> and the scan of user:list:* are started       *)
(* together, and one connection executes them in this order.               *)
UpdateUser(p, u) == WriteThenInvalidate(p, u, ListScope, "del")

(* deactivateUser: softDelete, then the scan of user:*. *)
DeactivateUser(p, u) == WriteThenInvalidate(p, u, UserScope, "open")

-----------------------------------------------------------------------------
(* CacheService.invalidate and CacheService.invalidatePattern.             *)

Invalidate(p) ==
    /\ pc[p] = "del"
    /\ Remove({inv[p].user})
    /\ inv' = Forget({inv[p].user})
    /\ MarkRaced({inv[p].user})
    /\ RaiseFloor({inv[p].user}, inv[p].user, inv[p].ver)
    /\ pc' = [pc EXCEPT ![p] = "open"]
    /\ UNCHANGED ver

(* DEL did not succeed, executed or not; the scan is tried all the same. *)
InvalidateLost(p, executed) ==
    /\ pc[p] = "del"
    /\ Remove(IF executed THEN {inv[p].user} ELSE {})
    /\ inv' = Forget(IF executed THEN {inv[p].user} ELSE {})
    /\ pc' = [pc EXCEPT ![p] = "open"]
    /\ UNCHANGED <<ver, fill, floor>>

(* The loop of invalidatePattern leaves when the cursor is 0. *)
FinishIf(p, last) ==
    IF last
    THEN /\ pc' = [pc EXCEPT ![p] = "idle"]
         /\ RaiseFloor(inv[p].scope, inv[p].user, inv[p].ver)
    ELSE /\ pc' = [pc EXCEPT ![p] = "scan"]
         /\ UNCHANGED floor

(* Mutant of ScanReply: the loop ends after one page, whatever the cursor. *)
ScanOnePage(p, page, last, owed) ==
    /\ page \subseteq Present \cap inv[p].scope
    /\ pc' = [pc EXCEPT ![p] = "drop"]
    /\ inv' = [inv EXCEPT ![p] = [@ EXCEPT !.pending = {}, !.page = page, !.last = TRUE]]
    /\ UNCHANGED <<ver, cache, floor>>

(* SCAN returns keys that match, in any order and number, and a cursor.    *)
(* What Redis guarantees: when the cursor is 0, every key that was present *)
(* from the first call to this one has been returned.  owed is the set of  *)
(* such keys not returned so far.                                          *)
ScanReply(p, page, last, owed) ==
    /\ page \subseteq Present \cap inv[p].scope
    /\ last => owed \subseteq page
    /\ IF page = {}
       THEN /\ FinishIf(p, last)
            /\ inv' = [inv EXCEPT ![p] = IF last THEN NoInv
                                         ELSE [@ EXCEPT !.pending = owed]]
       ELSE /\ pc' = [pc EXCEPT ![p] = "drop"]
            /\ inv' = [inv EXCEPT ![p] = [@ EXCEPT !.pending = owed \ page,
                                                   !.page = page,
                                                   !.last = last]]
            /\ UNCHANGED floor
    /\ UNCHANGED <<ver, cache>>

ScanFirst(p, page, last) ==
    /\ pc[p] = "open"
    /\ ScanReply(p, page, last, Present \cap inv[p].scope)
    /\ MarkRaced(inv[p].scope)

ScanNext(p, page, last) ==
    /\ pc[p] = "scan"
    /\ ScanReply(p, page, last, inv[p].pending)
    /\ UNCHANGED fill

(* DEL of the keys one SCAN returned. *)
DropPage(p) ==
    /\ pc[p] = "drop"
    /\ Remove(inv[p].page)
    /\ FinishIf(p, inv[p].last)
    /\ inv' = [Forget(inv[p].page) EXCEPT ![p] =
                  IF inv[p].last THEN NoInv ELSE [@ EXCEPT !.page = {}]]
    /\ UNCHANGED <<ver, fill>>

(* SCAN or DEL failed, the client is not connected or the process died:    *)
(* invalidatePattern answers 0 and the request succeeds regardless.        *)
ScanLost(p, executed) ==
    /\ pc[p] \in {"open", "scan", "drop"}
    /\ Remove(IF executed THEN inv[p].page ELSE {})
    /\ inv' = [Forget(IF executed THEN inv[p].page ELSE {}) EXCEPT ![p] = NoInv]
    /\ pc' = [pc EXCEPT ![p] = "idle"]
    /\ UNCHANGED <<ver, fill, floor>>

-----------------------------------------------------------------------------
(* Redis drops a key when its time to live is over.  setEx() gives every   *)
(* entry one: 300, 60 or 900 seconds.                                      *)

(* Mutant of Ttl: analytics are stored without a time to live. *)
TtlNotForStats(k) == IF k \in Users THEN 300 ELSE IF k \in ListKeys THEN 60 ELSE 0

Ttl(k) == IF k \in Users THEN 300 ELSE IF k \in ListKeys THEN 60 ELSE 900

Expire(k) ==
    /\ cache[k] # None
    /\ Ttl(k) > 0
    /\ Remove({k})
    /\ inv' = Forget({k})
    /\ UNCHANGED <<ver, pc, fill, floor>>

Read(p) ==
    \/ \E k \in Keys : Request(p, k)
    \/ CacheHit(p)
    \/ CacheMiss(p)
    \/ FindNothing(p)
    \/ Find(p)
    \/ Count(p)
    \/ QueryFails(p)
    \/ CacheSet(p)
    \/ CacheSetLost(p)

Write(p) == \E u \in Users : UpdateUser(p, u) \/ DeactivateUser(p, u)

Invalidation(p) ==
    \/ Invalidate(p)
    \/ \E executed \in BOOLEAN : InvalidateLost(p, executed)
    \/ \E page \in SUBSET inv[p].scope, last \in BOOLEAN :
          ScanFirst(p, page, last) \/ ScanNext(p, page, last)
    \/ DropPage(p)
    \/ \E executed \in BOOLEAN : ScanLost(p, executed)

Next ==
    \/ \E p \in Procs : Read(p) \/ Write(p) \/ Invalidation(p)
    \/ \E u \in Users : Register(u) \/ Login(u)
    \/ \E k \in Keys : Expire(k)

(* The only scheduling the code can rely on: Redis expires what has a TTL. *)
Spec == Init /\ [][Next]_vars /\ \A k \in Keys : WF_vars(Expire(k))

-----------------------------------------------------------------------------
(* Properties. *)

(* Once the invalidation issued by a write has completed, a value older    *)
(* than that write is found in the cache only if the request that stored   *)
(* it had already read the database, be it one of the two commands of a    *)
(* page, when the invalidation reached Redis.                              *)
(* Nothing else lets a stale value survive or come back: not the order in  *)
(* which SCAN pages and DELs interleave with other requests, nor the       *)
(* invalidations, overwrites and expiries of others.                       *)
StaleOnlyByRace ==
    \A k \in Keys : \A u \in Sees(k) :
        cache[k] # None /\ cache[k].data[u] < floor[k][u] => cache[k].raced

(* Every cached value equals what the database would answer: its earlier   *)
(* command saw what there is, and so did the later one.                    *)
Coherent == \A k \in Keys : cache[k] # None => cache[k].data = Query(k)

(* Whatever commands were lost, whatever fills raced and although register *)
(* and login invalidate nothing, the cache converges to the database once  *)
(* writes cease: an entry without a TTL would be wrong for ever.           *)
EventuallyCoherent == <>[]Coherent

-----------------------------------------------------------------------------
(* What p has read, at least in part, and may store. *)
Reading == [p \in Procs |-> IF pc[p] \in HasRead THEN fill[p] ELSE NoFill]

(* The keys p has still to invalidate, and those it is scanning for. *)
ToBegin(p) ==
    CASE pc[p] = "del" -> {inv[p].user} \cup inv[p].scope
      [] pc[p] = "open" -> inv[p].scope
      [] OTHER -> {}

Begun(p) == IF pc[p] \in {"scan", "drop"} THEN inv[p].scope ELSE {}

Duty == [p \in Procs |->
            IF pc[p] \in {"del", "open", "scan", "drop"}
            THEN [user |-> inv[p].user, ver |-> inv[p].ver,
                  todo |-> ToBegin(p), begun |-> Begun(p)]
            ELSE [user |-> None, ver |-> 0, todo |-> {}, begun |-> {}]]

Contract == INSTANCE CachePromise
            WITH held <- cache, reading <- Reading, duty <- Duty, promised <- floor

(* DELs, the pages of a scan and the commands of others in between come to *)
(* an invalidation that is complete when it says so: what is then older in *)
(* the cache was brought by a reader it overtook, half done or done, and   *)
(* whatever is there one reader got from the database.                     *)
ImplementsContract == Contract!Spec
=============================================================================
