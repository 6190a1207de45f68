-------------------------- MODULE UserCacheProofs --------------------------
(***************************************************************************)
(* Proofs about UserCache, for any number of users, keys and requests.     *)
(*                                                                         *)
(* StaleOnlyByRace is not inductive: while a scan is in progress one must  *)
(* know which older entries it has still to delete, and which fills that   *)
(* are under way may still store an older value.  IndInv says so.          *)
(***************************************************************************)
EXTENDS UserCache, TLAPS

USE DEF HasRead

Invalidating == {"del", "open", "scan", "drop"}

(* No write promises more than the database holds. *)
FloorBelow == \A k \in Keys, u \in Users : floor[k][u] <= ver[u]

InvBelow ==
    \A p \in Procs : pc[p] \in Invalidating =>
        inv[p].user \in Users /\ inv[p].ver <= ver[inv[p].user]

(* What is left to delete when the cursor is 0 is the page in hand. *)
PageInHand ==
    \A p \in Procs : /\ pc[p] \in {"del", "open", "scan"} => inv[p].page = {}
                     /\ pc[p] = "drop" /\ inv[p].last => inv[p].pending = {}

FillKeys == \A p \in Procs : pc[p] \in {"get", "find", "count", "fill"} => fill[p].key \in Keys

(* A fill is as new as every invalidation of its key, or has raced. *)
StaleFillRaced ==
    \A p \in Procs : pc[p] \in HasRead =>
        \A u \in Sees(fill[p].key) :
            fill[p].raced \/ fill[p].data[u] >= floor[fill[p].key][u]

(* The same for a scan that has begun and the keys it covers. *)
ScanSeesFills ==
    \A p, q \in Procs :
        /\ pc[p] \in {"scan", "drop"}
        /\ pc[q] \in HasRead
        /\ fill[q].key \in inv[p].scope
        /\ inv[p].user \in Sees(fill[q].key)
        => fill[q].raced \/ fill[q].data[inv[p].user] >= inv[p].ver

(* An older entry among the keys of a scan has still to be deleted. *)
ScanOwes ==
    \A p \in Procs : \A k \in inv[p].scope :
        /\ pc[p] \in {"scan", "drop"}
        /\ inv[p].user \in Sees(k)
        /\ cache[k] # None
        => \/ cache[k].raced
           \/ cache[k].data[inv[p].user] >= inv[p].ver
           \/ k \in inv[p].pending \cup inv[p].page

IndInv ==
    /\ TypeOK
    /\ FloorBelow
    /\ InvBelow
    /\ PageInHand
    /\ FillKeys
    /\ StaleFillRaced
    /\ ScanSeesFills
    /\ ScanOwes
    /\ StaleOnlyByRace

-----------------------------------------------------------------------------
(* Facts about the helpers. *)

LEMMA SeesUsers == \A k \in Keys : Sees(k) \subseteq Users
BY DEF Sees, Keys

LEMMA QueryType ==
    ASSUME TypeOK, NEW k
    PROVE  Query(k) \in [Users -> Versions]
<1>1. 0 \in Versions
  BY MaxVerNat DEF Versions
<1>2. ver \in [Users -> Versions]
  BY DEF TypeOK
<1> QED BY <1>1, <1>2 DEF Query

(* The constant records are of their types. *)
LEMMA NoFillType == NoFill \in Fills /\ \A k \in Keys : [NoFill EXCEPT !.key = k] \in Fills
<1>1. Nothing \in [Users -> Versions]
  BY MaxVerNat DEF Nothing, Versions
<1>2. NoFill \in Fills
  BY <1>1 DEF NoFill, Fills
<1> QED BY <1>2 DEF Fills

LEMMA NoInvType == NoInv \in Invs
BY MaxVerNat DEF NoInv, Invs, Versions

LEMMA ForgetType ==
    ASSUME TypeOK, NEW S \in SUBSET Keys
    PROVE  Forget(S) \in [Procs -> Invs]
<1>1. inv \in [Procs -> Invs]
  BY DEF TypeOK
<1>2. \A p \in Procs : [inv[p] EXCEPT !.pending = @ \ S] \in Invs
  BY <1>1 DEF Invs
<1> QED BY <1>2 DEF Forget

LEMMA RemoveType ==
    ASSUME TypeOK, NEW S, Remove(S)
    PROVE  cache' \in [Keys -> Entries \cup {None}]
BY DEF Remove, TypeOK

LEMMA MarkRacedType ==
    ASSUME TypeOK, NEW S, MarkRaced(S)
    PROVE  fill' \in [Procs -> Fills]
<1>1. fill \in [Procs -> Fills]
  BY DEF TypeOK
<1>2. \A p \in Procs : [fill[p] EXCEPT !.raced = TRUE] \in Fills
  BY <1>1 DEF Fills
<1> QED BY <1>1, <1>2 DEF MarkRaced

LEMMA RaiseFloorType ==
    ASSUME TypeOK, NEW S, NEW u \in Users \cup {None}, NEW v \in Versions,
           RaiseFloor(S, u, v)
    PROVE  floor' \in [Keys -> [Users -> Versions]]
<1>1. floor \in [Keys -> [Users -> Versions]]
  BY DEF TypeOK
<1>2. \A k \in Keys : [floor[k] EXCEPT ![u] = v] \in [Users -> Versions]
  BY <1>1
<1> QED BY <1>1, <1>2 DEF RaiseFloor

LEMMA FinishIfType ==
    ASSUME TypeOK, NEW p \in Procs, NEW last, FinishIf(p, last)
    PROVE  /\ pc' \in [Procs -> {"idle", "get", "find", "count", "fill",
                                 "del", "open", "scan", "drop"}]
           /\ floor' \in [Keys -> [Users -> Versions]]
<1>1. inv[p].user \in Users \cup {None} /\ inv[p].ver \in Versions
  BY DEF TypeOK, Invs
<1>2. CASE last
  BY <1>1, <1>2, RaiseFloorType DEF FinishIf, TypeOK
<1>3. CASE ~last
  BY <1>3 DEF FinishIf, TypeOK
<1> QED BY <1>2, <1>3

-----------------------------------------------------------------------------
(* Type correctness. *)

LEMMA TypeInit == Init => TypeOK
BY MaxVerNat, NoFillType, NoInvType DEF Init, TypeOK, Nothing, Versions

LEMMA ReadType ==
    ASSUME TypeOK, NEW p \in Procs, Read(p)
    PROVE  TypeOK'
<1> USE DEF TypeOK
<1>1. ASSUME NEW k \in Keys, Request(p, k) PROVE TypeOK'
  BY <1>1, NoFillType DEF Request
<1>2. CASE CacheHit(p)
  BY <1>2, NoFillType DEF CacheHit
<1>3. CASE CacheMiss(p)
  BY <1>3 DEF CacheMiss
<1>4. CASE FindNothing(p)
  BY <1>4, NoFillType DEF FindNothing
<1>5. CASE Find(p)
  <2>1. Query(fill[p].key) \in [Users -> Versions]
    BY QueryType
  <2>2. [fill[p] EXCEPT !.data = Query(fill[p].key)] \in Fills
    BY <2>1 DEF Fills
  <2> QED BY <1>5, <2>2 DEF Find
<1>6. CASE Count(p)
  BY <1>6 DEF Count
<1>7. CASE QueryFails(p)
  BY <1>7, NoFillType DEF QueryFails
<1>8. CASE CacheSet(p)
  <2>1. [data |-> fill[p].data, raced |-> fill[p].raced] \in Entries
    BY DEF Fills, Entries
  <2> QED BY <1>8, <2>1, NoFillType DEF CacheSet
<1>9. CASE CacheSetLost(p)
  BY <1>9, NoFillType DEF CacheSetLost
<1> QED BY <1>1, <1>2, <1>3, <1>4, <1>5, <1>6, <1>7, <1>8, <1>9 DEF Read

LEMMA WriteType ==
    ASSUME TypeOK, NEW p \in Procs, Write(p)
    PROVE  TypeOK'
<1>1. PICK u \in Users, S \in SUBSET Keys, next \in {"del", "open"} :
          WriteThenInvalidate(p, u, S, next)
  BY DEF Write, UpdateUser, DeactivateUser, ListScope, UserScope, Keys
<1>2. ver[u] + 1 \in Versions
  BY <1>1, MaxVerNat DEF WriteThenInvalidate, Versions
<1>3. [NoInv EXCEPT !.user = u, !.ver = ver[u] + 1, !.scope = S] \in Invs
  BY <1>2, NoInvType DEF Invs
<1> QED BY <1>1, <1>2, <1>3 DEF WriteThenInvalidate, TypeOK

LEMMA ScanReplyType ==
    ASSUME TypeOK, NEW p \in Procs, NEW page, NEW last \in BOOLEAN,
           NEW owed \in SUBSET Keys, ScanReply(p, page, last, owed)
    PROVE  /\ pc' \in [Procs -> {"idle", "get", "find", "count", "fill",
                                 "del", "open", "scan", "drop"}]
           /\ inv' \in [Procs -> Invs]
           /\ floor' \in [Keys -> [Users -> Versions]]
<1>1. inv \in [Procs -> Invs] /\ inv[p] \in Invs
  BY DEF TypeOK
<1>2. page \in SUBSET Keys
  BY DEF ScanReply, Present
<1>3. CASE page = {}
  <2>1. [inv[p] EXCEPT !.pending = owed] \in Invs
    BY <1>1 DEF Invs
  <2> QED BY <1>1, <1>3, <2>1, FinishIfType, NoInvType DEF ScanReply
<1>4. CASE page # {}
  <2>1. [inv[p] EXCEPT !.pending = owed \ page, !.page = page, !.last = last] \in Invs
    BY <1>1, <1>2 DEF Invs
  <2> QED BY <1>1, <1>4, <2>1 DEF ScanReply, TypeOK
<1> QED BY <1>3, <1>4

LEMMA InvalidationType ==
    ASSUME TypeOK, NEW p \in Procs, Invalidation(p)
    PROVE  TypeOK'
<1>0. /\ inv[p] \in Invs
      /\ inv[p].page \in SUBSET Keys
      /\ inv[p].pending \in SUBSET Keys
      /\ inv[p].user \in Users \cup {None}
      /\ inv[p].ver \in Versions
  BY DEF TypeOK, Invs
<1>1. CASE Invalidate(p)
  <2>1. Forget({inv[p].user}) \in [Procs -> Invs]
    <3>1. \A q \in Procs : [inv[q] EXCEPT !.pending = @ \ {inv[p].user}] \in Invs
      BY DEF TypeOK, Invs
    <3> QED BY <3>1 DEF Forget
  <2> QED BY <1>0, <1>1, <2>1, RemoveType, MarkRacedType, RaiseFloorType
          DEF Invalidate, TypeOK
<1>2. ASSUME NEW executed \in BOOLEAN, InvalidateLost(p, executed) PROVE TypeOK'
  <2>1. \A S : Forget(S) \in [Procs -> Invs]
    <3>1. \A S : \A q \in Procs : [inv[q] EXCEPT !.pending = @ \ S] \in Invs
      BY DEF TypeOK, Invs
    <3> QED BY <3>1 DEF Forget
  <2> QED BY <1>2, <2>1, RemoveType DEF InvalidateLost, TypeOK
<1>3. ASSUME NEW page \in SUBSET inv[p].scope, NEW last \in BOOLEAN, ScanFirst(p, page, last)
      PROVE  TypeOK'
  <2>1. Present \cap inv[p].scope \in SUBSET Keys
    BY DEF Present
  <2>2. MarkRaced(inv[p].scope) /\ ScanReply(p, page, last, Present \cap inv[p].scope)
    BY <1>3 DEF ScanFirst
  <2>3. UNCHANGED <<ver, cache>>
    BY <2>2 DEF ScanReply
  <2> QED BY <2>1, <2>2, <2>3, ScanReplyType, MarkRacedType DEF TypeOK
<1>4. ASSUME NEW page \in SUBSET inv[p].scope, NEW last \in BOOLEAN, ScanNext(p, page, last)
      PROVE  TypeOK'
  <2>1. ScanReply(p, page, last, inv[p].pending) /\ UNCHANGED fill
    BY <1>4 DEF ScanNext
  <2>2. UNCHANGED <<ver, cache>>
    BY <2>1 DEF ScanReply
  <2> QED BY <1>0, <2>1, <2>2, ScanReplyType DEF TypeOK
<1>5. CASE DropPage(p)
  <2>1. Forget(inv[p].page) \in [Procs -> Invs]
    BY <1>0, ForgetType
  <2>2. [Forget(inv[p].page)[p] EXCEPT !.page = {}] \in Invs
    BY <2>1 DEF Invs
  <2>3. inv' \in [Procs -> Invs]
    BY <1>5, <2>1, <2>2, NoInvType DEF DropPage
  <2>4. Remove(inv[p].page) /\ FinishIf(p, inv[p].last) /\ UNCHANGED <<ver, fill>>
    BY <1>5 DEF DropPage
  <2> QED BY <2>3, <2>4, RemoveType, FinishIfType DEF TypeOK
<1>6. ASSUME NEW executed \in BOOLEAN, ScanLost(p, executed) PROVE TypeOK'
  <2> DEFINE S == IF executed THEN inv[p].page ELSE {}
  <2>1. Forget(S) \in [Procs -> Invs]
    BY <1>0, ForgetType
  <2>2. inv' = [Forget(S) EXCEPT ![p] = NoInv]
    BY <1>6 DEF ScanLost
  <2>3. cache' \in [Keys -> Entries \cup {None}]
    BY <1>6, RemoveType DEF ScanLost
  <2> QED BY <1>6, <2>1, <2>2, <2>3, NoInvType DEF ScanLost, TypeOK
<1> QED BY <1>1, <1>2, <1>3, <1>4, <1>5, <1>6 DEF Invalidation

LEMMA TypeStep == TypeOK /\ [Next]_vars => TypeOK'
<1> SUFFICES ASSUME TypeOK, [Next]_vars PROVE TypeOK'
  OBVIOUS
<1>1. ASSUME NEW u \in Users, Register(u) PROVE TypeOK'
  BY <1>1, MaxVerNat DEF Register, TypeOK, Versions
<1>2. ASSUME NEW u \in Users, Login(u) PROVE TypeOK'
  BY <1>2, MaxVerNat DEF Login, TypeOK, Versions
<1>3. ASSUME NEW k \in Keys, Expire(k) PROVE TypeOK'
  <2>1. Forget({k}) \in [Procs -> Invs]
    BY ForgetType
  <2>2. cache' \in [Keys -> Entries \cup {None}]
    BY <1>3, RemoveType DEF Expire
  <2> QED BY <1>3, <2>1, <2>2 DEF Expire, TypeOK
<1>4. CASE UNCHANGED vars
  BY <1>4 DEF vars, TypeOK
<1> QED BY <1>1, <1>2, <1>3, <1>4, ReadType, WriteType, InvalidationType DEF Next

(* The variables keep their types, for any constants: versions stay within *)
(* the bound and every request holds a well-formed fill and invalidation.  *)
THEOREM TypeCorrect == Spec => []TypeOK
<1>1. Init => TypeOK
  BY TypeInit
<1>2. TypeOK /\ [Next]_vars => TypeOK'
  BY TypeStep
<1> QED BY <1>1, <1>2, PTL DEF Spec

-----------------------------------------------------------------------------
(* The inductive invariant. *)

LEMMA IndInit == Init => IndInv
<1> SUFFICES ASSUME Init PROVE IndInv
  OBVIOUS
<1>1. TypeOK
  BY TypeInit
<1>2. \A p \in Procs : pc[p] = "idle"
  BY DEF Init
<1>3. \A k \in Keys : cache[k] = None
  BY DEF Init
<1>4. FloorBelow
  BY DEF Init, FloorBelow, Nothing
<1>5. InvBelow /\ PageInHand /\ FillKeys /\ StaleFillRaced /\ ScanSeesFills /\ ScanOwes
  BY <1>2 DEF InvBelow, Invalidating, PageInHand, FillKeys, StaleFillRaced,
              ScanSeesFills, ScanOwes
<1>6. StaleOnlyByRace
  BY <1>3 DEF StaleOnlyByRace
<1> QED BY <1>1, <1>4, <1>5, <1>6 DEF IndInv

(* A step of a reader that neither queries the database nor stores. *)
LEMMA QuietStep ==
    ASSUME IndInv, TypeOK', NEW p \in Procs,
           NEW s \in {"idle", "get", "find"},
           pc[p] \in {"idle", "get", "find", "count", "fill"},
           pc' = [pc EXCEPT ![p] = s],
           \A q \in Procs : q # p => fill'[q] = fill[q],
           s # "idle" => fill'[p].key \in Keys,
           UNCHANGED <<ver, cache, inv, floor>>
    PROVE  IndInv'
<1>1. \A q \in Procs : q # p => pc'[q] = pc[q]
  BY DEF IndInv, TypeOK
<1>2. pc'[p] = s
  BY DEF IndInv, TypeOK
<1>3. FloorBelow' /\ StaleOnlyByRace'
  BY DEF IndInv, FloorBelow, StaleOnlyByRace, Sees
<1>4. InvBelow' /\ PageInHand'
  BY <1>1, <1>2 DEF IndInv, InvBelow, PageInHand, Invalidating
<1>5. FillKeys'
  BY <1>1, <1>2 DEF IndInv, FillKeys
<1>6. StaleFillRaced'
  BY <1>1, <1>2 DEF IndInv, StaleFillRaced, Sees
<1>7. ScanSeesFills'
  BY <1>1, <1>2 DEF IndInv, ScanSeesFills, Sees
<1>8. ScanOwes'
  BY <1>1, <1>2 DEF IndInv, ScanOwes, Sees
<1> QED BY <1>3, <1>4, <1>5, <1>6, <1>7, <1>8 DEF IndInv

LEMMA ReadInd ==
    ASSUME IndInv, TypeOK', NEW p \in Procs, Read(p)
    PROVE  IndInv'
<1> USE DEF IndInv
<1>1. ASSUME NEW k \in Keys, Request(p, k) PROVE IndInv'
  <2>1. fill'[p].key = k
    BY <1>1 DEF Request, TypeOK, NoFill
  <2>2. \A q \in Procs : q # p => fill'[q] = fill[q]
    BY <1>1 DEF Request, TypeOK
  <2>3. /\ pc[p] = "idle"
        /\ pc' = [pc EXCEPT ![p] = "get"]
        /\ UNCHANGED <<ver, cache, inv, floor>>
    BY <1>1 DEF Request
  <2> QED BY <2>1, <2>2, <2>3, QuietStep
<1>2. CASE CacheHit(p)
  BY <1>2, QuietStep DEF CacheHit, TypeOK
<1>3. CASE CacheMiss(p)
  <2>1. fill'[p].key \in Keys
    BY <1>3 DEF CacheMiss, FillKeys
  <2> QED BY <1>3, <2>1, QuietStep DEF CacheMiss, TypeOK
<1>4. CASE FindNothing(p)
  BY <1>4, QuietStep DEF FindNothing, TypeOK
<1>5. CASE Find(p)
  <2> DEFINE k == fill[p].key
  <2>1. /\ k \in Keys
        /\ pc[p] = "find"
        /\ \A q \in Procs : q # p => pc'[q] = pc[q] /\ fill'[q] = fill[q]
        /\ pc'[p] \in HasRead
        /\ UNCHANGED <<ver, cache, inv, floor>>
    BY <1>5 DEF Find, FillKeys, TypeOK
  <2>2. fill'[p].key = k /\ fill'[p].data = Query(k)
    BY <1>5 DEF Find, TypeOK, Fills
  <2>3. \A u \in Sees(k) : u \in Users /\ fill'[p].data[u] = ver[u]
    BY <2>1, <2>2, SeesUsers DEF Query
  <2>4. FloorBelow' /\ StaleOnlyByRace'
    BY <2>1 DEF FloorBelow, StaleOnlyByRace, Sees
  <2>5. InvBelow' /\ PageInHand'
    BY <2>1 DEF InvBelow, PageInHand, Invalidating
  <2>6. FillKeys'
    BY <2>1, <2>2 DEF FillKeys
  <2>7. StaleFillRaced'
    <3>1. \A u \in Sees(k) : fill'[p].data[u] >= floor[k][u]
      BY <2>1, <2>3 DEF FloorBelow, TypeOK, Versions
    <3> QED BY <2>1, <2>2, <3>1 DEF StaleFillRaced, Sees
  <2>8. ScanSeesFills'
    <3>1. \A q \in Procs : pc[q] \in {"scan", "drop"} /\ inv[q].user \in Sees(k)
                => fill'[p].data[inv[q].user] >= inv[q].ver
      BY <2>1, <2>3 DEF InvBelow, Invalidating, TypeOK, Versions, Invs
    <3> QED BY <2>1, <2>2, <3>1 DEF ScanSeesFills, Sees
  <2>9. ScanOwes'
    BY <2>1 DEF ScanOwes, Sees
  <2> QED BY <2>4, <2>5, <2>6, <2>7, <2>8, <2>9
<1>6. CASE Count(p)
  <2>1. /\ pc[p] = "count" /\ pc'[p] = "fill"
        /\ \A q \in Procs : q # p => pc'[q] = pc[q]
        /\ UNCHANGED <<ver, cache, fill, inv, floor>>
    BY <1>6 DEF Count, TypeOK
  <2>2. FloorBelow' /\ InvBelow' /\ PageInHand'
    BY <2>1 DEF FloorBelow, InvBelow, PageInHand, Invalidating
  <2>3. FillKeys'
    BY <2>1 DEF FillKeys
  <2>4. StaleFillRaced' /\ ScanSeesFills'
    BY <2>1 DEF StaleFillRaced, ScanSeesFills, Sees
  <2>5. ScanOwes' /\ StaleOnlyByRace'
    BY <2>1 DEF ScanOwes, StaleOnlyByRace, Sees
  <2> QED BY <2>2, <2>3, <2>4, <2>5
<1>7. CASE QueryFails(p)
  BY <1>7, QuietStep DEF QueryFails, TypeOK
<1>8. CASE CacheSet(p)
  <2> DEFINE k == fill[p].key
  <2>1. /\ k \in Keys
        /\ pc[p] \in HasRead
        /\ \A q \in Procs : q # p => pc'[q] = pc[q] /\ fill'[q] = fill[q]
        /\ pc'[p] = "idle"
        /\ UNCHANGED <<ver, inv, floor>>
        /\ \A j \in Keys : j # k => cache'[j] = cache[j]
        /\ cache'[k].data = fill[p].data
        /\ cache'[k].raced = fill[p].raced
    BY <1>8 DEF CacheSet, FillKeys, TypeOK
  <2>2. FloorBelow'
    BY <2>1 DEF FloorBelow
  <2>3. InvBelow' /\ PageInHand' /\ FillKeys'
    BY <2>1 DEF InvBelow, PageInHand, Invalidating, FillKeys
  <2>4. StaleFillRaced' /\ ScanSeesFills'
    BY <2>1 DEF StaleFillRaced, ScanSeesFills, Sees
  <2>5. ScanOwes'
    <3> SUFFICES ASSUME NEW q \in Procs, NEW j \in inv[q].scope,
                        pc'[q] \in {"scan", "drop"},
                        inv[q].user \in Sees(j),
                        cache'[j] # None
                 PROVE  \/ cache'[j].raced
                        \/ cache'[j].data[inv[q].user] >= inv[q].ver
                        \/ j \in inv[q].pending \cup inv[q].page
      BY <2>1 DEF ScanOwes, Sees
    <3>1. pc[q] \in {"scan", "drop"} /\ j \in Keys
      BY <2>1 DEF TypeOK, Invs
    <3>2. CASE j = k
      BY <2>1, <3>1, <3>2 DEF ScanSeesFills
    <3>3. CASE j # k
      BY <2>1, <3>1, <3>3 DEF ScanOwes
    <3> QED BY <3>2, <3>3
  <2>6. StaleOnlyByRace'
    <3>1. \A u \in Sees(k) : fill[p].data[u] \in Nat /\ floor[k][u] \in Nat
      BY <2>1, SeesUsers DEF TypeOK, Fills, Versions
    <3> QED BY <2>1, <3>1 DEF StaleOnlyByRace, StaleFillRaced, Sees
  <2> QED BY <2>2, <2>3, <2>4, <2>5, <2>6
<1>9. CASE CacheSetLost(p)
  BY <1>9, QuietStep DEF CacheSetLost, TypeOK
<1> QED BY <1>1, <1>2, <1>3, <1>4, <1>5, <1>6, <1>7, <1>8, <1>9 DEF Read

(* A step that only writes documents. *)
LEMMA GrowStep ==
    ASSUME IndInv, TypeOK',
           \A u \in Users : ver'[u] >= ver[u],
           UNCHANGED <<cache, pc, fill, inv, floor>>
    PROVE  IndInv'
<1>1. FloorBelow'
  BY DEF IndInv, FloorBelow, TypeOK, Versions
<1>2. InvBelow'
  <2> SUFFICES ASSUME NEW p \in Procs, pc[p] \in Invalidating
               PROVE  inv[p].user \in Users /\ inv[p].ver <= ver'[inv[p].user]
    BY DEF InvBelow
  <2>1. inv[p].user \in Users /\ inv[p].ver <= ver[inv[p].user]
    BY DEF IndInv, InvBelow
  <2>2. inv[p].ver \in Nat /\ ver[inv[p].user] \in Nat /\ ver'[inv[p].user] \in Nat
    BY <2>1 DEF IndInv, TypeOK, Invs, Versions
  <2> QED BY <2>1, <2>2
<1>3. PageInHand' /\ FillKeys' /\ StaleFillRaced' /\ ScanSeesFills' /\ ScanOwes'
  BY DEF IndInv, PageInHand, FillKeys, StaleFillRaced, ScanSeesFills, ScanOwes, Sees
<1>4. StaleOnlyByRace'
  BY DEF IndInv, StaleOnlyByRace, Sees
<1> QED BY <1>1, <1>2, <1>3, <1>4 DEF IndInv

LEMMA WriteInd ==
    ASSUME IndInv, TypeOK', NEW p \in Procs, Write(p)
    PROVE  IndInv'
<1>1. PICK u \in Users, S \in SUBSET Keys, next \in {"del", "open"} :
          WriteThenInvalidate(p, u, S, next)
  BY DEF Write, UpdateUser, DeactivateUser, ListScope, UserScope, Keys
<1>2. /\ ver[u] \in Nat
      /\ ver'[u] = ver[u] + 1
      /\ \A w \in Users : w # u => ver'[w] = ver[w]
      /\ pc[p] = "idle"
      /\ pc'[p] = next
      /\ inv'[p].user = u
      /\ inv'[p].ver = ver[u] + 1
      /\ inv'[p].page = {}
      /\ \A q \in Procs : q # p => pc'[q] = pc[q] /\ inv'[q] = inv[q]
      /\ UNCHANGED <<cache, fill, floor>>
  BY <1>1 DEF WriteThenInvalidate, NoInv, IndInv, TypeOK, Versions
<1>3. FloorBelow'
  BY <1>2 DEF IndInv, FloorBelow, TypeOK, Versions
<1>4. InvBelow'
  <2> SUFFICES ASSUME NEW q \in Procs, pc'[q] \in Invalidating
               PROVE  inv'[q].user \in Users /\ inv'[q].ver <= ver'[inv'[q].user]
    BY DEF InvBelow
  <2>1. CASE q = p
    BY <1>2, <2>1
  <2>2. CASE q # p
    <3>1. inv[q].user \in Users /\ inv[q].ver <= ver[inv[q].user]
      BY <1>2, <2>2 DEF IndInv, InvBelow
    <3>2. inv[q].ver \in Nat /\ ver[inv[q].user] \in Nat
      BY <3>1 DEF IndInv, TypeOK, Invs, Versions
    <3> QED BY <1>2, <2>2, <3>1, <3>2
  <2> QED BY <2>1, <2>2
<1>5. PageInHand' /\ FillKeys'
  BY <1>2 DEF IndInv, PageInHand, FillKeys
<1>6. StaleFillRaced'
  BY <1>2 DEF IndInv, StaleFillRaced, Sees
<1>7. ScanSeesFills'
  BY <1>2 DEF IndInv, ScanSeesFills, Sees
<1>8. ScanOwes'
  BY <1>2 DEF IndInv, ScanOwes, Sees
<1>9. StaleOnlyByRace'
  BY <1>2 DEF IndInv, StaleOnlyByRace, Sees
<1> QED BY <1>3, <1>4, <1>5, <1>6, <1>7, <1>8, <1>9 DEF IndInv

(* What the parts of an invalidation leave alone. *)
LEMMA RemoveEffect ==
    ASSUME NEW S, Remove(S)
    PROVE  \A k \in Keys : cache'[k] = IF k \in S THEN None ELSE cache[k]
BY DEF Remove

LEMMA ForgetEffect ==
    ASSUME TypeOK, NEW S, NEW p \in Procs
    PROVE  /\ Forget(S)[p].user = inv[p].user
           /\ Forget(S)[p].ver = inv[p].ver
           /\ Forget(S)[p].scope = inv[p].scope
           /\ Forget(S)[p].page = inv[p].page
           /\ Forget(S)[p].last = inv[p].last
           /\ Forget(S)[p].pending = inv[p].pending \ S
BY DEF Forget, TypeOK, Invs

LEMMA MarkRacedEffect ==
    ASSUME TypeOK, NEW S, MarkRaced(S), NEW p \in Procs
    PROVE  /\ fill'[p].key = fill[p].key
           /\ fill'[p].data = fill[p].data
           /\ fill[p].raced => fill'[p].raced
           /\ pc[p] \in HasRead /\ fill[p].key \in S => fill'[p].raced
<1>1. CASE pc[p] \in HasRead /\ fill[p].key \in S
  <2>1. fill'[p] = [fill[p] EXCEPT !.raced = TRUE]
    BY <1>1 DEF MarkRaced
  <2> QED BY <2>1 DEF TypeOK, Fills
<1>2. CASE ~(pc[p] \in HasRead /\ fill[p].key \in S)
  BY <1>2 DEF MarkRaced
<1> QED BY <1>1, <1>2

(* A step of the invalidation of p preserves IndInv when it only removes   *)
(* entries and marks fills, establishes for p what a scan in progress      *)
(* needs, and raises the floor of a key only where nothing older is left.  *)
LEMMA InvalidationStep ==
    ASSUME IndInv, TypeOK', NEW p \in Procs,
           pc[p] \in Invalidating,
           pc'[p] \in Invalidating \cup {"idle"},
           UNCHANGED ver,
           \A k \in Keys : cache'[k] = None \/ cache'[k] = cache[k],
           \A q \in Procs : q # p => pc'[q] = pc[q],
           \A q \in Procs : q # p \/ pc'[p] \in Invalidating =>
               /\ inv'[q].user = inv[q].user
               /\ inv'[q].ver = inv[q].ver
               /\ inv'[q].scope = inv[q].scope,
           \A q \in Procs : q # p =>
               /\ inv'[q].page = inv[q].page
               /\ inv'[q].last = inv[q].last
               /\ inv'[q].pending \subseteq inv[q].pending
               /\ \A k \in inv[q].pending :
                     k \in inv'[q].pending \/ cache'[k] = None,
           \A q \in Procs : /\ fill'[q].key = fill[q].key
                            /\ fill'[q].data = fill[q].data
                            /\ fill[q].raced => fill'[q].raced,
           pc'[p] \in {"del", "open", "scan"} => inv'[p].page = {},
           pc'[p] = "drop" /\ inv'[p].last => inv'[p].pending = {},
           pc'[p] \in {"scan", "drop"} => \A q \in Procs :
               /\ pc'[q] \in HasRead
               /\ fill[q].key \in inv[p].scope
               /\ inv[p].user \in Sees(fill[q].key)
               => fill'[q].raced \/ fill[q].data[inv[p].user] >= inv[p].ver,
           pc'[p] \in {"scan", "drop"} => \A k \in inv[p].scope :
               /\ inv[p].user \in Sees(k)
               /\ cache'[k] # None
               => \/ cache'[k].raced
                  \/ cache'[k].data[inv[p].user] >= inv[p].ver
                  \/ k \in inv'[p].pending \cup inv'[p].page,
           \A k \in Keys, w \in Users :
               \/ floor'[k][w] = floor[k][w]
               \/ /\ w = inv[p].user
                  /\ floor'[k][w] = inv[p].ver
                  /\ \/ cache'[k] = None
                     \/ cache'[k].raced
                     \/ cache'[k].data[w] >= inv[p].ver
                  /\ \A q \in Procs :
                        pc'[q] \in HasRead /\ fill[q].key = k
                        => fill'[q].raced \/ fill[q].data[w] >= inv[p].ver
    PROVE  IndInv'
<1>1. FloorBelow'
  <2> SUFFICES ASSUME NEW k \in Keys, NEW w \in Users
               PROVE  floor'[k][w] <= ver[w]
    BY DEF FloorBelow
  <2>1. floor[k][w] <= ver[w]
    BY DEF IndInv, FloorBelow
  <2>2. inv[p].ver <= ver[inv[p].user]
    BY DEF IndInv, InvBelow
  <2> QED BY <2>1, <2>2
<1>2. InvBelow'
  BY DEF IndInv, InvBelow, Invalidating
<1>3. PageInHand'
  <2> SUFFICES ASSUME NEW q \in Procs
               PROVE  /\ pc'[q] \in {"del", "open", "scan"} => inv'[q].page = {}
                      /\ pc'[q] = "drop" /\ inv'[q].last => inv'[q].pending = {}
    BY DEF PageInHand
  <2>1. CASE q = p
    BY <2>1
  <2>2. CASE q # p
    BY <2>2 DEF IndInv, PageInHand
  <2> QED BY <2>1, <2>2
<1>4. FillKeys'
  <2> SUFFICES ASSUME NEW q \in Procs, pc'[q] \in {"get", "find", "count", "fill"}
               PROVE  fill'[q].key \in Keys
    BY DEF FillKeys
  <2>1. q # p
    BY DEF Invalidating
  <2> QED BY <2>1 DEF IndInv, FillKeys
<1>5. StaleFillRaced'
  <2> SUFFICES ASSUME NEW q \in Procs, pc'[q] \in HasRead, NEW u \in Sees(fill[q].key)
               PROVE  fill'[q].raced \/ fill[q].data[u] >= floor'[fill[q].key][u]
    BY DEF StaleFillRaced, Sees
  <2>1. q # p /\ pc[q] \in HasRead
    BY DEF Invalidating
  <2>2. fill[q].key \in Keys /\ u \in Users
    BY <2>1, SeesUsers DEF IndInv, FillKeys
  <2>3. fill[q].raced \/ fill[q].data[u] >= floor[fill[q].key][u]
    BY <2>1 DEF IndInv, StaleFillRaced
  <2> QED BY <2>2, <2>3
<1>6. ScanSeesFills'
  <2> SUFFICES ASSUME NEW q \in Procs, NEW r \in Procs,
                      pc'[q] \in {"scan", "drop"},
                      pc'[r] \in HasRead,
                      fill'[r].key \in inv'[q].scope,
                      inv'[q].user \in Sees(fill'[r].key)
               PROVE  fill'[r].raced \/ fill'[r].data[inv'[q].user] >= inv'[q].ver
    BY DEF ScanSeesFills, Sees
  <2>0. /\ inv'[q].user = inv[q].user
        /\ inv'[q].ver = inv[q].ver
        /\ inv'[q].scope = inv[q].scope
        /\ fill'[r].key = fill[r].key
        /\ fill'[r].data = fill[r].data
    BY DEF Invalidating
  <2>1. CASE q = p
    BY <2>0, <2>1
  <2>2. CASE q # p
    <3>1. pc[q] \in {"scan", "drop"} /\ pc[r] \in HasRead
      BY <2>2 DEF Invalidating
    <3> QED BY <2>0, <2>2, <3>1 DEF IndInv, ScanSeesFills
  <2> QED BY <2>1, <2>2
<1>7. ScanOwes'
  <2> SUFFICES ASSUME NEW q \in Procs, NEW k \in inv'[q].scope,
                      pc'[q] \in {"scan", "drop"},
                      inv'[q].user \in Sees(k),
                      cache'[k] # None
               PROVE  \/ cache'[k].raced
                      \/ cache'[k].data[inv'[q].user] >= inv'[q].ver
                      \/ k \in inv'[q].pending \cup inv'[q].page
    BY DEF ScanOwes, Sees
  <2>0. /\ inv'[q].user = inv[q].user
        /\ inv'[q].ver = inv[q].ver
        /\ inv'[q].scope = inv[q].scope
    BY DEF Invalidating
  <2>1. k \in Keys
    BY <2>0 DEF IndInv, TypeOK, Invs
  <2>2. CASE q = p
    BY <2>0, <2>2
  <2>3. CASE q # p
    <3>1. pc[q] \in {"scan", "drop"} /\ cache'[k] = cache[k]
      BY <2>1, <2>3
    <3>2. \/ cache[k].raced
          \/ cache[k].data[inv[q].user] >= inv[q].ver
          \/ k \in inv[q].pending \cup inv[q].page
      BY <2>0, <3>1 DEF IndInv, ScanOwes
    <3> QED BY <2>0, <2>3, <3>1, <3>2
  <2> QED BY <2>2, <2>3
<1>8. StaleOnlyByRace'
  <2> SUFFICES ASSUME NEW k \in Keys, NEW u \in Sees(k),
                      cache'[k] # None, cache'[k].data[u] < floor'[k][u]
               PROVE  cache'[k].raced
    BY DEF StaleOnlyByRace, Sees
  <2>1. u \in Users /\ cache'[k] = cache[k]
    BY SeesUsers
  <2>2. cache[k].data[u] \in Nat /\ floor'[k][u] \in Nat
    BY <2>1 DEF IndInv, TypeOK, Entries, Versions
  <2>3. CASE floor'[k][u] = floor[k][u]
    BY <2>1, <2>3 DEF IndInv, StaleOnlyByRace
  <2>4. CASE floor'[k][u] # floor[k][u]
    BY <2>1, <2>2, <2>4
  <2> QED BY <2>3, <2>4
<1> QED BY <1>1, <1>2, <1>3, <1>4, <1>5, <1>6, <1>7, <1>8 DEF IndInv

LEMMA InvalidateInd ==
    ASSUME IndInv, TypeOK', NEW p \in Procs, Invalidate(p)
    PROVE  IndInv'
<1> DEFINE u == inv[p].user
<1>1. TypeOK
  BY DEF IndInv
<1>2. /\ pc[p] = "del"
      /\ Remove({u})
      /\ inv' = Forget({u})
      /\ MarkRaced({u})
      /\ RaiseFloor({u}, u, inv[p].ver)
      /\ pc' = [pc EXCEPT ![p] = "open"]
      /\ UNCHANGED ver
  BY DEF Invalidate
<1>3. pc'[p] = "open" /\ \A q \in Procs : q # p => pc'[q] = pc[q]
  BY <1>1, <1>2 DEF TypeOK
<1>4. u \in Users /\ inv[p].ver \in Versions
  BY <1>1, <1>2 DEF IndInv, InvBelow, Invalidating, TypeOK, Invs
<1>5. \A k \in Keys : cache'[k] = IF k \in {u} THEN None ELSE cache[k]
  BY <1>2, RemoveEffect
<1>6. \A q \in Procs : /\ inv'[q].user = inv[q].user
                       /\ inv'[q].ver = inv[q].ver
                       /\ inv'[q].scope = inv[q].scope
                       /\ inv'[q].page = inv[q].page
                       /\ inv'[q].last = inv[q].last
                       /\ inv'[q].pending = inv[q].pending \ {u}
  BY <1>1, <1>2, ForgetEffect
<1>7. \A q \in Procs : /\ fill'[q].key = fill[q].key
                       /\ fill'[q].data = fill[q].data
                       /\ fill[q].raced => fill'[q].raced
                       /\ pc[q] \in HasRead /\ fill[q].key \in {u} => fill'[q].raced
  BY <1>1, <1>2, MarkRacedEffect
<1>8. \A k \in Keys, w \in Users :
         floor'[k][w] = floor[k][w] \/ (k = u /\ w = u /\ floor'[k][w] = inv[p].ver)
  <2> SUFFICES ASSUME NEW k \in Keys, NEW w \in Users
               PROVE  floor'[k][w] = floor[k][w]
                      \/ (k = u /\ w = u /\ floor'[k][w] = inv[p].ver)
    OBVIOUS
  <2>1. RaiseFloor({u}, u, inv[p].ver)
    BY <1>2
  <2> HIDE DEF u
  <2>2. floor'[k][w] = IF k \in {u} /\ u \in Sees(k) /\ inv[p].ver > floor[k][u] /\ w = u
                       THEN inv[p].ver ELSE floor[k][w]
    BY <1>1, <2>1 DEF RaiseFloor, TypeOK
  <2> QED BY <2>2
<1>9. \A q \in Procs : pc'[q] \in HasRead /\ fill[q].key = u => fill'[q].raced
  BY <1>3, <1>7
<1>10. \A k \in Keys : k = u => cache'[k] = None
  BY <1>5
<1>11. \A q \in Procs : q # p =>
          /\ inv'[q].pending \subseteq inv[q].pending
          /\ \A k \in inv[q].pending : k \in inv'[q].pending \/ cache'[k] = None
  <2>1. u \in Keys
    BY <1>4 DEF Keys
  <2> QED BY <1>6, <1>10, <2>1
<1>12. \A k \in Keys, w \in Users :
          \/ floor'[k][w] = floor[k][w]
          \/ /\ w = inv[p].user
             /\ floor'[k][w] = inv[p].ver
             /\ cache'[k] = None
             /\ \A q \in Procs : pc'[q] \in HasRead /\ fill[q].key = k => fill'[q].raced
  BY <1>8, <1>9, <1>10
<1>13. \A k \in Keys : cache'[k] = None \/ cache'[k] = cache[k]
  BY <1>5
<1>14. pc[p] \in Invalidating /\ pc'[p] \in Invalidating
  BY <1>2, <1>3 DEF Invalidating
<1>15. \A q \in Procs : /\ inv'[q].user = inv[q].user
                        /\ inv'[q].ver = inv[q].ver
                        /\ inv'[q].scope = inv[q].scope
                        /\ inv'[q].page = inv[q].page
                        /\ inv'[q].last = inv[q].last
  BY <1>6
<1>16. \A q \in Procs : /\ fill'[q].key = fill[q].key
                        /\ fill'[q].data = fill[q].data
                        /\ fill[q].raced => fill'[q].raced
  BY <1>7
<1>17. UNCHANGED ver
  BY <1>2
<1>18. inv[p].page = {}
  BY <1>2 DEF IndInv, PageInHand
<1> HIDE DEF u
<1> QED BY <1>3, <1>11, <1>12, <1>13, <1>14, <1>15, <1>16, <1>17, <1>18, InvalidationStep

LEMMA InvalidateLostInd ==
    ASSUME IndInv, TypeOK', NEW p \in Procs, NEW executed \in BOOLEAN,
           InvalidateLost(p, executed)
    PROVE  IndInv'
<1> DEFINE S == IF executed THEN {inv[p].user} ELSE {}
<1>1. TypeOK
  BY DEF IndInv
<1>2. /\ pc[p] = "del"
      /\ Remove(S)
      /\ inv' = Forget(S)
      /\ pc' = [pc EXCEPT ![p] = "open"]
      /\ UNCHANGED <<ver, fill, floor>>
  BY DEF InvalidateLost
<1>3. pc'[p] = "open" /\ \A q \in Procs : q # p => pc'[q] = pc[q]
  BY <1>1, <1>2 DEF TypeOK
<1> HIDE DEF S
<1>4. \A k \in Keys : cache'[k] = IF k \in S THEN None ELSE cache[k]
  BY <1>2, RemoveEffect
<1>5. \A q \in Procs : /\ inv'[q].user = inv[q].user
                       /\ inv'[q].ver = inv[q].ver
                       /\ inv'[q].scope = inv[q].scope
                       /\ inv'[q].page = inv[q].page
                       /\ inv'[q].last = inv[q].last
                       /\ inv'[q].pending = inv[q].pending \ S
  BY <1>1, <1>2, ForgetEffect
<1>6. \A q \in Procs : inv[q].pending \subseteq Keys
  BY <1>1 DEF TypeOK, Invs
<1>7. inv[p].page = {}
  BY <1>2 DEF IndInv, PageInHand
<1> QED BY <1>2, <1>3, <1>4, <1>5, <1>6, <1>7, InvalidationStep DEF Invalidating

(* FinishIf raises floors only when the scan is over. *)
LEMMA FinishIfEffect ==
    ASSUME TypeOK, NEW p \in Procs, NEW last \in BOOLEAN, FinishIf(p, last),
           inv[p].user \in Users
    PROVE  /\ pc'[p] = IF last THEN "idle" ELSE "scan"
           /\ \A q \in Procs : q # p => pc'[q] = pc[q]
           /\ \A k \in Keys, w \in Users :
                 \/ floor'[k][w] = floor[k][w]
                 \/ /\ last
                    /\ k \in inv[p].scope
                    /\ w = inv[p].user
                    /\ w \in Sees(k)
                    /\ floor'[k][w] = inv[p].ver
<1>1. inv[p].ver \in Versions
  BY DEF TypeOK, Invs
<1>2. CASE last
  <2>1. RaiseFloor(inv[p].scope, inv[p].user, inv[p].ver)
    BY <1>2 DEF FinishIf
  <2>2. pc' = [pc EXCEPT ![p] = "idle"]
    BY <1>2 DEF FinishIf
  <2>3. \A k \in Keys, w \in Users :
           floor'[k][w] = IF /\ k \in inv[p].scope
                             /\ inv[p].user \in Sees(k)
                             /\ inv[p].ver > floor[k][inv[p].user]
                             /\ w = inv[p].user
                          THEN inv[p].ver ELSE floor[k][w]
    BY <2>1 DEF RaiseFloor, TypeOK
  <2>4. pc'[p] = "idle" /\ \A q \in Procs : q # p => pc'[q] = pc[q]
    BY <2>2 DEF TypeOK
  <2> QED BY <1>2, <2>3, <2>4
<1>3. CASE ~last
  BY <1>3 DEF FinishIf, TypeOK
<1> QED BY <1>2, <1>3

LEMMA DropPageInd ==
    ASSUME IndInv, TypeOK', NEW p \in Procs, DropPage(p)
    PROVE  IndInv'
<1> DEFINE S == inv[p].page
<1> DEFINE last == inv[p].last
<1>1. TypeOK
  BY DEF IndInv
<1>2. /\ pc[p] = "drop"
      /\ Remove(S)
      /\ FinishIf(p, last)
      /\ inv' = [Forget(S) EXCEPT ![p] = IF last THEN NoInv ELSE [@ EXCEPT !.page = {}]]
      /\ UNCHANGED <<ver, fill>>
  BY DEF DropPage
<1>3. inv[p].user \in Users
  BY <1>2 DEF IndInv, InvBelow, Invalidating
<1>4. last \in BOOLEAN /\ \A q \in Procs : inv[q].pending \subseteq Keys
  BY <1>1 DEF TypeOK, Invs
<1>5. /\ pc'[p] = IF last THEN "idle" ELSE "scan"
      /\ \A q \in Procs : q # p => pc'[q] = pc[q]
      /\ \A k \in Keys, w \in Users :
            \/ floor'[k][w] = floor[k][w]
            \/ /\ last
               /\ k \in inv[p].scope
               /\ w = inv[p].user
               /\ w \in Sees(k)
               /\ floor'[k][w] = inv[p].ver
  BY <1>1, <1>2, <1>3, <1>4, FinishIfEffect
<1>6. \A k \in Keys : cache'[k] = IF k \in S THEN None ELSE cache[k]
  BY <1>2, RemoveEffect
<1>7. Forget(S) \in [Procs -> Invs]
  BY <1>1, ForgetType DEF TypeOK, Invs
<1>8. \A q \in Procs : q # p => inv'[q] = Forget(S)[q]
  BY <1>2, <1>7
<1>9. ~last => inv'[p] = [Forget(S)[p] EXCEPT !.page = {}]
  BY <1>2, <1>7
<1>10. ~last => /\ inv'[p].user = Forget(S)[p].user
                /\ inv'[p].ver = Forget(S)[p].ver
                /\ inv'[p].scope = Forget(S)[p].scope
                /\ inv'[p].pending = Forget(S)[p].pending
                /\ inv'[p].page = {}
  BY <1>7, <1>9 DEF Invs
<1>11. \A q \in Procs : /\ Forget(S)[q].user = inv[q].user
                        /\ Forget(S)[q].ver = inv[q].ver
                        /\ Forget(S)[q].scope = inv[q].scope
                        /\ Forget(S)[q].page = inv[q].page
                        /\ Forget(S)[q].last = inv[q].last
                        /\ Forget(S)[q].pending = inv[q].pending \ S
  BY <1>1, ForgetEffect
<1>12. \A k \in inv[p].scope : inv[p].user \in Sees(k) /\ cache'[k] # None
          => \/ cache'[k].raced
             \/ cache'[k].data[inv[p].user] >= inv[p].ver
             \/ k \in inv[p].pending \ S
  <2>1. inv[p].scope \subseteq Keys
    BY <1>1 DEF TypeOK, Invs
  <2> QED BY <1>2, <1>6, <2>1 DEF IndInv, ScanOwes
<1>13. \A q \in Procs :
          /\ pc'[q] \in HasRead
          /\ fill[q].key \in inv[p].scope
          /\ inv[p].user \in Sees(fill[q].key)
          => fill'[q].raced \/ fill[q].data[inv[p].user] >= inv[p].ver
  BY <1>2, <1>5 DEF IndInv, ScanSeesFills
<1>14. last => inv[p].pending = {}
  BY <1>2 DEF IndInv, PageInHand
<1>15. \A q \in Procs : q # p =>
          /\ inv'[q].page = inv[q].page
          /\ inv'[q].last = inv[q].last
          /\ inv'[q].pending \subseteq inv[q].pending
          /\ \A k \in inv[q].pending : k \in inv'[q].pending \/ cache'[k] = None
  BY <1>4, <1>6, <1>8, <1>11
<1>16. \A q \in Procs : q # p \/ pc'[p] \in Invalidating =>
          /\ inv'[q].user = inv[q].user
          /\ inv'[q].ver = inv[q].ver
          /\ inv'[q].scope = inv[q].scope
  BY <1>5, <1>8, <1>10, <1>11 DEF Invalidating
<1>17. \A k \in Keys, w \in Users :
          \/ floor'[k][w] = floor[k][w]
          \/ /\ w = inv[p].user
             /\ floor'[k][w] = inv[p].ver
             /\ \/ cache'[k] = None
                \/ cache'[k].raced
                \/ cache'[k].data[w] >= inv[p].ver
             /\ \A q \in Procs :
                   pc'[q] \in HasRead /\ fill[q].key = k
                   => fill'[q].raced \/ fill[q].data[w] >= inv[p].ver
  BY <1>5, <1>12, <1>13, <1>14
<1>18. pc'[p] # "drop" /\ (pc'[p] = "scan" => ~last)
  BY <1>4, <1>5
<1>19. pc'[p] = "scan" => inv'[p].page = {} /\ inv'[p].pending = inv[p].pending \ S
  BY <1>10, <1>11, <1>18
<1> HIDE DEF S, last
<1> QED BY <1>2, <1>5, <1>6, <1>12, <1>13, <1>15, <1>16, <1>17, <1>18, <1>19, InvalidationStep
        DEF Invalidating

(* A reply of SCAN, when owed covers every older entry of the scope and    *)
(* every older fill of the scope has raced.                                *)
LEMMA ScanReplyInd ==
    ASSUME IndInv, TypeOK', NEW p \in Procs, NEW page, NEW last \in BOOLEAN,
           NEW owed \in SUBSET Keys,
           pc[p] \in {"open", "scan"},
           ScanReply(p, page, last, owed),
           \A q \in Procs : /\ fill'[q].key = fill[q].key
                            /\ fill'[q].data = fill[q].data
                            /\ fill[q].raced => fill'[q].raced,
           \A k \in inv[p].scope : inv[p].user \in Sees(k) /\ cache[k] # None
               => \/ cache[k].raced
                  \/ cache[k].data[inv[p].user] >= inv[p].ver
                  \/ k \in owed,
           \A q \in Procs :
               /\ pc[q] \in HasRead
               /\ fill[q].key \in inv[p].scope
               /\ inv[p].user \in Sees(fill[q].key)
               => fill'[q].raced \/ fill[q].data[inv[p].user] >= inv[p].ver
    PROVE  IndInv'
<1>1. TypeOK
  BY DEF IndInv
<1>2. inv[p].user \in Users
  BY DEF IndInv, InvBelow, Invalidating
<1>3. inv[p] \in Invs
  BY <1>1 DEF TypeOK
<1>4. UNCHANGED <<ver, cache>> /\ (last => owed \subseteq page)
  BY DEF ScanReply
<1>5. pc[p] \in Invalidating /\ inv[p].scope \subseteq Keys
  BY <1>3 DEF Invalidating, Invs
<1>6. CASE page = {}
  <2>1. /\ FinishIf(p, last)
        /\ inv' = [inv EXCEPT ![p] = IF last THEN NoInv ELSE [@ EXCEPT !.pending = owed]]
    BY <1>6 DEF ScanReply
  <2>2. /\ pc'[p] = IF last THEN "idle" ELSE "scan"
        /\ \A q \in Procs : q # p => pc'[q] = pc[q]
        /\ \A k \in Keys, w \in Users :
              \/ floor'[k][w] = floor[k][w]
              \/ /\ last
                 /\ k \in inv[p].scope
                 /\ w = inv[p].user
                 /\ w \in Sees(k)
                 /\ floor'[k][w] = inv[p].ver
    BY <1>1, <1>2, <2>1, FinishIfEffect
  <2>3. \A q \in Procs : q # p => inv'[q] = inv[q]
    BY <1>1, <2>1 DEF TypeOK
  <2>4. ~last => inv'[p] = [inv[p] EXCEPT !.pending = owed]
    BY <1>1, <2>1 DEF TypeOK
  <2>6. CASE last
    <3>1. \A k \in Keys, w \in Users :
             \/ floor'[k][w] = floor[k][w]
             \/ /\ w = inv[p].user
                /\ floor'[k][w] = inv[p].ver
                /\ \/ cache'[k] = None
                   \/ cache'[k].raced
                   \/ cache'[k].data[w] >= inv[p].ver
                /\ \A q \in Procs :
                      pc'[q] \in HasRead /\ fill[q].key = k
                      => fill'[q].raced \/ fill[q].data[w] >= inv[p].ver
      BY <1>4, <1>6, <2>2, <2>6
    <3>2. pc'[p] = "idle"
      BY <2>2, <2>6
    <3>3. \A k \in Keys : cache'[k] = cache[k]
      BY <1>4
    <3>4. pc'[p] \notin Invalidating
      BY <3>2 DEF Invalidating
    <3> QED BY <1>4, <1>5, <2>2, <2>3, <3>1, <3>2, <3>3, <3>4, InvalidationStep
  <2>7. CASE ~last
    <3>1. /\ inv'[p].user = inv[p].user
          /\ inv'[p].ver = inv[p].ver
          /\ inv'[p].scope = inv[p].scope
          /\ inv'[p].page = inv[p].page
          /\ inv'[p].pending = owed
      BY <1>3, <2>4, <2>7 DEF Invs
    <3>2. pc'[p] = "scan" /\ \A k \in Keys, w \in Users : floor'[k][w] = floor[k][w]
      BY <2>2, <2>7
    <3>3. inv'[p].page = {}
      <4>1. inv[p].page = {}
        BY DEF IndInv, PageInHand
      <4> QED BY <3>1, <4>1
    <3>4. \A k \in Keys : cache'[k] = cache[k]
      BY <1>4
    <3>5. pc'[p] \in Invalidating
      BY <3>2 DEF Invalidating
    <3>6. \A q \in Procs : /\ inv'[q].user = inv[q].user
                           /\ inv'[q].ver = inv[q].ver
                           /\ inv'[q].scope = inv[q].scope
      BY <2>3, <3>1
    <3> QED BY <1>4, <1>5, <2>2, <2>3, <3>1, <3>2, <3>3, <3>4, <3>5, <3>6, InvalidationStep
  <2> QED BY <2>6, <2>7
<1>7. CASE page # {}
  <2>1. /\ pc' = [pc EXCEPT ![p] = "drop"]
        /\ inv' = [inv EXCEPT ![p] = [@ EXCEPT !.pending = owed \ page,
                                              !.page = page,
                                              !.last = last]]
        /\ UNCHANGED floor
    BY <1>7 DEF ScanReply
  <2>2. pc'[p] = "drop" /\ \A q \in Procs : q # p => pc'[q] = pc[q] /\ inv'[q] = inv[q]
    BY <1>1, <2>1 DEF TypeOK
  <2>3. inv'[p] = [inv[p] EXCEPT !.pending = owed \ page, !.page = page, !.last = last]
    BY <1>1, <2>1 DEF TypeOK
  <2>4. /\ inv'[p].user = inv[p].user
        /\ inv'[p].ver = inv[p].ver
        /\ inv'[p].scope = inv[p].scope
        /\ inv'[p].pending = owed \ page
        /\ inv'[p].page = page
        /\ inv'[p].last = last
    BY <1>3, <2>3 DEF Invs
  <2>5. last => inv'[p].pending = {}
    BY <1>4, <2>4
  <2>6. \A q \in Procs : /\ inv'[q].user = inv[q].user
                         /\ inv'[q].ver = inv[q].ver
                         /\ inv'[q].scope = inv[q].scope
    BY <2>2, <2>4
  <2>7. \A k \in Keys : cache'[k] = cache[k]
    BY <1>4
  <2>8. \A k \in inv[p].scope : inv[p].user \in Sees(k) /\ cache'[k] # None
           => \/ cache'[k].raced
              \/ cache'[k].data[inv[p].user] >= inv[p].ver
              \/ k \in inv'[p].pending \cup inv'[p].page
    BY <1>4, <2>4
  <2>9. pc'[p] \in Invalidating /\ \A k \in Keys, w \in Users : floor'[k][w] = floor[k][w]
    BY <2>1, <2>2 DEF Invalidating
  <2> QED BY <1>4, <1>5, <2>2, <2>4, <2>5, <2>6, <2>7, <2>8, <2>9, InvalidationStep
<1> QED BY <1>6, <1>7

LEMMA ScanFirstInd ==
    ASSUME IndInv, TypeOK', NEW p \in Procs, NEW page, NEW last \in BOOLEAN,
           ScanFirst(p, page, last)
    PROVE  IndInv'
<1> DEFINE owed == Present \cap inv[p].scope
<1>1. /\ pc[p] = "open"
      /\ ScanReply(p, page, last, owed)
      /\ MarkRaced(inv[p].scope)
  BY DEF ScanFirst
<1>2. TypeOK
  BY DEF IndInv
<1>3. owed \in SUBSET Keys
  BY DEF Present
<1>4. \A q \in Procs : /\ fill'[q].key = fill[q].key
                       /\ fill'[q].data = fill[q].data
                       /\ fill[q].raced => fill'[q].raced
                       /\ pc[q] \in HasRead /\ fill[q].key \in inv[p].scope => fill'[q].raced
  BY <1>1, <1>2, MarkRacedEffect
<1>5. \A k \in inv[p].scope : cache[k] # None => k \in owed
  BY <1>2 DEF Present, TypeOK, Invs
<1> HIDE DEF owed
<1> QED BY <1>1, <1>3, <1>4, <1>5, ScanReplyInd

LEMMA ScanNextInd ==
    ASSUME IndInv, TypeOK', NEW p \in Procs, NEW page, NEW last \in BOOLEAN,
           ScanNext(p, page, last)
    PROVE  IndInv'
<1>1. /\ pc[p] = "scan"
      /\ ScanReply(p, page, last, inv[p].pending)
      /\ UNCHANGED fill
  BY DEF ScanNext
<1>2. inv[p].pending \in SUBSET Keys
  BY DEF IndInv, TypeOK, Invs
<1>3. inv[p].page = {}
  BY <1>1 DEF IndInv, PageInHand
<1>4. \A k \in inv[p].scope : inv[p].user \in Sees(k) /\ cache[k] # None
         => \/ cache[k].raced
            \/ cache[k].data[inv[p].user] >= inv[p].ver
            \/ k \in inv[p].pending
  BY <1>1, <1>3 DEF IndInv, ScanOwes
<1>5. \A q \in Procs :
         /\ pc[q] \in HasRead
         /\ fill[q].key \in inv[p].scope
         /\ inv[p].user \in Sees(fill[q].key)
         => fill[q].raced \/ fill[q].data[inv[p].user] >= inv[p].ver
  BY <1>1 DEF IndInv, ScanSeesFills
<1> QED BY <1>1, <1>2, <1>4, <1>5, ScanReplyInd

LEMMA ScanLostInd ==
    ASSUME IndInv, TypeOK', NEW p \in Procs, NEW executed \in BOOLEAN,
           ScanLost(p, executed)
    PROVE  IndInv'
<1> DEFINE S == IF executed THEN inv[p].page ELSE {}
<1>1. TypeOK
  BY DEF IndInv
<1>2. /\ pc[p] \in {"open", "scan", "drop"}
      /\ Remove(S)
      /\ inv' = [Forget(S) EXCEPT ![p] = NoInv]
      /\ pc' = [pc EXCEPT ![p] = "idle"]
      /\ UNCHANGED <<ver, fill, floor>>
  BY DEF ScanLost
<1>3. Forget(S) \in [Procs -> Invs]
  BY <1>1, ForgetType DEF TypeOK, Invs
<1> HIDE DEF S
<1>4. pc'[p] = "idle" /\ \A q \in Procs : q # p => pc'[q] = pc[q]
  BY <1>1, <1>2 DEF TypeOK
<1>5. \A k \in Keys : cache'[k] = IF k \in S THEN None ELSE cache[k]
  BY <1>2, RemoveEffect
<1>6. \A q \in Procs : q # p => inv'[q] = Forget(S)[q]
  BY <1>2, <1>3
<1>7. \A q \in Procs : q # p => /\ inv'[q].user = inv[q].user
                                /\ inv'[q].ver = inv[q].ver
                                /\ inv'[q].scope = inv[q].scope
                                /\ inv'[q].page = inv[q].page
                                /\ inv'[q].last = inv[q].last
                                /\ inv'[q].pending = inv[q].pending \ S
  BY <1>1, <1>6, ForgetEffect
<1>8. \A q \in Procs : inv[q].pending \subseteq Keys
  BY <1>1 DEF TypeOK, Invs
<1>9. pc[p] \in Invalidating /\ pc'[p] \notin Invalidating
  BY <1>2, <1>4 DEF Invalidating
<1> QED BY <1>2, <1>4, <1>5, <1>7, <1>8, <1>9, InvalidationStep

LEMMA ExpireInd ==
    ASSUME IndInv, TypeOK', NEW k \in Keys, Expire(k)
    PROVE  IndInv'
<1>1. TypeOK
  BY DEF IndInv
<1>2. Remove({k}) /\ inv' = Forget({k}) /\ UNCHANGED <<ver, pc, fill, floor>>
  BY DEF Expire
<1>3. \A j \in Keys : cache'[j] = IF j \in {k} THEN None ELSE cache[j]
  BY <1>2, RemoveEffect
<1>4. \A q \in Procs : /\ inv'[q].user = inv[q].user
                       /\ inv'[q].ver = inv[q].ver
                       /\ inv'[q].scope = inv[q].scope
                       /\ inv'[q].page = inv[q].page
                       /\ inv'[q].last = inv[q].last
                       /\ inv'[q].pending = inv[q].pending \ {k}
  BY <1>1, <1>2, ForgetEffect
<1>5. FloorBelow' /\ FillKeys' /\ StaleFillRaced'
  BY <1>2 DEF IndInv, FloorBelow, FillKeys, StaleFillRaced, Sees
<1>6. InvBelow' /\ PageInHand'
  BY <1>2, <1>4 DEF IndInv, InvBelow, PageInHand
<1>7. ScanSeesFills'
  BY <1>2, <1>4 DEF IndInv, ScanSeesFills, Sees
<1>8. ScanOwes'
  <2> SUFFICES ASSUME NEW q \in Procs, NEW j \in inv[q].scope,
                      pc[q] \in {"scan", "drop"},
                      inv[q].user \in Sees(j),
                      cache'[j] # None
               PROVE  \/ cache'[j].raced
                      \/ cache'[j].data[inv[q].user] >= inv[q].ver
                      \/ j \in (inv[q].pending \ {k}) \cup inv[q].page
    BY <1>2, <1>4 DEF ScanOwes, Sees
  <2>1. j \in Keys
    BY <1>1 DEF TypeOK, Invs
  <2>2. j # k /\ cache'[j] = cache[j]
    BY <1>3, <2>1
  <2> QED BY <2>2 DEF IndInv, ScanOwes
<1>9. StaleOnlyByRace'
  BY <1>2, <1>3 DEF IndInv, StaleOnlyByRace, Sees
<1> QED BY <1>5, <1>6, <1>7, <1>8, <1>9 DEF IndInv

LEMMA IndStep == IndInv /\ [Next]_vars => IndInv'
<1> SUFFICES ASSUME IndInv, [Next]_vars PROVE IndInv'
  OBVIOUS
<1>0. TypeOK'
  BY TypeStep DEF IndInv
<1>1. ASSUME NEW p \in Procs, Read(p) PROVE IndInv'
  BY <1>0, <1>1, ReadInd
<1>2. ASSUME NEW p \in Procs, Write(p) PROVE IndInv'
  BY <1>0, <1>2, WriteInd
<1>3. ASSUME NEW p \in Procs, Invalidation(p) PROVE IndInv'
  BY <1>0, <1>3, InvalidateInd, InvalidateLostInd, ScanFirstInd, ScanNextInd,
     DropPageInd, ScanLostInd DEF Invalidation
<1>4. ASSUME NEW u \in Users, Register(u) PROVE IndInv'
  <2>1. \A w \in Users : ver'[w] >= ver[w]
    BY <1>4, <1>0 DEF Register, IndInv, TypeOK, Versions
  <2> QED BY <1>4, <1>0, <2>1, GrowStep DEF Register
<1>5. ASSUME NEW u \in Users, Login(u) PROVE IndInv'
  <2>1. \A w \in Users : ver'[w] >= ver[w]
    BY <1>5 DEF Login, IndInv, TypeOK, Versions
  <2> QED BY <1>5, <1>0, <2>1, GrowStep DEF Login
<1>6. ASSUME NEW k \in Keys, Expire(k) PROVE IndInv'
  BY <1>0, <1>6, ExpireInd
<1>7. CASE UNCHANGED vars
  <2>1. \A w \in Users : ver'[w] >= ver[w]
    BY <1>7 DEF vars, IndInv, TypeOK, Versions
  <2> QED BY <1>7, <1>0, <2>1, GrowStep DEF vars
<1> QED BY <1>1, <1>2, <1>3, <1>4, <1>5, <1>6, <1>7 DEF Next

(* Every entry older than a completed invalidation was stored by a request *)
(* that had read the database before that invalidation reached Redis.      *)
THEOREM StaleOnlyByRaceHolds == Spec => []StaleOnlyByRace
<1>1. Init => IndInv
  BY IndInit
<1>2. IndInv /\ [Next]_vars => IndInv'
  BY IndStep
<1>3. IndInv => StaleOnlyByRace
  BY DEF IndInv
<1> QED BY <1>1, <1>2, <1>3, PTL DEF Spec

-----------------------------------------------------------------------------
(* The refinement.  An invalidation is promised to be done in the step     *)
(* that raises the floor; that nothing older is then left, but what a      *)
(* reader it overtook has stored or may store, is IndInv after that step.  *)

LEMMA ReadingAt ==
    ASSUME NEW p \in Procs
    PROVE  /\ pc[p] \in HasRead => Reading[p] = fill[p]
           /\ pc[p] \notin HasRead => Reading[p] = NoFill
           /\ pc'[p] \in HasRead => Reading'[p] = fill'[p]
           /\ pc'[p] \notin HasRead => Reading'[p] = NoFill
BY DEF Reading, NoFill, Nothing

LEMMA NoReadIsNoFill == Contract!NoRead = NoFill
BY DEF Contract!NoRead, Contract!Unwritten, NoFill, Nothing

LEMMA SeesSame == \A k : Contract!Sees(k) = Sees(k)
BY DEF Contract!Sees, Sees

LEMMA DutyAt ==
    ASSUME NEW p \in Procs
    PROVE  /\ pc[p] \in Invalidating =>
                 Duty[p] = [user |-> inv[p].user, ver |-> inv[p].ver,
                            todo |-> ToBegin(p), begun |-> Begun(p)]
           /\ pc[p] \notin Invalidating => Duty[p] = Contract!NoDuty
           /\ pc'[p] \in Invalidating =>
                 Duty'[p] = [user |-> inv'[p].user, ver |-> inv'[p].ver,
                             todo |-> ToBegin(p)', begun |-> Begun(p)']
           /\ pc'[p] \notin Invalidating => Duty'[p] = Contract!NoDuty
BY DEF Duty, Invalidating, Contract!NoDuty

(* The duties of the others do not change. *)
LEMMA DutyExcept ==
    ASSUME NEW p \in Procs, NEW d,
           \A q \in Procs \ {p} : /\ pc'[q] = pc[q]
                                  /\ inv'[q].user = inv[q].user
                                  /\ inv'[q].ver = inv[q].ver
                                  /\ inv'[q].scope = inv[q].scope,
           Duty'[p] = d
    PROVE  Duty' = [Duty EXCEPT ![p] = d]
<1>1. ASSUME NEW q \in Procs, q # p PROVE Duty'[q] = Duty[q]
  <2>1. PICK c, a, b, e : /\ c = pc[q] /\ a = inv[q].user
                          /\ b = inv[q].ver /\ e = inv[q].scope
    OBVIOUS
  <2>2. /\ c = pc'[q] /\ a = inv'[q].user /\ b = inv'[q].ver /\ e = inv'[q].scope
    BY <1>1, <2>1
  <2>3. ToBegin(q) = ToBegin(q)' /\ Begun(q) = Begun(q)'
    BY <2>1, <2>2 DEF ToBegin, Begun
  <2>4. CASE c \in Invalidating
    <3>1. PICK x, y : x = ToBegin(q) /\ y = Begun(q)
      OBVIOUS
    <3>2. x = ToBegin(q)' /\ y = Begun(q)'
      BY <2>3, <3>1
    <3>3. Duty[q] = [user |-> a, ver |-> b, todo |-> x, begun |-> y]
      BY <2>1, <2>4, <3>1, DutyAt
    <3>4. Duty'[q] = [user |-> a, ver |-> b, todo |-> x, begun |-> y]
      BY <2>2, <2>4, <3>2, DutyAt
    <3> QED BY <3>3, <3>4
  <2>5. CASE c \notin Invalidating
    BY <2>1, <2>2, <2>5, DutyAt
  <2> QED BY <2>4, <2>5
<1>2. /\ Duty = [q \in Procs |-> Duty[q]]
      /\ Duty' = [q \in Procs |-> Duty'[q]]
  BY DEF Duty
<1> QED BY <1>1, <1>2

LEMMA DutyUnchanged ==
    ASSUME \A q \in Procs : /\ \/ pc'[q] = pc[q]
                               \/ {pc[q], pc'[q]} \cap Invalidating = {}
                            /\ inv'[q].user = inv[q].user
                            /\ inv'[q].ver = inv[q].ver
                            /\ inv'[q].scope = inv[q].scope
    PROVE  Duty' = Duty
<1>1. ASSUME NEW q \in Procs PROVE Duty'[q] = Duty[q]
  <2>1. CASE {pc[q], pc'[q]} \cap Invalidating = {}
    BY <2>1, DutyAt
  <2>2. CASE pc'[q] = pc[q]
    <3>1. PICK c, a, b, e : /\ c = pc[q] /\ a = inv[q].user
                            /\ b = inv[q].ver /\ e = inv[q].scope
      OBVIOUS
    <3>2. /\ c = pc'[q] /\ a = inv'[q].user /\ b = inv'[q].ver /\ e = inv'[q].scope
      BY <2>2, <3>1
    <3>3. ToBegin(q) = ToBegin(q)' /\ Begun(q) = Begun(q)'
      BY <3>1, <3>2 DEF ToBegin, Begun
    <3> QED BY <3>1, <3>2, <3>3, DutyAt
  <2> QED BY <2>1, <2>2
<1>2. /\ Duty = [q \in Procs |-> Duty[q]]
      /\ Duty' = [q \in Procs |-> Duty'[q]]
  BY DEF Duty
<1> QED BY <1>1, <1>2

LEMMA ReadingUnchanged ==
    ASSUME \A q \in Procs : /\ pc[q] \in HasRead <=> pc'[q] \in HasRead
                            /\ pc[q] \in HasRead => fill'[q] = fill[q]
    PROVE  Reading' = Reading
<1>1. ASSUME NEW q \in Procs PROVE Reading'[q] = Reading[q]
  BY ReadingAt
<1>2. /\ Reading = [q \in Procs |-> Reading[q]]
      /\ Reading' = [q \in Procs |-> Reading'[q]]
  BY DEF Reading
<1> QED BY <1>1, <1>2

LEMMA ReadingExcept ==
    ASSUME NEW p \in Procs, NEW value,
           \A q \in Procs \ {p} : pc'[q] = pc[q] /\ fill'[q] = fill[q],
           Reading'[p] = value
    PROVE  Reading' = [Reading EXCEPT ![p] = value]
<1>1. ASSUME NEW q \in Procs \ {p} PROVE Reading'[q] = Reading[q]
  BY <1>1, ReadingAt
<1>2. /\ Reading = [q \in Procs |-> Reading[q]]
      /\ Reading' = [q \in Procs |-> Reading'[q]]
  BY DEF Reading
<1> QED BY <1>1, <1>2

-----------------------------------------------------------------------------
LEMMA ContractInit == Init => Contract!Init
<1> SUFFICES ASSUME Init PROVE Contract!Init
  OBVIOUS
<1>1. Duty = [p \in Procs |-> Contract!NoDuty]
  BY DEF Init, Duty, Contract!NoDuty
<1>2. Reading = [p \in Procs |-> Contract!NoRead]
  BY NoReadIsNoFill DEF Init, Reading
<1> QED BY <1>1, <1>2 DEF Init, Nothing, Contract!Init, Contract!Unwritten

(* Nobody is overtaken before having asked the database. *)
NotOvertaken == \A p \in Procs : pc[p] \in {"get", "find"} => ~fill[p].raced

(* A DEL comes before a scan for other keys. *)
DelBeforeList == \A p \in Procs : pc[p] = "del" => inv[p].scope = ListScope

Beginnings == NotOvertaken /\ DelBeforeList

LEMMA BeginningsInit == Init => Beginnings
BY DEF Init, Beginnings, NotOvertaken, DelBeforeList

LEMMA ReadBegins ==
    ASSUME TypeOK, Beginnings, NEW p \in Procs, Read(p)
    PROVE  Beginnings'
<1>1. NotOvertaken'
  <2> SUFFICES ASSUME NEW q \in Procs, pc'[q] \in {"get", "find"}
               PROVE  fill'[q].raced = FALSE
    BY DEF NotOvertaken
  <2>0. pc[q] \in {"get", "find"} => fill[q].raced = FALSE
    BY DEF Beginnings, NotOvertaken, TypeOK, Fills
  <2>1. CASE \E k \in Keys : Request(p, k)
    BY <2>0, <2>1 DEF Request, NoFill, TypeOK
  <2>2. CASE ~ \E k \in Keys : Request(p, k)
    BY <2>0, <2>2 DEF Read, CacheHit, CacheMiss, FindNothing, Find, Count,
                      QueryFails, CacheSet, CacheSetLost, NoFill, TypeOK
  <2> QED BY <2>1, <2>2
<1>2. DelBeforeList'
  BY DEF Beginnings, DelBeforeList, Read, Request, CacheHit, CacheMiss, FindNothing,
         Find, Count, QueryFails, CacheSet, CacheSetLost, TypeOK
<1> QED BY <1>1, <1>2 DEF Beginnings

LEMMA WriteBegins ==
    ASSUME TypeOK, Beginnings, NEW p \in Procs, Write(p)
    PROVE  Beginnings'
<1>1. PICK u \in Users, S \in {ListScope, UserScope}, next \in {"del", "open"} :
         WriteThenInvalidate(p, u, S, next) /\ (next = "del" => S = ListScope)
  BY DEF Write, UpdateUser, DeactivateUser
<1>2. /\ pc'[p] = next /\ inv'[p].scope = S /\ UNCHANGED fill
      /\ \A q \in Procs \ {p} : pc'[q] = pc[q] /\ inv'[q] = inv[q]
  BY <1>1 DEF WriteThenInvalidate, TypeOK, NoInv
<1> QED BY <1>1, <1>2 DEF Beginnings, NotOvertaken, DelBeforeList

(* What an invalidation does to the requests. *)
LEMMA InvalidationFrame ==
    ASSUME TypeOK, NEW p \in Procs, Invalidation(p)
    PROVE  /\ pc[p] \in Invalidating /\ pc'[p] \in {"open", "scan", "drop", "idle"}
           /\ UNCHANGED ver
           /\ \A q \in Procs \ {p} : /\ pc'[q] = pc[q]
                                     /\ inv'[q].user = inv[q].user
                                     /\ inv'[q].ver = inv[q].ver
                                     /\ inv'[q].scope = inv[q].scope
           /\ pc'[p] # "idle" => /\ inv'[p].user = inv[p].user
                                 /\ inv'[p].ver = inv[p].ver
                                 /\ inv'[p].scope = inv[p].scope
           /\ fill' = fill \/ \E S : MarkRaced(S)
<1>1. CASE Invalidate(p)
  <2>1. /\ pc[p] = "del" /\ pc' = [pc EXCEPT ![p] = "open"]
        /\ UNCHANGED ver
        /\ \E S : inv' = Forget(S)
        /\ \E S : MarkRaced(S)
    BY <1>1 DEF Invalidate
  <2>2. \A q \in Procs : /\ inv'[q].user = inv[q].user
                         /\ inv'[q].ver = inv[q].ver
                         /\ inv'[q].scope = inv[q].scope
    BY <2>1, ForgetEffect
  <2>3. pc'[p] = "open" /\ \A q \in Procs \ {p} : pc'[q] = pc[q]
    BY <2>1 DEF TypeOK
  <2> QED BY <2>1, <2>2, <2>3 DEF Invalidating
<1>2. ASSUME NEW executed \in BOOLEAN, InvalidateLost(p, executed)
      PROVE  \E S : inv' = Forget(S)
  BY <1>2 DEF InvalidateLost
<1>3. CASE \E executed \in BOOLEAN : InvalidateLost(p, executed)
  <2>1. /\ pc[p] = "del" /\ pc' = [pc EXCEPT ![p] = "open"]
        /\ UNCHANGED <<ver, fill, floor>>
    BY <1>3 DEF InvalidateLost
  <2>2. PICK S : inv' = Forget(S)
    BY <1>2, <1>3
  <2>3. \A q \in Procs : /\ inv'[q].user = inv[q].user
                         /\ inv'[q].ver = inv[q].ver
                         /\ inv'[q].scope = inv[q].scope
    BY <2>2, ForgetEffect
  <2> QED BY <2>1, <2>3 DEF Invalidating, TypeOK
<1>4. ASSUME NEW page, NEW last \in BOOLEAN, NEW owed, ScanReply(p, page, last, owed)
      PROVE  /\ pc'[p] \in {"scan", "drop", "idle"}
             /\ \A q \in Procs \ {p} : pc'[q] = pc[q] /\ inv'[q] = inv[q]
             /\ pc'[p] # "idle" => /\ inv'[p].user = inv[p].user
                                   /\ inv'[p].ver = inv[p].ver
                                   /\ inv'[p].scope = inv[p].scope
             /\ UNCHANGED ver
  <2>1. \E i : inv' = [inv EXCEPT ![p] = i]
    BY <1>4 DEF ScanReply
  <2>2. \E c \in {"scan", "drop", "idle"} : pc' = [pc EXCEPT ![p] = c]
    BY <1>4 DEF ScanReply, FinishIf
  <2>3. inv[p] \in Invs
    BY DEF TypeOK
  <2>4. CASE page = {}
    <3>1. ~last => inv'[p] = [inv[p] EXCEPT !.pending = owed]
      BY <1>4, <2>4 DEF ScanReply, TypeOK
    <3>2. last => pc'[p] = "idle"
      BY <1>4, <2>4 DEF ScanReply, FinishIf, TypeOK
    <3> QED BY <1>4, <2>1, <2>2, <2>3, <3>1, <3>2 DEF Invs, ScanReply, TypeOK
  <2>5. CASE page # {}
    <3>1. inv'[p] = [inv[p] EXCEPT !.pending = owed \ page, !.page = page, !.last = last]
      BY <1>4, <2>5 DEF ScanReply, TypeOK
    <3>2. /\ inv'[p].user = inv[p].user
          /\ inv'[p].ver = inv[p].ver
          /\ inv'[p].scope = inv[p].scope
      BY <2>3, <3>1 DEF Invs
    <3> QED BY <1>4, <2>1, <2>2, <3>2 DEF ScanReply, TypeOK
  <2> QED BY <2>4, <2>5
<1>5. CASE \E page \in SUBSET inv[p].scope, last \in BOOLEAN :
              ScanFirst(p, page, last) \/ ScanNext(p, page, last)
  BY <1>4, <1>5 DEF ScanFirst, ScanNext, Invalidating
<1>6. CASE DropPage(p)
  <2> DEFINE F == Forget(inv[p].page)
  <2>1. \A q \in Procs : /\ F[q].user = inv[q].user
                         /\ F[q].ver = inv[q].ver
                         /\ F[q].scope = inv[q].scope
    BY ForgetEffect
  <2>2. inv' = [F EXCEPT ![p] = IF inv[p].last THEN NoInv ELSE [@ EXCEPT !.page = {}]]
    BY <1>6 DEF DropPage
  <2>3. DOMAIN F = Procs /\ F[p] \in Invs
    BY ForgetType DEF Forget, TypeOK, Invs
  <2>4. /\ pc[p] = "drop" /\ UNCHANGED <<ver, fill>>
        /\ pc' = [pc EXCEPT ![p] = IF inv[p].last THEN "idle" ELSE "scan"]
    BY <1>6 DEF DropPage, FinishIf
  <2> HIDE DEF F
  <2>5. \A q \in Procs \ {p} : inv'[q] = F[q]
    BY <2>2, <2>3
  <2>6. ~inv[p].last => inv'[p] = [F[p] EXCEPT !.page = {}]
    BY <2>2, <2>3
  <2>7. ~inv[p].last => /\ inv'[p].user = inv[p].user
                        /\ inv'[p].ver = inv[p].ver
                        /\ inv'[p].scope = inv[p].scope
    BY <2>1, <2>3, <2>6 DEF Invs
  <2>8. /\ pc'[p] = IF inv[p].last THEN "idle" ELSE "scan"
        /\ \A q \in Procs \ {p} : pc'[q] = pc[q]
    BY <2>4 DEF TypeOK
  <2>9. \A q \in Procs \ {p} : /\ inv'[q].user = inv[q].user
                               /\ inv'[q].ver = inv[q].ver
                               /\ inv'[q].scope = inv[q].scope
    BY <2>1, <2>5
  <2> QED BY <2>4, <2>7, <2>8, <2>9 DEF Invalidating
<1>7. CASE \E executed \in BOOLEAN : ScanLost(p, executed)
  <2>1. PICK S : inv' = [Forget(S) EXCEPT ![p] = NoInv]
    BY <1>7 DEF ScanLost
  <2>2. \A q \in Procs \ {p} : inv'[q] = Forget(S)[q]
    BY <2>1 DEF Forget
  <2>3. \A q \in Procs \ {p} : /\ inv'[q].user = inv[q].user
                               /\ inv'[q].ver = inv[q].ver
                               /\ inv'[q].scope = inv[q].scope
    BY <2>2, ForgetEffect
  <2>4. /\ pc[p] \in {"open", "scan", "drop"} /\ pc' = [pc EXCEPT ![p] = "idle"]
        /\ UNCHANGED <<ver, fill>>
    BY <1>7 DEF ScanLost
  <2> QED BY <2>3, <2>4 DEF Invalidating, TypeOK
<1> QED BY <1>1, <1>3, <1>5, <1>6, <1>7 DEF Invalidation

LEMMA InvalidationBegins ==
    ASSUME TypeOK, Beginnings, NEW p \in Procs, Invalidation(p)
    PROVE  Beginnings'
<1>1. \A q \in Procs : pc'[q] \in {"get", "find"} => pc[q] = pc'[q] /\ fill'[q] = fill[q]
  BY InvalidationFrame DEF MarkRaced, TypeOK
<1>2. \A q \in Procs : pc'[q] = "del" => pc[q] = pc'[q] /\ inv'[q].scope = inv[q].scope
  BY InvalidationFrame
<1> QED BY <1>1, <1>2 DEF Beginnings, NotOvertaken, DelBeforeList

LEMMA BeginningsStep ==
    ASSUME TypeOK, Beginnings, [Next]_vars
    PROVE  Beginnings'
<1>1. ASSUME UNCHANGED <<pc, fill>>, \A q \in Procs : inv'[q].scope = inv[q].scope
      PROVE  Beginnings'
  BY <1>1 DEF Beginnings, NotOvertaken, DelBeforeList
<1>2. ASSUME NEW k \in Keys, Expire(k) PROVE Beginnings'
  BY <1>1, <1>2, ForgetEffect DEF Expire
<1>3. ASSUME NEW u \in Users, Register(u) \/ Login(u) PROVE Beginnings'
  BY <1>1, <1>3 DEF Register, Login
<1>4. CASE UNCHANGED vars
  BY <1>1, <1>4 DEF vars
<1> QED BY <1>2, <1>3, <1>4, ReadBegins, WriteBegins, InvalidationBegins DEF Next

(* Reads.  The contract knows the step Find alone of those that read.      *)
LEMMA StepRead ==
    ASSUME IndInv, Beginnings, NEW p \in Procs, Read(p)
    PROVE  Contract!Next \/ UNCHANGED Contract!promise
<1>1. TypeOK /\ FillKeys
  BY DEF IndInv
<1>2. /\ UNCHANGED <<ver, inv, floor>>
      /\ {pc[p], pc'[p]} \cap Invalidating = {}
      /\ \A q \in Procs \ {p} : pc'[q] = pc[q] /\ fill'[q] = fill[q]
  BY <1>1 DEF Read, Request, CacheHit, CacheMiss, FindNothing, Find, Count,
              QueryFails, CacheSet, CacheSetLost, TypeOK, Invalidating
<1>3. Duty' = Duty
  BY <1>2, DutyUnchanged
<1>4. CASE \/ \E k \in Keys : Request(p, k)
           \/ CacheHit(p) \/ CacheMiss(p) \/ FindNothing(p)
           \/ QueryFails(p) /\ pc[p] = "find"
  <2>1. pc[p] \notin HasRead /\ pc'[p] \notin HasRead /\ UNCHANGED cache
    BY <1>1, <1>4 DEF Request, CacheHit, CacheMiss, FindNothing, QueryFails, TypeOK
  <2>2. Reading' = Reading
    BY <1>2, <2>1, ReadingUnchanged
  <2> QED BY <1>2, <1>3, <2>1, <2>2 DEF Contract!promise
<1>5. CASE Find(p)
  <2> DEFINE k == fill[p].key
             value == [key |-> k, data |-> Query(k), raced |-> FALSE]
  <2>1. /\ pc[p] = "find" /\ pc'[p] \in HasRead /\ UNCHANGED cache
        /\ k \in Users => ver[k] > 0
    BY <1>1, <1>5 DEF Find, TypeOK
  <2>2. k \in Keys
    BY <1>1, <2>1 DEF FillKeys
  <2>3. fill'[p] = value
    <3>1. fill'[p] = [fill[p] EXCEPT !.data = Query(k)]
      BY <1>1, <1>5 DEF Find, TypeOK
    <3>2. fill[p].raced = FALSE
      BY <1>1, <2>1 DEF Beginnings, NotOvertaken, TypeOK, Fills
    <3> QED BY <1>1, <3>1, <3>2 DEF TypeOK, Fills
  <2>4. Reading[p] = Contract!NoRead
    BY <2>1, ReadingAt, NoReadIsNoFill
  <2>5. Reading' = [Reading EXCEPT ![p] = value]
    <3>1. Reading'[p] = value
      BY <2>1, <2>3, ReadingAt
    <3> HIDE DEF value
    <3> QED BY <1>2, <3>1, ReadingExcept
  <2>6. Contract!Fetch(p, k)
    <3>1. Query(k) = [u \in Users |-> IF u \in Contract!Sees(k) THEN ver[u] ELSE 0]
      BY SeesSame DEF Query
    <3> QED BY <1>2, <1>3, <2>1, <2>4, <2>5, <3>1 DEF Contract!Fetch
  <2> HIDE DEF k
  <2> QED BY <2>2, <2>6 DEF Contract!Next
<1>6. CASE Count(p)
  <2>1. pc[p] \in HasRead /\ pc'[p] \in HasRead /\ UNCHANGED <<cache, fill>>
    BY <1>1, <1>6 DEF Count, TypeOK
  <2>2. Reading' = Reading
    BY <1>2, <2>1, ReadingUnchanged
  <2> QED BY <1>2, <1>3, <2>1, <2>2 DEF Contract!promise
<1>7. CASE CacheSet(p) \/ CacheSetLost(p) \/ (QueryFails(p) /\ pc[p] = "count")
  <2>1. /\ pc[p] \in HasRead /\ pc'[p] \notin HasRead
        /\ \/ UNCHANGED cache
           \/ cache' = [cache EXCEPT ![fill[p].key] =
                           [data |-> fill[p].data, raced |-> fill[p].raced]]
    BY <1>1, <1>7 DEF CacheSet, CacheSetLost, QueryFails, TypeOK
  <2>2. Reading[p] = fill[p] /\ Reading'[p] = Contract!NoRead
    BY <2>1, ReadingAt, NoReadIsNoFill
  <2>3. Reading[p] # Contract!NoRead
    <3>1. fill[p].key \in Keys
      BY <1>1, <2>1 DEF FillKeys
    <3>2. Contract!NoRead.key \notin Keys
      BY NoneIsNoKey DEF NoneIsNoKey, Contract!NoRead
    <3> QED BY <2>2, <3>1, <3>2
  <2>4. Reading' = [Reading EXCEPT ![p] = Contract!NoRead]
    BY <1>2, <2>2, ReadingExcept
  <2>5. Contract!Return(p)
    BY <1>2, <1>3, <2>1, <2>2, <2>3, <2>4 DEF Contract!Return
  <2> QED BY <2>5 DEF Contract!Next
<1> QED BY <1>4, <1>5, <1>6, <1>7 DEF Read, QueryFails

-----------------------------------------------------------------------------
(* Writes, with a duty or without. *)

LEMMA StepWrite ==
    ASSUME IndInv, NEW p \in Procs, Write(p)
    PROVE  Contract!Next
<1>1. PICK u \in Users, S \in {ListScope, UserScope}, next \in {"del", "open"} :
         /\ WriteThenInvalidate(p, u, S, next)
         /\ next = "del" => S = ListScope
  BY DEF Write, UpdateUser, DeactivateUser
<1>2. /\ pc[p] = "idle" /\ pc'[p] = next
      /\ ver' = [ver EXCEPT ![u] = @ + 1]
      /\ ver[u] > 0
      /\ \A q \in Procs \ {p} : pc'[q] = pc[q] /\ inv'[q] = inv[q]
      /\ inv'[p].user = u /\ inv'[p].ver = ver[u] + 1 /\ inv'[p].scope = S
      /\ UNCHANGED <<cache, fill, floor>>
  BY <1>1 DEF WriteThenInvalidate, IndInv, TypeOK, NoInv
<1>3. Reading' = Reading
  <2>1. \A q \in Procs : pc[q] \in HasRead \/ pc'[q] \in HasRead => pc'[q] = pc[q]
    BY <1>2
  <2> QED BY <1>2, <2>1, ReadingUnchanged
<1>4. PICK T \in SUBSET Keys : T = ToBegin(p)'
  <2>1. S \subseteq Keys /\ {u} \cup S \subseteq Keys
    BY DEF ListScope, UserScope, Keys
  <2>2. ToBegin(p)' = {u} \cup S \/ ToBegin(p)' = S
    BY <1>2 DEF ToBegin
  <2> QED BY <2>1, <2>2
<1>5. Contract!Owe(p, u, T)
  <2> DEFINE d == [user |-> u, ver |-> ver[u] + 1, todo |-> T, begun |-> {}]
  <2>1. Duty[p] = Contract!NoDuty
    BY <1>2, DutyAt DEF Invalidating
  <2>2. Duty'[p] = d
    <3>1. Begun(p)' = {}
      BY <1>2 DEF Begun
    <3> QED BY <1>2, <1>4, <3>1, DutyAt DEF Invalidating
  <2>3. Duty' = [Duty EXCEPT ![p] = d]
    <3> HIDE DEF d
    <3> QED BY <1>2, <2>2, DutyExcept
  <2> QED BY <1>2, <2>1, <2>3 DEF Contract!Owe
<1>6. Contract!Write(u)
  BY <1>2, <1>3 DEF Contract!Write
<1> QED BY <1>5, <1>6 DEF Contract!Next

LEMMA StepElsewhere ==
    ASSUME IndInv, NEW u \in Users, Register(u) \/ Login(u)
    PROVE  Contract!Next
<1>1. /\ ver' = [ver EXCEPT ![u] = @ + 1]
      /\ UNCHANGED <<cache, pc, fill, inv, floor>>
  BY DEF Register, Login, IndInv, TypeOK
<1>2. Duty' = Duty /\ Reading' = Reading
  BY <1>1, DutyUnchanged, ReadingUnchanged
<1> QED BY <1>1, <1>2 DEF Contract!Write, Contract!Next

LEMMA StepExpire ==
    ASSUME IndInv, NEW k \in Keys, Expire(k)
    PROVE  Contract!Next
<1>1. \A q \in Procs : /\ inv'[q].user = inv[q].user
                       /\ inv'[q].ver = inv[q].ver
                       /\ inv'[q].scope = inv[q].scope
  BY ForgetEffect DEF Expire, IndInv
<1>2. UNCHANGED <<ver, pc, fill, floor>>
  BY DEF Expire
<1>3. Duty' = Duty /\ Reading' = Reading
  BY <1>1, <1>2, DutyUnchanged, ReadingUnchanged
<1>4. Contract!Drop({k})
  BY DEF Expire, Remove, Contract!Drop
<1>5. {k} \in SUBSET Keys
  OBVIOUS
<1> QED BY <1>2, <1>3, <1>4, <1>5 DEF Contract!Next

-----------------------------------------------------------------------------
(* Parts of an invalidation. *)

LEMMA OvertakeMarked ==
    ASSUME TypeOK, NEW S \in SUBSET Keys, MarkRaced(S),
           \A q \in Procs : pc'[q] \in HasRead <=> pc[q] \in HasRead
    PROVE  Contract!Overtake(S)
<1>1. ASSUME NEW q \in Procs
      PROVE  Reading'[q] = [key |-> Reading[q].key, data |-> Reading[q].data,
                            raced |-> Reading[q].raced \/ Reading[q].key \in S]
  <2>1. CASE pc[q] \notin HasRead
    <3>1. Reading'[q] = NoFill /\ Reading[q] = NoFill
      BY <2>1, ReadingAt
    <3>2. None \notin S
      BY NoneIsNoKey DEF NoneIsNoKey
    <3>3. /\ Reading[q].key = None /\ Reading[q].data = Nothing
          /\ Reading[q].raced = FALSE
      BY <3>1 DEF NoFill
    <3>4. (Reading[q].raced \/ Reading[q].key \in S) = FALSE
      BY <3>2, <3>3
    <3> QED BY <3>1, <3>3, <3>4 DEF NoFill
  <2>2. CASE pc[q] \in HasRead
    <3>1. Reading'[q] = fill'[q] /\ Reading[q] = fill[q]
      BY <2>2, ReadingAt
    <3>2. fill[q] \in Fills
      BY DEF TypeOK
    <3>3. CASE fill[q].key \in S
      <4>1. fill'[q] = [fill[q] EXCEPT !.raced = TRUE]
        BY <2>2, <3>3 DEF MarkRaced
      <4> QED BY <3>1, <3>2, <3>3, <4>1 DEF Fills
    <3>4. CASE fill[q].key \notin S
      <4>1. fill'[q] = fill[q]
        BY <3>4 DEF MarkRaced
      <4> QED BY <3>1, <3>2, <3>4, <4>1 DEF Fills
    <3> QED BY <3>3, <3>4
  <2> QED BY <2>1, <2>2
<1>2. Reading' = [q \in Procs |-> Reading'[q]]
  BY DEF Reading
<1> QED BY <1>1, <1>2 DEF Contract!Overtake

LEMMA OvertakeNobody ==
    ASSUME TypeOK, UNCHANGED fill,
           \A q \in Procs : pc'[q] \in HasRead <=> pc[q] \in HasRead
    PROVE  Contract!Overtake({})
<1>1. MarkRaced({})
  BY DEF MarkRaced, TypeOK
<1> QED BY <1>1, OvertakeMarked

LEMMA DropNothing ==
    ASSUME TypeOK, UNCHANGED cache
    PROVE  Contract!Drop({})
BY DEF TypeOK, Contract!Drop

(* Where the floor is raised, IndInv says what is around after the step. *)
LEMMA PromiseKept ==
    ASSUME TypeOK, TypeOK', FillKeys', StaleFillRaced', StaleOnlyByRace',
           NEW S \in SUBSET Keys, NEW u \in Users, NEW v \in Versions,
           RaiseFloor(S, u, v)
    PROVE  Contract!Promise(S, u, v)
<1>1. ASSUME NEW k \in S, u \in Sees(k)
      PROVE  floor'[k][u] >= v
  BY <1>1 DEF RaiseFloor, TypeOK, Versions
<1>2. ASSUME NEW k \in S, u \in Sees(k), NEW value \in Contract!Around(k)
      PROVE  value.raced \/ value.data[u] >= v
  <2>0. v \in Nat /\ floor'[k][u] \in Nat /\ floor'[k][u] >= v
    BY <1>1, <1>2, MaxVerNat DEF TypeOK, Versions
  <2>1. CASE value \in {cache'[k]} \ {None}
    <3>1. value = cache'[k] /\ cache'[k] # None
      BY <2>1
    <3>2. value.data[u] \in Nat
      BY <3>1 DEF TypeOK, Entries, Versions
    <3>3. value.data[u] < floor'[k][u] => value.raced
      BY <1>2, <3>1 DEF StaleOnlyByRace, Sees
    <3> QED BY <2>0, <3>2, <3>3
  <2>2. CASE \E q \in Procs : value = Reading'[q] /\ Reading'[q].key = k
    <3>1. PICK q \in Procs : value = Reading'[q] /\ Reading'[q].key = k
      BY <2>2
    <3>2. pc'[q] \in HasRead
      <4>1. NoFill.key # k
        BY NoneIsNoKey DEF NoneIsNoKey, NoFill
      <4> QED BY <3>1, <4>1, ReadingAt
    <3>3. value = fill'[q] /\ fill'[q].key = k
      BY <3>1, <3>2, ReadingAt
    <3>4. value.data[u] \in Nat
      BY <3>3 DEF TypeOK, Fills, Versions
    <3>5. value.raced \/ value.data[u] >= floor'[k][u]
      BY <1>2, <3>2, <3>3 DEF StaleFillRaced, Sees
    <3> QED BY <2>0, <3>4, <3>5
  <2> QED BY <1>2, <2>1, <2>2 DEF Contract!Around
<1> QED BY <1>2, SeesSame DEF RaiseFloor, Contract!Promise

LEMMA PromiseNothing ==
    ASSUME TypeOK, UNCHANGED floor, NEW u, NEW v
    PROVE  Contract!Promise({}, u, v)
BY DEF TypeOK, Contract!Promise

(* The parts, put together. *)
LEMMA PartsTogether ==
    ASSUME TypeOK, InvBelow, NEW p \in Procs, Invalidation(p),
           NEW begin \in SUBSET ToBegin(p), NEW gone \in SUBSET Keys,
           NEW done \in SUBSET (Begun(p) \cup begin),
           Contract!Overtake(begin),
           Contract!Drop(gone),
           Contract!Promise(done, inv[p].user, inv[p].ver),
           pc'[p] # "idle" => /\ ToBegin(p)' \subseteq ToBegin(p) \ begin
                              /\ Begun(p)' = (Begun(p) \cup begin) \ done
    PROVE  Contract!Next
<1> DEFINE d == Duty[p]
<1>1. /\ pc[p] \in Invalidating /\ pc'[p] \in {"open", "scan", "drop", "idle"}
      /\ UNCHANGED ver
      /\ \A q \in Procs \ {p} : /\ pc'[q] = pc[q]
                                /\ inv'[q].user = inv[q].user
                                /\ inv'[q].ver = inv[q].ver
                                /\ inv'[q].scope = inv[q].scope
      /\ pc'[p] # "idle" => /\ inv'[p].user = inv[p].user
                            /\ inv'[p].ver = inv[p].ver
                            /\ inv'[p].scope = inv[p].scope
  BY InvalidationFrame
<1>2. /\ d.user = inv[p].user /\ d.ver = inv[p].ver
      /\ d.todo = ToBegin(p) /\ d.begun = Begun(p)
  <2>1. d = [user |-> inv[p].user, ver |-> inv[p].ver,
             todo |-> ToBegin(p), begun |-> Begun(p)]
    BY <1>1, DutyAt
  <2> HIDE DEF d
  <2> QED BY <2>1
<1>3. d # Contract!NoDuty
  <2>1. inv[p].user \in Users
    BY <1>1 DEF InvBelow
  <2>2. Contract!NoDuty.user = None /\ None \notin Users
    BY NoneIsNoKey DEF NoneIsNoKey, Keys, Contract!NoDuty
  <2> QED BY <1>2, <2>1, <2>2
<1> HIDE DEF d
<1>4. CASE pc'[p] = "idle"
  <2>1. Duty' = [Duty EXCEPT ![p] = Contract!NoDuty]
    <3>1. Duty'[p] = Contract!NoDuty
      BY <1>4, DutyAt DEF Invalidating
    <3> QED BY <1>1, <3>1, DutyExcept
  <2>2. Contract!Invalidate(p)
    BY <1>1, <1>2, <1>3, <2>1 DEF Contract!Invalidate, d
  <2> QED BY <2>2 DEF Contract!Next
<1>5. CASE pc'[p] # "idle"
  <2>1. PICK rest \in SUBSET (ToBegin(p) \ begin) : rest = ToBegin(p)'
    BY <1>5
  <2> DEFINE e == [user |-> d.user, ver |-> d.ver, todo |-> rest,
                   begun |-> (d.begun \cup begin) \ done]
  <2>2. Duty'[p] = e
    <3>1. Duty'[p] = [user |-> inv'[p].user, ver |-> inv'[p].ver,
                      todo |-> ToBegin(p)', begun |-> Begun(p)']
      BY <1>1, <1>5, DutyAt DEF Invalidating
    <3>2. /\ inv'[p].user = d.user /\ inv'[p].ver = d.ver
          /\ Begun(p)' = (d.begun \cup begin) \ done
      BY <1>1, <1>2, <1>5
    <3> QED BY <2>1, <3>1, <3>2
  <2>3. Duty' = [Duty EXCEPT ![p] = e]
    <3> HIDE DEF e
    <3> QED BY <1>1, <2>2, DutyExcept
  <2>4. rest \in SUBSET (d.todo \ begin)
    BY <1>2
  <2>5. Contract!Invalidate(p)
    BY <1>1, <1>2, <1>3, <2>3, <2>4 DEF Contract!Invalidate, d
  <2> QED BY <2>5 DEF Contract!Next
<1> QED BY <1>4, <1>5

(* The scan is over, or goes on. *)
LEMMA FinishPromise ==
    ASSUME IndInv, IndInv', NEW p \in Procs, pc[p] \in Invalidating,
           NEW last \in BOOLEAN, FinishIf(p, last)
    PROVE  /\ last => Contract!Promise(inv[p].scope, inv[p].user, inv[p].ver)
           /\ ~last => Contract!Promise({}, inv[p].user, inv[p].ver)
<1>1. /\ inv[p].user \in Users /\ inv[p].ver \in Versions
      /\ inv[p].scope \in SUBSET Keys
  BY DEF IndInv, InvBelow, TypeOK, Invs
<1>2. CASE last
  <2>1. RaiseFloor(inv[p].scope, inv[p].user, inv[p].ver)
    BY <1>2 DEF FinishIf
  <2> QED BY <1>1, <1>2, <2>1, PromiseKept DEF IndInv
<1>3. CASE ~last
  BY <1>3, PromiseNothing DEF FinishIf, IndInv
<1> QED BY <1>2, <1>3

LEMMA StepDel ==
    ASSUME IndInv, IndInv', Beginnings, NEW p \in Procs,
           Invalidate(p) \/ \E executed \in BOOLEAN : InvalidateLost(p, executed)
    PROVE  Contract!Next
<1> DEFINE u == inv[p].user
<1>0. /\ pc[p] = "del" /\ pc'[p] = "open"
      /\ \A q \in Procs : pc'[q] \in HasRead <=> pc[q] \in HasRead
  BY DEF Invalidate, InvalidateLost, IndInv, TypeOK
<1>1. /\ u \in Users /\ inv[p].ver \in Versions
      /\ inv[p].scope = ListScope /\ u \notin ListScope
      /\ {u} \in SUBSET Keys
      /\ TypeOK /\ InvBelow
  BY <1>0, KeysApart DEF IndInv, InvBelow, TypeOK, Invs, Invalidating, Beginnings,
     DelBeforeList, ListScope, KeysApart, Keys
<1>2. Invalidation(p)
  BY DEF Invalidation
<1>3. /\ ToBegin(p) = {u} \cup ListScope /\ ToBegin(p)' = ListScope
      /\ Begun(p) = {} /\ Begun(p)' = {}
  <2>1. inv'[p].scope = inv[p].scope
    BY <1>0, <1>1, <1>2, InvalidationFrame
  <2> QED BY <1>0, <1>1, <2>1 DEF ToBegin, Begun
<1> HIDE DEF u
<1>4. CASE Invalidate(p)
  <2>1. Remove({u}) /\ MarkRaced({u}) /\ RaiseFloor({u}, u, inv[p].ver)
    BY <1>4 DEF Invalidate, u
  <2>2. Contract!Overtake({u})
    BY <1>0, <1>1, <2>1, OvertakeMarked
  <2>3. Contract!Drop({u})
    BY <2>1 DEF Remove, Contract!Drop
  <2>4. Contract!Promise({u}, u, inv[p].ver)
    BY <1>1, <2>1, PromiseKept DEF IndInv
  <2>5. /\ {u} \in SUBSET ToBegin(p) /\ {u} \in SUBSET (Begun(p) \cup {u})
        /\ ToBegin(p)' \subseteq ToBegin(p) \ {u}
        /\ Begun(p)' = (Begun(p) \cup {u}) \ {u}
    BY <1>1, <1>3
  <2> QED BY <1>1, <1>2, <2>2, <2>3, <2>4, <2>5, PartsTogether DEF u
<1>5. CASE \E executed \in BOOLEAN : InvalidateLost(p, executed)
  <2>1. PICK gone \in {{}, {u}} : Remove(gone) /\ UNCHANGED <<fill, floor>>
    BY <1>5 DEF InvalidateLost, u
  <2>2. Contract!Overtake({})
    BY <1>0, <1>1, <2>1, OvertakeNobody
  <2>3. Contract!Drop(gone) /\ gone \in SUBSET Keys
    BY <1>1, <2>1 DEF Remove, Contract!Drop
  <2>4. Contract!Promise({}, u, inv[p].ver)
    BY <1>1, <2>1, PromiseNothing
  <2>5. /\ {} \in SUBSET ToBegin(p) /\ {} \in SUBSET (Begun(p) \cup {})
        /\ ToBegin(p)' \subseteq ToBegin(p) \ {}
        /\ Begun(p)' = (Begun(p) \cup {}) \ {}
    BY <1>3
  <2> QED BY <1>1, <1>2, <2>2, <2>3, <2>4, <2>5, PartsTogether DEF u
<1> QED BY <1>4, <1>5

(* The first SCAN overtakes; with one page that is all of it. *)
LEMMA StepScan ==
    ASSUME IndInv, IndInv', NEW p \in Procs,
           NEW page \in SUBSET inv[p].scope, NEW last \in BOOLEAN,
           ScanFirst(p, page, last) \/ ScanNext(p, page, last)
    PROVE  Contract!Next
<1> DEFINE scope == inv[p].scope
           begin == IF pc[p] = "open" THEN scope ELSE {}
           over == page = {} /\ last
           done == IF over THEN scope ELSE {}
<1>1. /\ scope \in SUBSET Keys /\ TypeOK /\ InvBelow
      /\ Invalidation(p)
  BY DEF IndInv, TypeOK, Invs, Invalidation
<1>2. PICK owed : ScanReply(p, page, last, owed)
  BY DEF ScanFirst, ScanNext
<1>3. /\ pc[p] \in {"open", "scan"}
      /\ pc'[p] = IF page # {} THEN "drop" ELSE IF last THEN "idle" ELSE "scan"
      /\ \A q \in Procs \ {p} : pc'[q] = pc[q]
      /\ UNCHANGED cache
  BY <1>1, <1>2 DEF ScanFirst, ScanNext, ScanReply, FinishIf, TypeOK
<1>4. Contract!Overtake(begin)
  <2>1. \A q \in Procs : pc'[q] \in HasRead <=> pc[q] \in HasRead
    BY <1>3
  <2>2. CASE pc[p] = "open"
    <3>1. MarkRaced(scope)
      BY <2>2 DEF ScanFirst, ScanNext
    <3> QED BY <1>1, <2>1, <2>2, <3>1, OvertakeMarked
  <2>3. CASE pc[p] # "open"
    <3>1. UNCHANGED fill
      BY <2>3 DEF ScanFirst, ScanNext
    <3> QED BY <1>1, <2>1, <2>3, <3>1, OvertakeNobody
  <2> QED BY <2>2, <2>3
<1>5. Contract!Drop({})
  BY <1>1, <1>3, DropNothing
<1>6. Contract!Promise(done, inv[p].user, inv[p].ver)
  <2>1. CASE page = {}
    <3>1. FinishIf(p, last)
      BY <1>2, <2>1 DEF ScanReply
    <3>2. pc[p] \in Invalidating
      BY <1>3 DEF Invalidating
    <3> QED BY <2>1, <3>1, <3>2, FinishPromise
  <2>2. CASE page # {}
    <3>1. UNCHANGED floor
      BY <1>2, <2>2 DEF ScanReply
    <3> QED BY <1>1, <2>2, <3>1, PromiseNothing
  <2> QED BY <2>1, <2>2
<1>7. /\ ToBegin(p) = begin /\ Begun(p) \cup begin = scope
      /\ pc'[p] # "idle" => ToBegin(p)' = {} /\ Begun(p)' = scope /\ ~over
  <2>1. pc'[p] # "idle" => inv'[p].scope = scope
    BY <1>1, InvalidationFrame
  <2> QED BY <1>3, <2>1 DEF ToBegin, Begun
<1>8. /\ begin \in SUBSET ToBegin(p) /\ done \in SUBSET (Begun(p) \cup begin)
      /\ {} \in SUBSET Keys
      /\ pc'[p] # "idle" => /\ ToBegin(p)' \subseteq ToBegin(p) \ begin
                            /\ Begun(p)' = (Begun(p) \cup begin) \ done
  BY <1>7
<1> HIDE DEF begin, done
<1> QED BY <1>1, <1>4, <1>5, <1>6, <1>8, PartsTogether

LEMMA StepDrop ==
    ASSUME IndInv, IndInv', NEW p \in Procs,
           DropPage(p) \/ \E executed \in BOOLEAN : ScanLost(p, executed)
    PROVE  Contract!Next
<1> DEFINE scope == inv[p].scope
<1>1. /\ scope \in SUBSET Keys /\ inv[p].page \in SUBSET Keys /\ inv[p].last \in BOOLEAN
      /\ TypeOK /\ InvBelow
      /\ Invalidation(p)
  BY DEF IndInv, TypeOK, Invs, Invalidation
<1>2. \A q \in Procs : pc'[q] \in HasRead <=> pc[q] \in HasRead
  BY <1>1, InvalidationFrame DEF Invalidating
<1>3. UNCHANGED fill
  BY DEF DropPage, ScanLost
<1>4. Contract!Overtake({})
  BY <1>1, <1>2, <1>3, OvertakeNobody
<1>5. PICK gone \in SUBSET Keys : Contract!Drop(gone)
  BY <1>1 DEF DropPage, ScanLost, Remove, Contract!Drop
<1>6. CASE DropPage(p)
  <2> DEFINE done == IF inv[p].last THEN scope ELSE {}
  <2>1. /\ pc[p] = "drop" /\ FinishIf(p, inv[p].last)
        /\ pc'[p] = IF inv[p].last THEN "idle" ELSE "scan"
    BY <1>1, <1>6 DEF DropPage, FinishIf, TypeOK
  <2>2. Contract!Promise(done, inv[p].user, inv[p].ver)
    BY <1>1, <2>1, FinishPromise DEF Invalidating
  <2>3. /\ Begun(p) = scope /\ ToBegin(p) = {}
        /\ pc'[p] # "idle" => ToBegin(p)' = {} /\ Begun(p)' = scope /\ ~inv[p].last
    <3>1. pc'[p] # "idle" => inv'[p].scope = scope
      BY <1>1, InvalidationFrame
    <3> QED BY <2>1, <3>1 DEF ToBegin, Begun
  <2>4. /\ {} \in SUBSET ToBegin(p) /\ done \in SUBSET (Begun(p) \cup {})
        /\ pc'[p] # "idle" => /\ ToBegin(p)' \subseteq ToBegin(p) \ {}
                              /\ Begun(p)' = (Begun(p) \cup {}) \ done
    BY <2>3
  <2> HIDE DEF done
  <2> QED BY <1>1, <1>4, <1>5, <2>2, <2>4, PartsTogether
<1>7. CASE \E executed \in BOOLEAN : ScanLost(p, executed)
  <2>1. pc'[p] = "idle" /\ UNCHANGED floor
    BY <1>1, <1>7 DEF ScanLost, TypeOK
  <2>2. Contract!Promise({}, inv[p].user, inv[p].ver)
    BY <1>1, <2>1, PromiseNothing
  <2>3. {} \in SUBSET ToBegin(p) /\ {} \in SUBSET (Begun(p) \cup {})
    OBVIOUS
  <2> QED BY <1>1, <1>4, <1>5, <2>1, <2>2, <2>3, PartsTogether
<1> QED BY <1>6, <1>7

LEMMA ContractStep ==
    ASSUME IndInv, IndInv', Beginnings, [Next]_vars
    PROVE  Contract!Next \/ UNCHANGED Contract!promise
<1>1. ASSUME NEW p \in Procs, Invalidation(p) PROVE Contract!Next
  BY <1>1, StepDel, StepScan, StepDrop DEF Invalidation
<1>2. CASE UNCHANGED vars
  <2>1. Duty' = Duty /\ Reading' = Reading
    BY <1>2, DutyUnchanged, ReadingUnchanged DEF vars
  <2> QED BY <1>2, <2>1 DEF vars, Contract!promise
<1> QED BY <1>1, <1>2, StepRead, StepWrite, StepElsewhere, StepExpire DEF Next

(* Every step of the getters, of the writes and of the scans that follow   *)
(* them is a step of the contract, or none: invalidatePattern may take any *)
(* number of pages, interleaved with whatever other requests do, and still *)
(* promises to be done only when nothing older is around.                  *)
THEOREM Implements == Spec => ImplementsContract
<1>1. Init => IndInv /\ Beginnings
  BY IndInit, BeginningsInit
<1>2. IndInv /\ Beginnings /\ [Next]_vars => IndInv' /\ Beginnings'
  BY IndStep, BeginningsStep DEF IndInv
<1>3. IndInv /\ Beginnings /\ IndInv' /\ [Next]_vars
      => [Contract!Next]_(Contract!promise)
  BY ContractStep
<1> QED BY <1>1, <1>2, <1>3, ContractInit, PTL
        DEF Spec, ImplementsContract, Contract!Spec
=============================================================================
