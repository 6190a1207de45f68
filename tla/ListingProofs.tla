--------------------------- MODULE ListingProofs ---------------------------
(***************************************************************************)
(* Proofs about Listing, for any number of users, clients, filters,        *)
(* instants and any page size.                                             *)
(*                                                                         *)
(* Rows and total agree as long as both are of one state of the            *)
(* collection; between the two commands the one that is there agrees with  *)
(* what the other would answer now, or the walk is torn.                   *)
(*                                                                         *)
(* Walks: whom a client was shown stands before the page it asks for, and  *)
(* whom it still has to be shown on it or after (Seen and Left).  Writes   *)
(* of one kind move users in one direction only.                           *)
(***************************************************************************)
EXTENDS Listing, FiniteSetTheorems, TLAPS

(* The rows page has when total documents match. *)
Fitting(page, rows, total) ==
    Cardinality(rows) =
        IF total <= Skip(page) THEN 0 ELSE Least(Limit, total - Skip(page))

CacheOK(page, r) ==
    r # None => /\ r.total <= Cardinality(Users)
                /\ ~r.torn => Fitting(page, r.rows, r.total)

(* Of a client at c in its walk k, when now documents match its filter. *)
WalkOK(c, k, now) ==
    /\ c # "idle" => k.filter \in Filters
    /\ c # "query" => k.rows = None /\ k.total = None
    /\ k.total # None => k.total <= Cardinality(Users)
    /\ ~k.torn =>
          /\ k.rows # None /\ k.total = None => Fitting(k.page, k.rows, now)
          /\ k.rows = None /\ k.total # None => k.total = now
          /\ k.rows # None /\ k.total # None => Fitting(k.page, k.rows, k.total)

CachesOK == \A k \in Keys : CacheOK(k[1], cache[k])

WalksOK == \A w \in Walkers : WalkOK(pc[w], walk[w], Total(walk[w].filter))

IInv == TypeOK /\ CachesOK /\ WalksOK

-----------------------------------------------------------------------------
(* The arithmetic of the pages. *)

LEMMA UsersCounted == Cardinality(Users) \in Nat \ {0}
BY UsersFinite, FS_CardinalityType, FS_EmptySet DEF UsersFinite

LEMMA TotalPagesType ==
    ASSUME NEW total \in Nat
    PROVE  TotalPages(total) \in Nat /\ (total >= 1 => TotalPages(total) >= 1)
<1>1. Limit \in Nat \ {0}
  BY LimitPositive DEF LimitPositive
<1>2. total + Limit - 1 \in Nat
  BY <1>1
<1>3. (total + Limit - 1) \div Limit \in Nat
  BY <1>1, <1>2
<1>4. total >= 1 => (total + Limit - 1) \div Limit >= 1
  <2>1. total >= 1 => Limit <= total + Limit - 1
    BY <1>1
  <2> QED BY <1>1, <1>2, <2>1
<1> QED BY <1>3, <1>4 DEF TotalPages

(* More documents have no fewer pages. *)
LEMMA TotalPagesMonotonic ==
    ASSUME NEW few \in Nat, NEW many \in Nat, few <= many
    PROVE  TotalPages(few) <= TotalPages(many)
<1>1. Limit \in Nat \ {0}
  BY LimitPositive DEF LimitPositive
<1> DEFINE a == few + Limit - 1
           b == many + Limit - 1
<1>2. a \in Nat /\ b \in Nat /\ a <= b
  BY <1>1
<1>3. a \div Limit <= b \div Limit
  <2> HIDE DEF a, b
  <2> QED BY <1>1, <1>2
<1> QED BY <1>3 DEF TotalPages

LEMMA FirstPage == 1 \in Pages /\ Pages \subseteq Nat \ {0}
BY UsersCounted, TotalPagesType DEF Pages

(* hasNextPage names a page there can be. *)
LEMMA NextPage ==
    ASSUME NEW page \in Pages, NEW total \in Nat, total <= Cardinality(Users),
           HasNextPage(page, total)
    PROVE  page + 1 \in Pages
<1>1. TotalPages(total) <= TotalPages(Cardinality(Users))
  BY UsersCounted, TotalPagesMonotonic
<1>2. TotalPages(total) \in Nat /\ TotalPages(Cardinality(Users)) \in Nat
  BY UsersCounted, TotalPagesType
<1> QED BY <1>1, <1>2, FirstPage DEF HasNextPage, Pages

LEMMA SkipType ==
    ASSUME NEW page \in Pages
    PROVE  Skip(page) \in Nat
<1>1. page - 1 \in Nat /\ Limit \in Nat
  BY FirstPage, LimitPositive DEF LimitPositive
<1> QED BY <1>1 DEF Skip

-----------------------------------------------------------------------------
(* What the two commands answer. *)

LEMMA TotalType ==
    ASSUME CollectionTypeOK, NEW filter
    PROVE  /\ Listed(filter) \subseteq Users
           /\ Total(filter) \in Nat
           /\ Total(filter) <= Cardinality(Users)
<1>1. Listed(filter) \subseteq Users
  BY DEF CollectionTypeOK, Listed, Documents
<1> QED BY <1>1, UsersFinite, FS_Subset, FS_CardinalityType DEF UsersFinite, Total

LEMMA PageFits ==
    ASSUME CollectionTypeOK, NEW filter, NEW page \in Pages, NEW rows,
           IsPage(filter, page, rows)
    PROVE  Fitting(page, rows, Total(filter))
<1> DEFINE n == Total(filter)
           s == Skip(page)
<1>1. n \in Nat /\ s \in Nat /\ Limit \in Nat \ {0}
  BY TotalType, SkipType, LimitPositive DEF LimitPositive
<1>2. Cardinality(rows) = Least(Limit, n - Least(s, n))
  BY DEF IsPage, Total
<1> HIDE DEF n, s
<1>3. Least(Limit, n - Least(s, n)) = IF n <= s THEN 0 ELSE Least(Limit, n - s)
  <2>1. CASE n <= s
    <3>1. Least(s, n) = n
      BY <1>1, <2>1 DEF Least
    <3> QED BY <1>1, <2>1, <3>1 DEF Least
  <2>2. CASE ~(n <= s)
    <3>1. Least(s, n) = s
      BY <1>1, <2>2 DEF Least
    <3> QED BY <2>2, <3>1
  <2> QED BY <2>1, <2>2
<1> QED BY <1>2, <1>3 DEF Fitting, n, s

LEMMA NoWalkType == NoWalk \in Walks
<1>1. None \in Filters \cup {None} /\ None \in Nat \cup {None}
  OBVIOUS
<1>2. None \in (SUBSET Users) \cup {None}
  OBVIOUS
<1>3. {} \in SUBSET Users /\ FALSE \in BOOLEAN
  OBVIOUS
<1> QED BY <1>1, <1>2, <1>3, FirstPage DEF NoWalk, Walks

-----------------------------------------------------------------------------
LEMMA InitIInv == Init => IInv
<1> SUFFICES ASSUME Init PROVE IInv
  OBVIOUS
<1>1. CollectionTypeOK
  BY MaxTimePositive DEF Init, CollectionInit, CollectionTypeOK, Times, MaxTimePositive
<1>2. TypeOK
  BY <1>1, NoWalkType DEF Init, TypeOK
<1>3. CachesOK
  BY DEF Init, CachesOK, CacheOK
<1>4. WalksOK
  <2>1. \A n : WalkOK("idle", NoWalk, n)
    BY DEF WalkOK, NoWalk
  <2> QED BY <2>1 DEF Init, WalksOK
<1> QED BY <1>2, <1>3, <1>4 DEF IInv

(* A client goes to c with the walk k, and the rest stays as it is. *)
LEMMA WalkStep ==
    ASSUME TypeOK, WalksOK, NEW w \in Walkers,
           NEW c \in {"idle", "get", "query", "done"}, NEW k \in Walks,
           created' = created, active' = active,
           pc' = [pc EXCEPT ![w] = c],
           walk' = [walk EXCEPT ![w] = k],
           WalkOK(c, k, Total(k.filter)),
           cache' \in [Keys -> Results \cup {None}],
           CachesOK'
    PROVE  IInv'
<1>1. CollectionTypeOK'
  BY DEF TypeOK, CollectionTypeOK, Documents
<1>2. TypeOK'
  BY <1>1 DEF TypeOK
<1>3. \A f : Total(f)' = Total(f)
  BY DEF Total, Listed
<1>4. ASSUME NEW v \in Walkers
      PROVE  WalkOK(pc'[v], walk'[v], Total(walk'[v].filter))
  <2>1. CASE v = w
    BY <2>1 DEF TypeOK
  <2>2. CASE v # w
    <3>1. pc'[v] = pc[v] /\ walk'[v] = walk[v]
      BY <2>2 DEF TypeOK
    <3> QED BY <3>1 DEF WalksOK
  <2> QED BY <2>1, <2>2
<1>5. ASSUME NEW v \in Walkers
      PROVE  Total(walk[v].filter)' = Total(walk'[v].filter)
  BY DEF Total, Listed
<1>6. WalksOK'
  BY <1>4, <1>5 DEF WalksOK
<1> QED BY <1>2, <1>6 DEF IInv

(* What a step of client w finds. *)
LEMMA Here ==
    ASSUME IInv, NEW w \in Walkers
    PROVE  /\ TypeOK /\ CachesOK /\ WalksOK
           /\ cache \in [Keys -> Results \cup {None}]
           /\ pc[w] \in {"idle", "get", "query", "done"}
           /\ walk[w] \in Walks
           /\ WalkOK(pc[w], walk[w], Total(walk[w].filter))
BY DEF IInv, TypeOK, WalksOK

LEMMA BeginIInv ==
    ASSUME IInv, NEW w \in Walkers, NEW filter \in Filters, Begin(w, filter)
    PROVE  IInv'
<1> DEFINE k == [NoWalk EXCEPT !.filter = filter, !.listed = Listed(filter)]
<1>1. Listed(filter) \in SUBSET Users
  BY TotalType DEF IInv, TypeOK
<1>2. k \in Walks
  BY <1>1, NoWalkType DEF Walks
<1>3. k.filter = filter /\ k.rows = None /\ k.total = None
  BY DEF NoWalk
<1>4. WalkOK("get", k, Total(k.filter))
  <2> HIDE DEF k
  <2> QED BY <1>3 DEF WalkOK
<1>5. CachesOK'
  BY Here DEF Begin, CachesOK
<1>6. /\ created' = created /\ active' = active /\ cache' = cache
      /\ pc' = [pc EXCEPT ![w] = "get"] /\ walk' = [walk EXCEPT ![w] = k]
  BY DEF Begin
<1> HIDE DEF k
<1> QED BY <1>2, <1>4, <1>5, <1>6, Here, WalkStep

(* A page that is sound lets the walk go on, or end. *)
LEMMA AnswerIInv ==
    ASSUME IInv, NEW w \in Walkers, NEW r \in Results, NEW isOld \in BOOLEAN,
           pc[w] # "idle", r.total <= Cardinality(Users),
           created' = created, active' = active,
           cache' \in [Keys -> Results \cup {None}], CachesOK',
           Answer(w, r, isOld)
    PROVE  IInv'
<1> DEFINE more == HasNextPage(walk[w].page, r.total)
           page == IF more THEN walk[w].page + 1 ELSE walk[w].page
           shown == walk[w].shown \cup r.rows
           twice == walk[w].twice \/ walk[w].shown \cap r.rows # {}
           anyTorn == walk[w].anyTorn \/ r.torn
           anyOld == walk[w].anyOld \/ isOld
           anyForeign == walk[w].anyForeign \/ r.filter # walk[w].filter
           c == IF more THEN "get" ELSE "done"
           k == [walk[w] EXCEPT !.page = page, !.rows = None, !.total = None,
                                !.torn = FALSE, !.old = FALSE, !.shown = shown,
                                !.twice = twice, !.anyTorn = anyTorn,
                                !.anyOld = anyOld, !.anyForeign = anyForeign]
<1>1. /\ walk[w] \in Walks /\ walk[w].page \in Pages /\ walk[w].shown \in SUBSET Users
      /\ r.total \in Nat /\ r.rows \in SUBSET Users
  BY Here DEF Walks, Results
<1>2. page \in Pages
  BY <1>1, NextPage
<1>3. shown \in SUBSET Users
  BY <1>1
<1>4. /\ twice \in BOOLEAN /\ anyTorn \in BOOLEAN /\ anyOld \in BOOLEAN
      /\ anyForeign \in BOOLEAN
  OBVIOUS
<1>5. walk' = [walk EXCEPT ![w] = k] /\ pc' = [pc EXCEPT ![w] = c]
  BY DEF Answer
<1>6. None \in (SUBSET Users) \cup {None} /\ None \in Nat \cup {None} /\ FALSE \in BOOLEAN
  OBVIOUS
<1>7. c \in {"idle", "get", "query", "done"} /\ c # "query"
  OBVIOUS
<1>8. k \in Walks
  <2> HIDE DEF page, shown, twice, anyTorn, anyOld, anyForeign
  <2> QED BY <1>1, <1>2, <1>3, <1>4, <1>6 DEF Walks
<1>9. k.rows = None /\ k.total = None /\ k.filter = walk[w].filter
  BY <1>1 DEF Walks
<1> HIDE DEF k, c
<1>10. WalkOK(c, k, Total(k.filter))
  <2>1. walk[w].filter \in Filters
    BY Here DEF WalkOK
  <2> QED BY <1>7, <1>9, <2>1 DEF WalkOK
<1> QED BY <1>5, <1>7, <1>8, <1>10, Here, WalkStep

LEMMA CacheHitIInv ==
    ASSUME IInv, NEW w \in Walkers, CacheHit(w)
    PROVE  IInv'
<1> DEFINE r == cache[Key(w)]
<1>1. /\ pc[w] = "get" /\ r # None /\ Answer(w, r, r.old)
      /\ created' = created /\ active' = active /\ cache' = cache
  BY DEF CacheHit
<1>2. walk[w].filter \in Filters /\ walk[w].page \in Pages
  BY <1>1, Here DEF WalkOK, Walks
<1>3. Key(w) \in Keys /\ Key(w)[1] = walk[w].page
  BY <1>2 DEF Key, Keys
<1>4. r \in Results
  BY <1>1, <1>3, Here
<1>5. r.total <= Cardinality(Users)
  BY <1>1, <1>3, Here DEF CachesOK, CacheOK
<1>6. r.old \in BOOLEAN
  BY <1>4 DEF Results
<1>7. CachesOK'
  BY <1>1, Here DEF CachesOK
<1> HIDE DEF r
<1> QED BY <1>1, <1>4, <1>5, <1>6, <1>7, Here, AnswerIInv

LEMMA CacheMissIInv ==
    ASSUME IInv, NEW w \in Walkers, CacheMiss(w)
    PROVE  IInv'
<1>1. /\ pc[w] = "get" /\ created' = created /\ active' = active /\ cache' = cache
      /\ pc' = [pc EXCEPT ![w] = "query"] /\ walk' = walk
  BY DEF CacheMiss
<1>2. walk' = [walk EXCEPT ![w] = walk[w]]
  BY <1>1, Here DEF TypeOK
<1>3. WalkOK("query", walk[w], Total(walk[w].filter))
  BY <1>1, Here DEF WalkOK
<1>4. CachesOK'
  BY <1>1, Here DEF CachesOK
<1> QED BY <1>1, <1>2, <1>3, <1>4, Here, WalkStep

LEMMA FindIInv ==
    ASSUME IInv, NEW w \in Walkers, Find(w)
    PROVE  IInv'
<1>1. /\ pc[w] = "query" /\ walk[w].rows = None
      /\ created' = created /\ active' = active /\ cache' = cache /\ pc' = pc
  BY DEF Find
<1>2. PICK rows \in SUBSET Users :
         /\ IsPage(walk[w].filter, walk[w].page, rows)
         /\ walk' = [walk EXCEPT ![w].rows = rows]
  BY DEF Find
<1> DEFINE k == [walk[w] EXCEPT !.rows = rows]
<1>3. walk' = [walk EXCEPT ![w] = k] /\ pc' = [pc EXCEPT ![w] = "query"]
  BY <1>1, <1>2, Here DEF TypeOK
<1>4. walk[w] \in Walks /\ walk[w].page \in Pages
  BY Here DEF Walks
<1>5. k \in Walks
  BY <1>4 DEF Walks
<1>6. /\ k.rows = rows /\ k.total = walk[w].total /\ k.filter = walk[w].filter
      /\ k.page = walk[w].page /\ k.torn = walk[w].torn
  BY <1>4 DEF Walks
<1>7. Fitting(k.page, k.rows, Total(k.filter))
  BY <1>2, <1>4, <1>6, PageFits DEF IInv, TypeOK
<1> HIDE DEF k
<1>8. WalkOK("query", k, Total(k.filter))
  <2>1. WalkOK("query", walk[w], Total(k.filter))
    BY <1>1, <1>6, Here
  <2> QED BY <1>1, <1>6, <1>7, <2>1 DEF WalkOK
<1>9. CachesOK'
  BY <1>1, Here DEF CachesOK
<1> QED BY <1>1, <1>3, <1>5, <1>8, <1>9, Here, WalkStep

LEMMA CountIInv ==
    ASSUME IInv, NEW w \in Walkers, Count(w)
    PROVE  IInv'
<1> DEFINE k == [walk[w] EXCEPT !.total = Total(walk[w].filter)]
<1>1. /\ pc[w] = "query" /\ walk[w].total = None
      /\ created' = created /\ active' = active /\ cache' = cache /\ pc' = pc
      /\ walk' = [walk EXCEPT ![w] = k]
  BY Here DEF Count, TypeOK
<1>2. pc' = [pc EXCEPT ![w] = "query"]
  BY <1>1, Here DEF TypeOK
<1>3. Total(walk[w].filter) \in Nat /\ Total(walk[w].filter) <= Cardinality(Users)
  BY TotalType DEF IInv, TypeOK
<1>4. walk[w] \in Walks
  BY Here
<1>5. k \in Walks
  <2>1. Total(walk[w].filter) \in Nat \cup {None}
    BY <1>3
  <2> QED BY <1>4, <2>1 DEF Walks
<1>6. /\ k.total = Total(walk[w].filter) /\ k.rows = walk[w].rows
      /\ k.filter = walk[w].filter /\ k.page = walk[w].page /\ k.torn = walk[w].torn
  BY <1>4 DEF Walks
<1> HIDE DEF k
<1>7. WalkOK("query", k, Total(k.filter))
  <2>1. WalkOK("query", walk[w], Total(k.filter))
    BY <1>1, <1>6, Here
  <2> QED BY <1>1, <1>3, <1>6, <2>1 DEF WalkOK
<1>8. CachesOK'
  BY <1>1, Here DEF CachesOK
<1> QED BY <1>1, <1>2, <1>5, <1>7, <1>8, Here, WalkStep

(* Rows and total are both there. *)
LEMMA ResultType ==
    ASSUME IInv, NEW w \in Walkers, Both(w)
    PROVE  /\ Result(w) \in Results
           /\ Result(w).total <= Cardinality(Users)
           /\ CacheOK(walk[w].page, Result(w))
           /\ Key(w) \in Keys /\ Key(w)[1] = walk[w].page
           /\ pc[w] = "query"
<1>1. pc[w] = "query" /\ walk[w].rows # None /\ walk[w].total # None
  BY DEF Both
<1>2. /\ walk[w].rows \in SUBSET Users /\ walk[w].total \in Nat
      /\ walk[w].torn \in BOOLEAN /\ walk[w].old \in BOOLEAN
      /\ walk[w].page \in Pages
  BY <1>1, Here DEF Walks
<1>3. walk[w].filter \in Filters /\ walk[w].total <= Cardinality(Users)
  BY <1>1, Here DEF WalkOK
<1>4. ~walk[w].torn => Fitting(walk[w].page, walk[w].rows, walk[w].total)
  BY <1>1, Here DEF WalkOK
<1>5. Result(w) \in Results
  BY <1>2, <1>3 DEF Result, Results
<1>6. /\ Result(w).rows = walk[w].rows /\ Result(w).total = walk[w].total
      /\ Result(w).torn = walk[w].torn
  BY DEF Result
<1>7. CacheOK(walk[w].page, Result(w))
  BY <1>3, <1>4, <1>6 DEF CacheOK
<1> QED BY <1>1, <1>2, <1>3, <1>5, <1>6, <1>7 DEF Key, Keys

LEMMA CacheSetIInv ==
    ASSUME IInv, NEW w \in Walkers, CacheSet(w)
    PROVE  IInv'
<1>1. /\ Both(w) /\ Answer(w, Result(w), FALSE)
      /\ created' = created /\ active' = active
      /\ cache' = [cache EXCEPT ![Key(w)] = Result(w)]
  BY DEF CacheSet
<1>2. cache' \in [Keys -> Results \cup {None}]
  BY <1>1, Here, ResultType
<1>3. ASSUME NEW k \in Keys PROVE CacheOK(k[1], cache'[k])
  <2>1. CASE k = Key(w)
    BY <1>1, <2>1, Here, ResultType
  <2>2. CASE k # Key(w)
    BY <1>1, <2>2, Here DEF CachesOK
  <2> QED BY <2>1, <2>2
<1>4. CachesOK'
  BY <1>3 DEF CachesOK
<1> QED BY <1>1, <1>2, <1>4, ResultType, AnswerIInv

LEMMA CacheSetLostIInv ==
    ASSUME IInv, NEW w \in Walkers, CacheSetLost(w)
    PROVE  IInv'
<1>1. /\ Both(w) /\ Answer(w, Result(w), FALSE)
      /\ created' = created /\ active' = active /\ cache' = cache
  BY DEF CacheSetLost
<1>2. CachesOK'
  BY <1>1, Here DEF CachesOK
<1> QED BY <1>1, <1>2, Here, ResultType, AnswerIInv

LEMMA EndIInv ==
    ASSUME IInv, NEW w \in Walkers, End(w)
    PROVE  IInv'
<1>1. /\ created' = created /\ active' = active /\ cache' = cache
      /\ pc' = [pc EXCEPT ![w] = "idle"] /\ walk' = [walk EXCEPT ![w] = NoWalk]
  BY DEF End
<1>2. WalkOK("idle", NoWalk, Total(NoWalk.filter))
  BY DEF WalkOK, NoWalk
<1>3. CachesOK'
  BY <1>1, Here DEF CachesOK
<1> QED BY <1>1, <1>2, <1>3, Here, NoWalkType, WalkStep

-----------------------------------------------------------------------------
(* A write: whoever is between the two commands is torn. *)
LEMMA OutdateIInv ==
    ASSUME IInv, CollectionTypeOK',
           NEW came \in BOOLEAN, NEW went \in BOOLEAN, Outdate(came, went)
    PROVE  IInv'
<1> DEFINE Split(k) == (k.rows = None) # (k.total = None)
           Outdated(k) == [k EXCEPT !.came = k.came \/ came,
                                    !.went = k.went \/ went,
                                    !.torn = k.torn \/ Split(k),
                                    !.old = k.old \/ k.rows # None]
<1>1. /\ pc' = pc
      /\ cache' = [k \in DOMAIN cache |->
                      IF cache[k] = None THEN None ELSE [cache[k] EXCEPT !.old = TRUE]]
      /\ walk' = [w \in Walkers |->
                     IF pc[w] = "idle" THEN walk[w] ELSE Outdated(walk[w])]
  BY DEF Outdate
<1>2. /\ TypeOK /\ CachesOK /\ WalksOK
  BY DEF IInv
<1>3. ASSUME NEW k \in Keys
      PROVE  cache'[k] \in Results \cup {None} /\ CacheOK(k[1], cache'[k])
  <2>1. DOMAIN cache = Keys /\ cache[k] \in Results \cup {None}
    BY <1>2 DEF TypeOK
  <2>2. CASE cache[k] = None
    BY <1>1, <2>1, <2>2 DEF CacheOK
  <2>3. CASE cache[k] # None
    <3> DEFINE r == cache[k]
               o == [r EXCEPT !.old = TRUE]
    <3>1. cache'[k] = o /\ r \in Results
      BY <1>1, <2>1, <2>3
    <3>2. o \in Results /\ o.rows = r.rows /\ o.total = r.total /\ o.torn = r.torn
      BY <3>1 DEF Results
    <3>3. CacheOK(k[1], r) /\ r # None
      BY <1>2, <2>3 DEF CachesOK
    <3> HIDE DEF r, o
    <3> QED BY <3>1, <3>2, <3>3 DEF CacheOK
  <2> QED BY <2>2, <2>3
<1>4. cache' \in [Keys -> Results \cup {None}]
  <2>1. DOMAIN cache = Keys
    BY <1>2 DEF TypeOK
  <2> QED BY <1>1, <1>3, <2>1
<1>5. CachesOK'
  BY <1>3 DEF CachesOK
<1>6. ASSUME NEW k \in Walks
      PROVE  /\ Outdated(k) \in Walks
             /\ Outdated(k).filter = k.filter /\ Outdated(k).page = k.page
             /\ Outdated(k).rows = k.rows /\ Outdated(k).total = k.total
             /\ ~Outdated(k).torn => ~k.torn /\ ~Split(k)
  <2> DEFINE hasCome == k.came \/ came
             hasGone == k.went \/ went
             torn == k.torn \/ Split(k)
             old == k.old \/ k.rows # None
  <2>1. hasCome \in BOOLEAN /\ hasGone \in BOOLEAN /\ torn \in BOOLEAN /\ old \in BOOLEAN
    OBVIOUS
  <2>2. Outdated(k) \in Walks
    <3>1. Outdated(k) = [k EXCEPT !.came = hasCome, !.went = hasGone,
                                  !.torn = torn, !.old = old]
      OBVIOUS
    <3> HIDE DEF Outdated, hasCome, hasGone, torn, old
    <3> QED BY <2>1, <3>1 DEF Walks
  <2>3. /\ Outdated(k).filter = k.filter /\ Outdated(k).page = k.page
        /\ Outdated(k).rows = k.rows /\ Outdated(k).total = k.total
    BY DEF Walks
  <2>4. Outdated(k).torn = (k.torn \/ Split(k))
    <3> HIDE DEF Split
    <3> QED BY DEF Walks
  <2> QED BY <2>2, <2>3, <2>4
<1>7. ASSUME NEW k \in Walks, NEW c, NEW now, NEW then, WalkOK(c, k, now)
      PROVE  WalkOK(c, Outdated(k), then)
  <2> DEFINE o == Outdated(k)
  <2>1. /\ o.filter = k.filter /\ o.page = k.page /\ o.rows = k.rows
        /\ o.total = k.total /\ (~o.torn => ~k.torn /\ ~Split(k))
    BY <1>6
  <2> HIDE DEF o
  <2>2. WalkOK(c, o, then)
    BY <1>7, <2>1 DEF WalkOK
  <2> QED BY <2>2 DEF o
<1>8. ASSUME NEW w \in Walkers
      PROVE  walk'[w] \in Walks /\ \A then : WalkOK(pc[w], walk'[w], then)
  <2>1. walk[w] \in Walks /\ WalkOK(pc[w], walk[w], Total(walk[w].filter))
    BY <1>2 DEF TypeOK, WalksOK
  <2>2. CASE pc[w] = "idle"
    <3>1. walk'[w] = walk[w] /\ walk[w].rows = None /\ walk[w].total = None
      BY <1>1, <2>1, <2>2 DEF WalkOK
    <3> QED BY <2>1, <2>2, <3>1 DEF WalkOK
  <2>3. CASE pc[w] # "idle"
    <3>1. walk'[w] = Outdated(walk[w])
      BY <1>1, <2>3
    <3> HIDE DEF Outdated
    <3> QED BY <1>6, <1>7, <2>1, <3>1
  <2> QED BY <2>2, <2>3
<1> HIDE DEF Outdated, Split
<1>9. TypeOK'
  <2>1. walk' \in [Walkers -> Walks]
    BY <1>1, <1>8
  <2> QED BY <1>1, <1>2, <1>4, <2>1 DEF TypeOK
<1>10. WalksOK'
  BY <1>1, <1>8 DEF WalksOK
<1> QED BY <1>5, <1>9, <1>10 DEF IInv

LEMMA RegisterIInv ==
    ASSUME IInv, NEW u \in Users, NEW t \in Times, Register(u, t)
    PROVE  IInv'
<1>1. CollectionTypeOK
  BY DEF IInv, TypeOK
<1>2. /\ created' \in [Users -> Times \cup {0}]
      /\ created'[u] = t /\ t > 0
      /\ \A v \in Users \ {u} : created'[v] = created[v]
      /\ active' = active \cup {u}
  BY <1>1, MaxTimePositive
  DEF Register, Insert, CollectionTypeOK, Times, MaxTimePositive
<1>3. CollectionTypeOK'
  BY <1>1, <1>2 DEF CollectionTypeOK, Documents
<1> QED BY <1>3, OutdateIInv DEF Register

LEMMA DeactivateIInv ==
    ASSUME IInv, NEW u \in Users, Deactivate(u)
    PROVE  IInv'
<1>1. CollectionTypeOK'
  BY DEF IInv, TypeOK, Deactivate, SoftDelete, CollectionTypeOK, Documents
<1> QED BY <1>1, OutdateIInv DEF Deactivate

LEMMA EvictIInv ==
    ASSUME IInv, NEW k \in Keys, Evict(k)
    PROVE  IInv'
<1>1. /\ created' = created /\ active' = active /\ pc' = pc /\ walk' = walk
      /\ cache' = [cache EXCEPT ![k] = None]
      /\ TypeOK /\ CachesOK /\ WalksOK
  BY DEF Evict, IInv
<1>2. cache' \in [Keys -> Results \cup {None}]
  BY <1>1 DEF TypeOK
<1>3. CachesOK'
  BY <1>1 DEF TypeOK, CachesOK, CacheOK
<1>4. TypeOK'
  BY <1>1, <1>2 DEF TypeOK, CollectionTypeOK, Documents
<1>5. WalksOK'
  BY <1>1 DEF WalksOK, Total, Listed
<1> QED BY <1>3, <1>4, <1>5 DEF IInv

LEMMA StutterIInv ==
    ASSUME IInv, UNCHANGED vars
    PROVE  IInv'
<1>1. TypeOK'
  BY DEF IInv, vars, TypeOK, CollectionTypeOK, Documents
<1>2. CachesOK'
  BY DEF IInv, vars, CachesOK
<1>3. WalksOK'
  BY DEF IInv, vars, WalksOK, Total, Listed
<1> QED BY <1>1, <1>2, <1>3 DEF IInv

LEMMA NextIInv == IInv /\ [Next]_vars => IInv'
<1> SUFFICES ASSUME IInv, [Next]_vars PROVE IInv'
  OBVIOUS
<1>1. ASSUME NEW u \in Users, NEW t \in Times, Register(u, t) PROVE IInv'
  BY <1>1, RegisterIInv
<1>2. ASSUME NEW u \in Users, Deactivate(u) PROVE IInv'
  BY <1>2, DeactivateIInv
<1>3. ASSUME NEW k \in Keys, Evict(k) PROVE IInv'
  BY <1>3, EvictIInv
<1>4. ASSUME NEW w \in Walkers, Step(w) PROVE IInv'
  <2>1. ASSUME NEW filter \in Filters, Begin(w, filter) PROVE IInv'
    BY <2>1, BeginIInv
  <2>2. CASE CacheHit(w)
    BY <2>2, CacheHitIInv
  <2>3. CASE CacheMiss(w)
    BY <2>3, CacheMissIInv
  <2>4. CASE Find(w)
    BY <2>4, FindIInv
  <2>5. CASE Count(w)
    BY <2>5, CountIInv
  <2>6. CASE CacheSet(w)
    BY <2>6, CacheSetIInv
  <2>7. CASE CacheSetLost(w)
    BY <2>7, CacheSetLostIInv
  <2>8. CASE End(w)
    BY <2>8, EndIInv
  <2> QED BY <1>4, <2>1, <2>2, <2>3, <2>4, <2>5, <2>6, <2>7, <2>8 DEF Step
<1>5. CASE UNCHANGED vars
  BY <1>5, StutterIInv
<1> QED BY <1>1, <1>2, <1>3, <1>4, <1>5 DEF Next

THEOREM Invariant == Spec => []IInv
<1>1. Init => IInv
  BY InitIInv
<1>2. IInv /\ [Next]_vars => IInv'
  BY NextIInv
<1> QED BY <1>1, <1>2, PTL DEF Spec

-----------------------------------------------------------------------------
(* The variables have their types: in particular hasNextPage, of a result  *)
(* that may be outdated or torn, never sends a client past the last page   *)
(* there could be.                                                         *)
THEOREM TypeCorrect == Spec => []TypeOK
<1>1. IInv => TypeOK
  BY DEF IInv
<1> QED BY <1>1, Invariant, PTL

(* A page has the rows that its own totalDocs, page and limit announce,    *)
(* unless a write fell between findPaginated's two commands.               *)
THEOREM PagesFit == Spec => []CountMatchesRows
<1>1. IInv => CountMatchesRows
  <2> SUFFICES ASSUME IInv PROVE CountMatchesRows
    OBVIOUS
  <2>1. ASSUME NEW k \in Keys, cache[k] # None, ~cache[k].torn
        PROVE  Fits(k[1], cache[k])
    BY <2>1 DEF IInv, CachesOK, CacheOK, Fitting, Fits
  <2>2. ASSUME NEW w \in Walkers, Both(w), ~walk[w].torn
        PROVE  Fits(walk[w].page, Result(w))
    <3>1. Fitting(walk[w].page, walk[w].rows, walk[w].total)
      BY <2>2 DEF IInv, WalksOK, WalkOK, Both
    <3>2. Result(w).rows = walk[w].rows /\ Result(w).total = walk[w].total
      BY DEF Result
    <3> QED BY <3>1, <3>2 DEF Fits, Fitting
  <2> QED BY <2>1, <2>2 DEF CountMatchesRows
<1> QED BY <1>1, Invariant, PTL

-----------------------------------------------------------------------------
(* Walks.  Where a user stands in a list is how many come before it: among *)
(* users who were created at different times, a page is the users who      *)
(* stand between its first position and its last.  Deactivations only move *)
(* users to the front, and registrations to the back.                      *)

UpTo(filter, u) == {v \in Listed(filter) : created[v] >= created[u]}

Above(filter, u) == {v \in Listed(filter) : created[v] > created[u]}

(* No two documents of the lists of one key were created at the same time. *)
Untied(filter) ==
    \A u, v \in Documents :
        u # v /\ created[u] = created[v] =>
            {Role(u), Role(v), "all"} \cap {KeyRole(filter)} = {}

(* Of the filters with one key, the one that finds most: the other finds   *)
(* nobody.                                                                 *)
Widest(filter) == IF KeyRole(filter) = "all" THEN "none" ELSE filter

(* Results from after the last write are of the collection as it is. *)
EntryOK(key, r) ==
    r # None =>
        /\ KeyRole(r.filter) = key[2]
        /\ ~r.old => /\ IsPage(r.filter, key[1], r.rows)
                     /\ ~r.torn => r.total = Total(r.filter)

RowsOK(c, k) ==
    c = "query" /\ k.rows # None /\ ~k.old =>
        /\ IsPage(k.filter, k.page, k.rows)
        /\ k.total # None /\ ~k.torn => k.total = Total(k.filter)

(* Whom a client at c in its walk k was shown stands on the pages before,  *)
(* whom it is about to be shown, on this page or before.                   *)
Seen(c, k) ==
    /\ c = "idle" => ~k.twice
    /\ c # "idle" /\ ~k.came /\ ~k.anyOld /\ Untied(k.filter) =>
          /\ ~k.twice
          /\ c # "done" => \A u \in k.shown \cap Listed(Widest(k.filter)) :
                              Cardinality(UpTo(Widest(k.filter), u)) <= Skip(k.page)
          /\ c = "query" /\ k.rows # None =>
                /\ k.shown \cap k.rows = {}
                /\ \A u \in k.rows \cap Listed(Widest(k.filter)) :
                      Cardinality(UpTo(Widest(k.filter), u)) <= k.page * Limit

Rest(k) == (k.listed \cap active) \ k.shown

(* Whom it was not shown stands on this page or after, and so on. *)
Left(c, k) ==
    /\ c # "idle" => /\ k.listed \subseteq Documents
                     /\ \A u \in k.listed : k.filter \in {"none", Role(u)}
    /\ c # "idle" /\ ~k.went /\ ~k.anyOld /\ ~k.anyTorn /\ ~k.anyForeign
          /\ Untied(k.filter) =>
          /\ c # "done" => \A u \in Rest(k) : Cardinality(Above(k.filter, u)) >= Skip(k.page)
          /\ c = "query" /\ k.rows # None =>
                \A u \in Rest(k) \ k.rows :
                    Cardinality(Above(k.filter, u)) >= k.page * Limit
          /\ c = "query" /\ k.rows # None /\ k.total # None /\ ~k.torn =>
                (Rest(k) \ k.rows # {} => k.total > k.page * Limit)
          /\ c = "done" => Rest(k) = {}

Tracks(c, k) == RowsOK(c, k) /\ Seen(c, k) /\ Left(c, k)

EntriesOK == \A key \in Keys : EntryOK(key, cache[key])

TracksOK == \A w \in Walkers : Tracks(pc[w], walk[w])

TInv == IInv /\ EntriesOK /\ TracksOK

-----------------------------------------------------------------------------
(* Positions. *)

LEMMA PositionType ==
    ASSUME CollectionTypeOK, NEW filter, NEW u
    PROVE  /\ IsFiniteSet(Listed(filter))
           /\ UpTo(filter, u) \subseteq Listed(filter)
           /\ Above(filter, u) \subseteq Listed(filter)
           /\ Cardinality(UpTo(filter, u)) \in Nat
           /\ Cardinality(Above(filter, u)) \in Nat
           /\ u \in Listed(filter) => Cardinality(Above(filter, u)) < Total(filter)
<1>1. IsFiniteSet(Listed(filter))
  BY TotalType, UsersFinite, FS_Subset DEF UsersFinite
<1>2. UpTo(filter, u) \subseteq Listed(filter) /\ Above(filter, u) \subseteq Listed(filter)
  BY DEF UpTo, Above
<1>3. /\ Cardinality(UpTo(filter, u)) \in Nat
      /\ Cardinality(Above(filter, u)) \in Nat
      /\ Cardinality(Above(filter, u)) <= Total(filter)
      /\ Cardinality(Above(filter, u)) = Total(filter) => Above(filter, u) = Listed(filter)
  BY <1>1, <1>2, FS_Subset, FS_CardinalityType DEF Total
<1>4. u \in Listed(filter) => Above(filter, u) # Listed(filter)
  <2>1. u \in Listed(filter) => ~(created[u] > created[u])
    BY DEF CollectionTypeOK, Listed, Documents, Times
  <2> QED BY <2>1 DEF Above
<1>5. Total(filter) \in Nat
  BY TotalType
<1> QED BY <1>1, <1>2, <1>3, <1>4, <1>5

LEMMA PageEnds ==
    ASSUME NEW page \in Pages
    PROVE  /\ Skip(page) \in Nat /\ page * Limit \in Nat
           /\ Skip(page) + Limit = page * Limit
           /\ Skip(page + 1) = page * Limit
<1>1. page \in Nat \ {0} /\ Limit \in Nat \ {0}
  BY FirstPage, LimitPositive DEF LimitPositive
<1> QED BY <1>1 DEF Skip

(* Without a next page, all that was counted fits on the pages so far. *)
LEMMA LastPage ==
    ASSUME NEW page \in Pages, NEW total \in Nat, ~HasNextPage(page, total)
    PROVE  total <= page * Limit
<1>1. page \in Nat \ {0} /\ Limit \in Nat \ {0}
  BY FirstPage, LimitPositive DEF LimitPositive
<1> SUFFICES ASSUME total > page * Limit PROVE FALSE
  BY <1>1
<1>2. (page + 1) * Limit <= total + Limit - 1
  BY <1>1
<1>3. (total + Limit - 1) \div Limit >= page + 1
  <2> DEFINE n == total + Limit - 1
  <2>1. n \in Nat /\ (page + 1) * Limit <= n
    BY <1>1, <1>2
  <2> HIDE DEF n
  <2> QED BY <1>1, <2>1
<1> QED BY <1>1, <1>3, TotalPagesType DEF HasNextPage, TotalPages

(* The users of a page stand on it, and those who are not on it, and not   *)
(* before it, stand behind it.                                             *)
LEMMA PagePositions ==
    ASSUME CollectionTypeOK, NEW filter, NEW page \in Pages,
           NEW rows \in SUBSET Users, IsPage(filter, page, rows), Untied(filter)
    PROVE  /\ rows \subseteq Listed(filter)
           /\ \A u \in rows : /\ Cardinality(UpTo(filter, u)) <= page * Limit
                              /\ Cardinality(UpTo(filter, u)) > Skip(page)
           /\ \A u \in Listed(filter) \ rows :
                 Cardinality(Above(filter, u)) >= Skip(page) =>
                     Cardinality(Above(filter, u)) >= page * Limit
<1> DEFINE L == Listed(filter)
           s == Skip(page)
<1>1. PICK before \in SUBSET L :
         /\ Cardinality(before) = Least(s, Cardinality(L))
         /\ rows \subseteq L \ before
         /\ Cardinality(rows) = Least(Limit, Cardinality(L) - Cardinality(before))
         /\ \A u \in before, v \in L \ before : created[u] >= created[v]
         /\ \A u \in rows, v \in L \ (before \cup rows) : created[u] >= created[v]
  BY DEF IsPage
<1> DEFINE front == before \cup rows
<1>2. /\ s \in Nat /\ Limit \in Nat \ {0} /\ page * Limit = s + Limit
  BY PageEnds, LimitPositive DEF LimitPositive
<1>3. IsFiniteSet(L) /\ L \subseteq Documents /\ Cardinality(L) \in Nat
  BY PositionType, FS_CardinalityType DEF CollectionTypeOK, Listed
<1>4. /\ \A u \in L : created[u] \in Nat
      /\ \A u, v \in L : u # v => created[u] # created[v]
  <2>1. \A u \in L : created[u] \in Nat
    BY <1>3, MaxTimePositive DEF CollectionTypeOK, Documents, Times, MaxTimePositive
  <2>2. \A u \in L : filter \in {"none", Role(u)}
    BY DEF Listed
  <2>3. \A u \in L : KeyRole(filter) \in {"all", Role(u)}
    BY <2>2 DEF KeyRole, Role
  <2> QED BY <1>3, <2>1, <2>3 DEF Untied
<1>5. ASSUME NEW S \in SUBSET L
      PROVE  /\ IsFiniteSet(S) /\ Cardinality(S) \in Nat
             /\ Cardinality(S) <= Cardinality(L)
             /\ Cardinality(S) = Cardinality(L) => S = L
             /\ \A T \in SUBSET S : Cardinality(T) <= Cardinality(S)
  BY <1>3, FS_Subset, FS_CardinalityType
<1> HIDE DEF L, s
<1>6. /\ Cardinality(before) \in Nat /\ Cardinality(rows) \in Nat
      /\ Cardinality(front) = Cardinality(before) + Cardinality(rows)
      /\ front \in SUBSET L
  <2>1. before \cap rows = {} /\ rows \in SUBSET L
    BY <1>1
  <2>2. Cardinality(before \cap rows) = 0
    BY <2>1, FS_EmptySet
  <2>3. IsFiniteSet(before) /\ IsFiniteSet(rows)
    BY <1>5, <2>1
  <2>4. Cardinality(front) =
            Cardinality(before) + Cardinality(rows) - Cardinality(before \cap rows)
    BY <2>3, FS_Union
  <2>5. Cardinality(before) \in Nat /\ Cardinality(rows) \in Nat
    BY <1>5, <2>1
  <2> QED BY <2>1, <2>2, <2>4, <2>5
<1>7. Cardinality(front) <= page * Limit /\ Cardinality(before) <= s
  BY <1>1, <1>2, <1>3, <1>6 DEF Least
<1>8. front # L => Cardinality(front) = page * Limit /\ Cardinality(before) = s
  <2>1. front # L => Cardinality(front) < Cardinality(L)
    <3>1. Cardinality(front) <= Cardinality(L) /\ (Cardinality(front) = Cardinality(L) => front = L)
      BY <1>5, <1>6
    <3> QED BY <1>3, <1>6, <3>1
  <2> QED BY <1>1, <1>2, <1>3, <1>6, <2>1 DEF Least
<1>9. rows # {} => Cardinality(before) = s
  <2>1. rows # {} => Cardinality(rows) # 0
    BY <1>1, <1>5, FS_EmptySet
  <2> QED BY <1>1, <1>2, <1>3, <1>6, <2>1 DEF Least
<1>10. ASSUME NEW u \in rows
       PROVE  /\ Cardinality(UpTo(filter, u)) <= page * Limit
              /\ Cardinality(UpTo(filter, u)) > s
  <2>1. u \in L /\ u \notin before
    BY <1>1
  <2>2. UpTo(filter, u) \subseteq front
    <3>1. ASSUME NEW v \in L \ front PROVE ~(created[v] >= created[u])
      <4>1. created[u] >= created[v] /\ u # v
        BY <1>1
      <4> QED BY <1>4, <2>1, <4>1
    <3> QED BY <3>1 DEF UpTo, L
  <2>3. before \cup {u} \subseteq UpTo(filter, u)
    <3>1. \A v \in before : v \in L /\ created[v] >= created[u]
      BY <1>1, <2>1
    <3> QED BY <1>4, <2>1, <3>1 DEF UpTo, L
  <2>4. Cardinality(before \cup {u}) = s + 1
    <3>1. IsFiniteSet(before) /\ Cardinality(before) = s
      BY <1>5, <1>9
    <3> QED BY <2>1, <3>1, FS_AddElement
  <2>5. UpTo(filter, u) \in SUBSET L /\ front \in SUBSET L
    BY <1>6 DEF UpTo, L
  <2>6. /\ Cardinality(UpTo(filter, u)) <= Cardinality(front)
        /\ Cardinality(before \cup {u}) <= Cardinality(UpTo(filter, u))
        /\ Cardinality(UpTo(filter, u)) \in Nat
    BY <1>5, <2>2, <2>3, <2>5
  <2> QED BY <1>2, <1>6, <1>7, <2>4, <2>6
<1>11. ASSUME NEW u \in L \ rows, Cardinality(Above(filter, u)) >= s
       PROVE  Cardinality(Above(filter, u)) >= page * Limit
  <2>1. Above(filter, u) \in SUBSET L /\ Cardinality(Above(filter, u)) \in Nat
    BY PositionType DEF L
  <2>2. u \notin before
    <3> SUFFICES ASSUME u \in before PROVE FALSE
      OBVIOUS
    <3>1. Above(filter, u) \subseteq before \ {u}
      <4>1. ASSUME NEW v \in L, created[v] > created[u] PROVE v \in before \ {u}
        BY <1>1, <1>4, <4>1
      <4> QED BY <4>1 DEF Above, L
    <3>2. IsFiniteSet(before)
      BY <1>5
    <3>3. Cardinality(before \ {u}) = Cardinality(before) - 1
      BY <3>2, FS_RemoveElement
    <3>4. Cardinality(Above(filter, u)) <= Cardinality(before \ {u})
      <4>1. before \ {u} \in SUBSET L
        OBVIOUS
      <4> QED BY <1>5, <3>1, <4>1
    <3> QED BY <1>2, <1>6, <1>7, <1>11, <2>1, <3>3, <3>4
  <2>3. front # L
    BY <2>2
  <2>4. front \subseteq Above(filter, u)
    <3>1. ASSUME NEW v \in front PROVE created[v] > created[u]
      <4>1. created[v] >= created[u] /\ v # u /\ v \in L
        BY <1>1, <2>2, <3>1
      <4> QED BY <1>4, <4>1
    <3> QED BY <1>6, <3>1 DEF Above, L
  <2>5. Cardinality(front) <= Cardinality(Above(filter, u))
    BY <1>5, <2>1, <2>4
  <2> QED BY <1>8, <2>3, <2>5
<1> QED BY <1>1, <1>10, <1>11 DEF L, s

(* The users of a page stand on it in the widest list with its key too.    *)
LEMMA WidestPositions ==
    ASSUME CollectionTypeOK, NEW filter, NEW page \in Pages,
           NEW rows \in SUBSET Users, IsPage(filter, page, rows), Untied(filter)
    PROVE  LET w == Widest(filter)
           IN  /\ rows \subseteq Listed(w)
               /\ \A u \in rows : /\ Cardinality(UpTo(w, u)) <= page * Limit
                                  /\ Cardinality(UpTo(w, u)) > Skip(page)
<1>1. CASE filter = "all"
  <2>1. Listed(filter) = {}
    BY <1>1 DEF Listed, Role
  <2>2. rows = {}
    BY <2>1, PagePositions
  <2> QED BY <2>2
<1>2. CASE filter # "all"
  <2>1. Widest(filter) = filter
    BY <1>2 DEF Widest, KeyRole
  <2> QED BY <2>1, PagePositions
<1> QED BY <1>1, <1>2

-----------------------------------------------------------------------------
(* What a step of client w finds of the walks. *)
LEMMA HereTracked ==
    ASSUME TInv, NEW w \in Walkers
    PROVE  /\ CollectionTypeOK
           /\ walk[w] \in Walks
           /\ walk[w].page \in Pages
           /\ pc[w] # "idle" => walk[w].filter \in Filters
           /\ Tracks(pc[w], walk[w])
<1>1. walk[w] \in Walks /\ CollectionTypeOK /\ WalkOK(pc[w], walk[w], Total(walk[w].filter))
  BY Here DEF TInv, TypeOK
<1>2. walk[w].page \in Pages
  BY <1>1 DEF Walks
<1>3. pc[w] # "idle" => walk[w].filter \in Filters
  BY <1>1 DEF WalkOK
<1>4. Tracks(pc[w], walk[w])
  BY DEF TInv, TracksOK
<1> QED BY <1>1, <1>2, <1>3, <1>4

(* A client goes to c with the walk k, and no document changes. *)
LEMMA TrackStep ==
    ASSUME TInv, NEW w \in Walkers, NEW c, NEW k,
           created' = created, active' = active,
           pc' = [pc EXCEPT ![w] = c],
           walk' = [walk EXCEPT ![w] = k],
           Tracks(c, k)
    PROVE  TracksOK'
<1>1. pc \in [Walkers -> {"idle", "get", "query", "done"}] /\ walk \in [Walkers -> Walks]
  BY DEF TInv, IInv, TypeOK
<1>2. ASSUME NEW v \in Walkers
      PROVE  Tracks(pc'[v], walk'[v])
  <2>1. CASE v = w
    BY <1>1, <2>1
  <2>2. CASE v # w
    <3>1. pc'[v] = pc[v] /\ walk'[v] = walk[v]
      BY <1>1, <2>2
    <3> QED BY <3>1 DEF TInv, TracksOK
  <2> QED BY <2>1, <2>2
<1>3. ASSUME NEW v \in Walkers
      PROVE  Tracks(pc[v], walk[v])'
  <2> DEFINE f == walk[v].filter
  <2>1. Documents' = Documents /\ (active' = active) /\ \A g : Listed(g)' = Listed(g)
    BY DEF Documents, Listed
  <2>2. Listed(f)' = Listed(walk'[v].filter) /\ Total(f)' = Total(walk'[v].filter)
    BY DEF Listed, Total
  <2>3. Untied(f)' <=> Untied(walk'[v].filter)
    BY <2>1 DEF Untied
  <2>4. /\ \A u : Above(f, u)' = Above(walk'[v].filter, u)
        /\ Listed(Widest(f))' = Listed(Widest(walk'[v].filter))
        /\ \A u : UpTo(Widest(f), u)' = UpTo(Widest(walk'[v].filter), u)
    BY <2>2 DEF UpTo, Above, Listed, Widest
  <2>5. IsPage(f, walk[v].page, walk[v].rows)'
            <=> IsPage(walk'[v].filter, walk'[v].page, walk'[v].rows)
    BY <2>2 DEF IsPage
  <2>6. Rest(walk[v])' = Rest(walk'[v])
    BY DEF Rest
  <2>7. RowsOK(pc[v], walk[v])'
    BY <1>2, <2>2, <2>5 DEF Tracks, RowsOK
  <2>8. Seen(pc[v], walk[v])'
    BY <1>2, <2>2, <2>3, <2>4 DEF Tracks, Seen
  <2>9. Left(pc[v], walk[v])'
    BY <1>2, <2>1, <2>3, <2>4, <2>6 DEF Tracks, Left
  <2> QED BY <2>7, <2>8, <2>9 DEF Tracks
<1> QED BY <1>3 DEF TracksOK

LEMMA EntriesSame ==
    ASSUME EntriesOK, created' = created, active' = active, cache' = cache
    PROVE  EntriesOK'
<1>1. \A f : Listed(f)' = Listed(f) /\ Total(f)' = Total(f)
  BY DEF Listed, Total
<1>2. \A f, page, rows : IsPage(f, page, rows)' <=> IsPage(f, page, rows)
  BY <1>1 DEF IsPage
<1> QED BY <1>1, <1>2 DEF EntriesOK, EntryOK

(* What a result must be for a walk to go on from it. *)
Answers(k, r, isOld) ==
    /\ ~k.came /\ ~k.anyOld /\ ~isOld /\ Untied(k.filter) =>
          /\ k.shown \cap r.rows = {}
          /\ \A u \in r.rows \cap Listed(Widest(k.filter)) :
                Cardinality(UpTo(Widest(k.filter), u)) <= k.page * Limit
    /\ ~k.went /\ ~k.anyOld /\ ~isOld /\ ~k.anyTorn /\ ~r.torn
          /\ ~k.anyForeign /\ r.filter = k.filter /\ Untied(k.filter) =>
          /\ \A u \in Rest(k) \ r.rows : Cardinality(Above(k.filter, u)) >= k.page * Limit
          /\ Rest(k) \ r.rows # {} => r.total > k.page * Limit

LEMMA AnswerTracks ==
    ASSUME TInv, NEW w \in Walkers, NEW r \in Results, NEW isOld \in BOOLEAN,
           pc[w] \in {"get", "query"}, created' = created, active' = active,
           Answers(walk[w], r, isOld), Answer(w, r, isOld)
    PROVE  TracksOK'
<1> DEFINE j == walk[w]
           more == HasNextPage(j.page, r.total)
           page == IF more THEN j.page + 1 ELSE j.page
           shown == j.shown \cup r.rows
           twice == j.twice \/ j.shown \cap r.rows # {}
           anyTorn == j.anyTorn \/ r.torn
           anyOld == j.anyOld \/ isOld
           anyForeign == j.anyForeign \/ r.filter # j.filter
           c == IF more THEN "get" ELSE "done"
           k == [j EXCEPT !.page = page, !.rows = None, !.total = None,
                          !.torn = FALSE, !.old = FALSE, !.shown = shown,
                          !.twice = twice, !.anyTorn = anyTorn, !.anyOld = anyOld,
                          !.anyForeign = anyForeign]
<1>1. walk' = [walk EXCEPT ![w] = k] /\ pc' = [pc EXCEPT ![w] = c]
  BY DEF Answer
<1>2. /\ CollectionTypeOK /\ j \in Walks /\ j.page \in Pages
      /\ Seen(pc[w], j) /\ Left(pc[w], j)
  BY HereTracked DEF Tracks
<1>3. /\ k.page = page /\ k.shown = shown /\ k.twice = twice
      /\ k.anyTorn = anyTorn /\ k.anyOld = anyOld /\ k.anyForeign = anyForeign
      /\ k.filter = j.filter /\ k.came = j.came /\ k.went = j.went
      /\ k.listed = j.listed
  <2> HIDE DEF page, shown, twice, anyTorn, anyOld, anyForeign
  <2> QED BY <1>2 DEF Walks
<1>4. /\ Skip(j.page) \in Nat /\ j.page * Limit \in Nat /\ Skip(j.page) <= j.page * Limit
      /\ more => Skip(page) = j.page * Limit
      /\ ~more => r.total <= j.page * Limit
  <2>1. r.total \in Nat
    BY DEF Results
  <2>2. Skip(j.page) + Limit = j.page * Limit /\ Limit \in Nat
    BY <1>2, PageEnds, LimitPositive DEF LimitPositive
  <2> QED BY <1>2, <2>1, <2>2, PageEnds, LastPage
<1>5. /\ more => c = "get"
      /\ ~more => c = "done"
  OBVIOUS
<1> HIDE DEF more, page, twice, anyTorn, anyOld, anyForeign, c, k
<1>6. RowsOK(c, k)
  BY <1>5 DEF RowsOK
<1>7. Seen(c, k)
  <2> SUFFICES ASSUME ~k.came, ~k.anyOld, Untied(k.filter)
               PROVE  /\ ~k.twice
                      /\ c # "done" => \A u \in k.shown \cap Listed(Widest(k.filter)) :
                                          Cardinality(UpTo(Widest(k.filter), u)) <= Skip(k.page)
    BY <1>5 DEF Seen
  <2>1. ~j.came /\ ~j.anyOld /\ ~isOld /\ Untied(j.filter)
    BY <1>3 DEF anyOld
  <2>2. /\ ~j.twice
        /\ \A u \in j.shown \cap Listed(Widest(j.filter)) :
              Cardinality(UpTo(Widest(j.filter), u)) <= Skip(j.page)
    BY <1>2, <2>1 DEF Seen
  <2>3. /\ j.shown \cap r.rows = {}
        /\ \A u \in r.rows \cap Listed(Widest(j.filter)) :
              Cardinality(UpTo(Widest(j.filter), u)) <= j.page * Limit
    BY <2>1 DEF Answers
  <2>4. ~k.twice
    BY <1>3, <2>2, <2>3 DEF twice
  <2>5. ASSUME c # "done", NEW u \in k.shown \cap Listed(Widest(k.filter))
        PROVE  Cardinality(UpTo(Widest(k.filter), u)) <= Skip(k.page)
    <3>1. u \in j.shown \cap Listed(Widest(j.filter)) \/ u \in r.rows \cap Listed(Widest(j.filter))
      BY <1>3, <2>5
    <3>2. Cardinality(UpTo(Widest(j.filter), u)) \in Nat
      BY <1>2, PositionType
    <3>3. Cardinality(UpTo(Widest(j.filter), u)) <= j.page * Limit
      BY <1>4, <2>2, <2>3, <3>1, <3>2
    <3>4. Skip(k.page) = j.page * Limit
      BY <1>3, <1>4, <1>5, <2>5
    <3> QED BY <1>3, <3>3, <3>4
  <2> QED BY <2>4, <2>5
<1>8. Left(c, k)
  <2>1. /\ k.listed \subseteq Documents
        /\ \A u \in k.listed : k.filter \in {"none", Role(u)}
    BY <1>2, <1>3 DEF Left
  <2>2. ASSUME ~k.went, ~k.anyOld, ~k.anyTorn, ~k.anyForeign, Untied(k.filter)
        PROVE  /\ c # "done" => \A u \in Rest(k) : Cardinality(Above(k.filter, u)) >= Skip(k.page)
               /\ c = "done" => Rest(k) = {}
    <3>1. /\ ~j.went /\ ~j.anyOld /\ ~isOld /\ ~j.anyTorn /\ ~r.torn
          /\ ~j.anyForeign /\ r.filter = j.filter /\ Untied(j.filter)
      BY <1>3, <2>2 DEF anyOld, anyTorn, anyForeign
    <3>2. /\ \A u \in Rest(j) \ r.rows : Cardinality(Above(j.filter, u)) >= j.page * Limit
          /\ Rest(j) \ r.rows # {} => r.total > j.page * Limit
      BY <3>1 DEF Answers
    <3>3. Rest(k) = Rest(j) \ r.rows
      BY <1>3 DEF Rest
    <3>4. r.total \in Nat
      BY DEF Results
    <3> QED BY <1>3, <1>4, <1>5, <3>2, <3>3, <3>4
  <2> QED BY <1>5, <2>1, <2>2 DEF Left
<1> QED BY <1>1, <1>6, <1>7, <1>8, TrackStep DEF Tracks

(* A page of the collection as it is shows nobody again, and whom it does  *)
(* not show stands behind it, if it is of the filter of the walk.          *)
LEMMA PageGoesOn ==
    ASSUME TInv, NEW w \in Walkers, NEW filter, NEW rows \in SUBSET Users,
           pc[w] \in {"get", "query"}, KeyRole(filter) = KeyRole(walk[w].filter),
           IsPage(filter, walk[w].page, rows), Untied(walk[w].filter)
    PROVE  LET k == walk[w]
               f == Widest(k.filter)
           IN  /\ ~k.came /\ ~k.anyOld =>
                     /\ k.shown \cap rows = {}
                     /\ \A u \in rows : Cardinality(UpTo(f, u)) <= k.page * Limit
               /\ ~k.went /\ ~k.anyOld /\ ~k.anyTorn /\ ~k.anyForeign
                     /\ filter = k.filter =>
                     /\ \A u \in Rest(k) \ rows :
                           Cardinality(Above(k.filter, u)) >= k.page * Limit
                     /\ Rest(k) \ rows # {} => Total(k.filter) > k.page * Limit
<1> DEFINE k == walk[w]
           f == Widest(k.filter)
<1>1. /\ CollectionTypeOK /\ k.page \in Pages
      /\ Seen(pc[w], k) /\ Left(pc[w], k)
  BY HereTracked DEF Tracks
<1>2. Untied(filter) /\ Widest(filter) = f
  <2>1. Untied(filter)
    BY DEF Untied
  <2>2. Widest(filter) = f
    BY DEF Widest, KeyRole
  <2> QED BY <2>1, <2>2
<1>3. /\ rows \subseteq Listed(f)
      /\ \A u \in rows : /\ Cardinality(UpTo(f, u)) <= k.page * Limit
                         /\ Cardinality(UpTo(f, u)) > Skip(k.page)
  <2> HIDE DEF f
  <2> QED BY <1>1, <1>2, WidestPositions
<1>4. Skip(k.page) \in Nat /\ k.page * Limit \in Nat /\ Total(k.filter) \in Nat
  BY <1>1, PageEnds, TotalType
<1>5. ASSUME ~k.came, ~k.anyOld PROVE k.shown \cap rows = {}
  <2>1. \A u \in k.shown \cap Listed(f) : Cardinality(UpTo(f, u)) <= Skip(k.page)
    BY <1>1, <1>5 DEF Seen
  <2>2. \A u : Cardinality(UpTo(f, u)) \in Nat
    BY <1>1, PositionType
  <2> HIDE DEF f
  <2> QED BY <1>3, <1>4, <2>1, <2>2
<1>6. ASSUME ~k.went, ~k.anyOld, ~k.anyTorn, ~k.anyForeign, filter = k.filter,
             NEW u \in Rest(k) \ rows
      PROVE  /\ Cardinality(Above(k.filter, u)) >= k.page * Limit
             /\ Total(k.filter) > k.page * Limit
  <2>1. \A v \in Rest(k) : Cardinality(Above(k.filter, v)) >= Skip(k.page)
    BY <1>1, <1>6 DEF Left
  <2>2. u \in Listed(k.filter)
    BY <1>1 DEF Left, Rest, Listed
  <2>3. /\ Cardinality(Above(k.filter, u)) \in Nat
        /\ Cardinality(Above(k.filter, u)) < Total(k.filter)
    BY <1>1, <2>2, PositionType
  <2>4. Cardinality(Above(k.filter, u)) >= k.page * Limit
    BY <1>1, <1>2, <1>6, <2>1, <2>2, PagePositions
  <2> QED BY <1>4, <2>3, <2>4
<1> QED BY <1>3, <1>5, <1>6

LEMMA CacheHitTracks ==
    ASSUME TInv, NEW w \in Walkers, CacheHit(w)
    PROVE  EntriesOK' /\ TracksOK'
<1> DEFINE r == cache[Key(w)]
<1>1. /\ pc[w] = "get" /\ r # None /\ Answer(w, r, r.old)
      /\ created' = created /\ active' = active /\ cache' = cache
  BY DEF CacheHit
<1>2. walk[w].filter \in Filters /\ walk[w].page \in Pages
  BY <1>1, HereTracked
<1>3. /\ Key(w) \in Keys
      /\ Key(w)[1] = walk[w].page /\ Key(w)[2] = KeyRole(walk[w].filter)
  BY <1>2 DEF Key, Keys
<1>4. r \in Results /\ EntryOK(Key(w), r)
  BY <1>1, <1>3, Here DEF TInv, EntriesOK
<1>5. r.old \in BOOLEAN /\ r.rows \in SUBSET Users
  BY <1>4 DEF Results
<1>6. /\ KeyRole(r.filter) = KeyRole(walk[w].filter)
      /\ ~r.old => /\ IsPage(r.filter, walk[w].page, r.rows)
                   /\ ~r.torn => r.total = Total(r.filter)
  BY <1>1, <1>3, <1>4 DEF EntryOK
<1> HIDE DEF r
<1>7. Answers(walk[w], r, r.old)
  BY <1>1, <1>5, <1>6, PageGoesOn DEF Answers
<1>8. TracksOK'
  BY <1>1, <1>4, <1>5, <1>7, AnswerTracks
<1> QED BY <1>1, <1>8, EntriesSame DEF TInv

LEMMA ResultAnswers ==
    ASSUME TInv, NEW w \in Walkers, Both(w)
    PROVE  /\ Result(w) \in Results /\ pc[w] = "query"
           /\ Answers(walk[w], Result(w), FALSE)
           /\ Key(w) \in Keys
           /\ EntryOK(Key(w), Result(w))
<1>1. Result(w) \in Results /\ pc[w] = "query" /\ Key(w) \in Keys
  BY ResultType DEF TInv
<1>2. walk[w].rows # None /\ walk[w].total # None
  BY DEF Both
<1>3. /\ Result(w).rows = walk[w].rows /\ Result(w).total = walk[w].total
      /\ Result(w).torn = walk[w].torn /\ Result(w).old = walk[w].old
      /\ Result(w).filter = walk[w].filter
  BY DEF Result
<1>4. RowsOK("query", walk[w]) /\ Seen("query", walk[w]) /\ Left("query", walk[w])
  BY <1>1, HereTracked DEF Tracks
<1>5. Answers(walk[w], Result(w), FALSE)
  BY <1>2, <1>3, <1>4 DEF Answers, Seen, Left
<1>6. EntryOK(Key(w), Result(w))
  BY <1>2, <1>3, <1>4 DEF EntryOK, RowsOK, Key
<1> QED BY <1>1, <1>5, <1>6

LEMMA CacheSetTracks ==
    ASSUME TInv, NEW w \in Walkers, CacheSet(w)
    PROVE  EntriesOK' /\ TracksOK'
<1>1. /\ Both(w) /\ Answer(w, Result(w), FALSE)
      /\ created' = created /\ active' = active
      /\ cache' = [cache EXCEPT ![Key(w)] = Result(w)]
  BY DEF CacheSet
<1>2. cache \in [Keys -> Results \cup {None}] /\ EntriesOK
  BY Here DEF TInv
<1>3. ASSUME NEW key \in Keys PROVE EntryOK(key, cache'[key])
  <2>1. CASE key = Key(w)
    BY <1>1, <1>2, <2>1, ResultAnswers
  <2>2. CASE key # Key(w)
    <3>1. cache'[key] = cache[key]
      BY <1>1, <1>2, <2>2
    <3> QED BY <1>2, <3>1 DEF EntriesOK
  <2> QED BY <2>1, <2>2
<1>4. \A f : Listed(f)' = Listed(f) /\ Total(f)' = Total(f)
  BY <1>1 DEF Listed, Total
<1>5. ASSUME NEW key \in Keys PROVE EntryOK(key, cache[key])'
  <2>1. IsPage(cache[key].filter, key[1], cache[key].rows)'
            <=> IsPage(cache'[key].filter, key[1], cache'[key].rows)
    BY <1>1, <1>4 DEF IsPage
  <2> QED BY <1>3, <1>4, <2>1 DEF EntryOK
<1>6. EntriesOK'
  BY <1>5 DEF EntriesOK
<1> QED BY <1>1, <1>6, ResultAnswers, AnswerTracks

LEMMA CacheSetLostTracks ==
    ASSUME TInv, NEW w \in Walkers, CacheSetLost(w)
    PROVE  EntriesOK' /\ TracksOK'
<1>1. /\ Both(w) /\ Answer(w, Result(w), FALSE)
      /\ created' = created /\ active' = active /\ cache' = cache
  BY DEF CacheSetLost
<1>2. TracksOK'
  BY <1>1, ResultAnswers, AnswerTracks
<1> QED BY <1>1, <1>2, EntriesSame DEF TInv

LEMMA BeginTracks ==
    ASSUME TInv, NEW w \in Walkers, NEW filter \in Filters, Begin(w, filter)
    PROVE  EntriesOK' /\ TracksOK'
<1> DEFINE k == [NoWalk EXCEPT !.filter = filter, !.listed = Listed(filter)]
<1>1. /\ created' = created /\ active' = active /\ cache' = cache
      /\ pc' = [pc EXCEPT ![w] = "get"] /\ walk' = [walk EXCEPT ![w] = k]
  BY DEF Begin
<1>2. /\ k.filter = filter /\ k.listed = Listed(filter) /\ k.page = 1 /\ k.shown = {}
      /\ ~k.twice
  BY DEF NoWalk
<1>3. CollectionTypeOK
  BY HereTracked
<1> HIDE DEF k
<1>4. RowsOK("get", k)
  BY DEF RowsOK
<1>5. Seen("get", k)
  BY <1>2 DEF Seen
<1>6. Left("get", k)
  <2>1. Listed(filter) \subseteq Documents /\ \A u \in Listed(filter) : filter \in {"none", Role(u)}
    BY <1>3 DEF Listed, CollectionTypeOK
  <2>2. Skip(1) = 0
    BY LimitPositive DEF Skip, LimitPositive
  <2>3. \A u : Cardinality(Above(filter, u)) >= 0
    BY <1>3, PositionType
  <2> QED BY <1>2, <2>1, <2>2, <2>3 DEF Left
<1>7. TracksOK'
  BY <1>1, <1>4, <1>5, <1>6, TrackStep DEF Tracks
<1> QED BY <1>1, <1>7, EntriesSame DEF TInv

LEMMA CacheMissTracks ==
    ASSUME TInv, NEW w \in Walkers, CacheMiss(w)
    PROVE  EntriesOK' /\ TracksOK'
<1>1. /\ pc[w] = "get" /\ created' = created /\ active' = active /\ cache' = cache
      /\ pc' = [pc EXCEPT ![w] = "query"] /\ walk' = walk
  BY DEF CacheMiss
<1>2. walk' = [walk EXCEPT ![w] = walk[w]]
  BY <1>1, Here DEF TInv, TypeOK
<1>3. walk[w].rows = None
  BY <1>1, Here DEF TInv, WalkOK
<1>4. Tracks("query", walk[w])
  BY <1>1, <1>3, HereTracked DEF Tracks, RowsOK, Seen, Left
<1>5. TracksOK'
  BY <1>1, <1>2, <1>4, TrackStep
<1> QED BY <1>1, <1>5, EntriesSame DEF TInv

LEMMA FindTracks ==
    ASSUME TInv, NEW w \in Walkers, Find(w)
    PROVE  EntriesOK' /\ TracksOK'
<1>1. /\ pc[w] = "query" /\ walk[w].rows = None
      /\ created' = created /\ active' = active /\ cache' = cache /\ pc' = pc
  BY DEF Find
<1>2. PICK rows \in SUBSET Users :
         /\ IsPage(walk[w].filter, walk[w].page, rows)
         /\ walk' = [walk EXCEPT ![w].rows = rows]
  BY DEF Find
<1> DEFINE j == walk[w]
           k == [j EXCEPT !.rows = rows]
<1>3. walk' = [walk EXCEPT ![w] = k] /\ pc' = [pc EXCEPT ![w] = "query"]
  BY <1>1, <1>2, Here DEF TInv, TypeOK
<1>4. /\ j \in Walks /\ Seen("query", j) /\ Left("query", j)
      /\ WalkOK("query", j, Total(j.filter))
  BY <1>1, HereTracked, Here DEF TInv, Tracks
<1>5. /\ k.rows = rows /\ k.total = j.total /\ k.filter = j.filter /\ k.page = j.page
      /\ k.torn = j.torn /\ k.shown = j.shown /\ k.twice = j.twice
      /\ k.came = j.came /\ k.went = j.went /\ k.listed = j.listed
      /\ k.anyOld = j.anyOld /\ k.anyTorn = j.anyTorn /\ k.anyForeign = j.anyForeign
  BY <1>4 DEF Walks
<1>6. k.total # None /\ ~k.torn => k.total = Total(k.filter)
  BY <1>1, <1>4, <1>5 DEF WalkOK
<1>7. Rest(k) = Rest(j)
  BY <1>5 DEF Rest
<1> HIDE DEF k
<1>8. RowsOK("query", k)
  BY <1>2, <1>5, <1>6 DEF RowsOK
<1>9. Seen("query", k)
  BY <1>1, <1>2, <1>4, <1>5, PageGoesOn DEF Seen
<1>10. Left("query", k)
  BY <1>1, <1>2, <1>4, <1>5, <1>6, <1>7, PageGoesOn DEF Left
<1>11. TracksOK'
  BY <1>1, <1>3, <1>8, <1>9, <1>10, TrackStep DEF Tracks
<1> QED BY <1>1, <1>11, EntriesSame DEF TInv

LEMMA CountTracks ==
    ASSUME TInv, NEW w \in Walkers, Count(w)
    PROVE  EntriesOK' /\ TracksOK'
<1> DEFINE j == walk[w]
           k == [j EXCEPT !.total = Total(j.filter)]
<1>1. /\ pc[w] = "query" /\ created' = created /\ active' = active
      /\ cache' = cache /\ pc' = pc /\ walk' = [walk EXCEPT ![w] = k]
  BY Here DEF Count, TInv, TypeOK
<1>2. pc' = [pc EXCEPT ![w] = "query"]
  BY <1>1, Here DEF TInv, TypeOK
<1>3. /\ j \in Walks /\ RowsOK("query", j) /\ Seen("query", j) /\ Left("query", j)
      /\ CollectionTypeOK /\ j.page \in Pages
  BY <1>1, HereTracked DEF Tracks
<1>4. /\ k.total = Total(j.filter) /\ k.rows = j.rows /\ k.filter = j.filter
      /\ k.page = j.page /\ k.torn = j.torn /\ k.old = j.old
      /\ k.shown = j.shown /\ k.twice = j.twice
      /\ k.came = j.came /\ k.went = j.went /\ k.listed = j.listed
      /\ k.anyOld = j.anyOld /\ k.anyTorn = j.anyTorn /\ k.anyForeign = j.anyForeign
  BY <1>3 DEF Walks
<1>5. Rest(k) = Rest(j)
  BY <1>4 DEF Rest
<1>6. ASSUME NEW u \in Rest(j), Cardinality(Above(j.filter, u)) >= j.page * Limit
      PROVE  Total(j.filter) > j.page * Limit
  <2>1. u \in Listed(j.filter)
    BY <1>3 DEF Left, Rest, Listed
  <2>2. Cardinality(Above(j.filter, u)) < Total(j.filter)
    BY <1>3, <2>1, PositionType
  <2>3. /\ Cardinality(Above(j.filter, u)) \in Nat /\ Total(j.filter) \in Nat
        /\ j.page * Limit \in Nat
    BY <1>3, PositionType, TotalType, PageEnds
  <2> QED BY <1>6, <2>2, <2>3
<1> HIDE DEF k
<1>7. RowsOK("query", k)
  BY <1>3, <1>4 DEF RowsOK
<1>8. Seen("query", k)
  BY <1>3, <1>4 DEF Seen
<1>9. Left("query", k)
  BY <1>3, <1>4, <1>5, <1>6 DEF Left
<1>10. TracksOK'
  BY <1>1, <1>2, <1>7, <1>8, <1>9, TrackStep DEF Tracks
<1> QED BY <1>1, <1>10, EntriesSame DEF TInv

LEMMA EndTracks ==
    ASSUME TInv, NEW w \in Walkers, End(w)
    PROVE  EntriesOK' /\ TracksOK'
<1>1. /\ created' = created /\ active' = active /\ cache' = cache
      /\ pc' = [pc EXCEPT ![w] = "idle"] /\ walk' = [walk EXCEPT ![w] = NoWalk]
  BY DEF End
<1>2. Tracks("idle", NoWalk)
  BY DEF Tracks, RowsOK, Seen, Left, NoWalk
<1>3. TracksOK'
  BY <1>1, <1>2, TrackStep
<1> QED BY <1>1, <1>3, EntriesSame DEF TInv

(* A write outdates the cached pages, and what the clients have of theirs. *)
LEMMA OutdateEntries ==
    ASSUME TInv, NEW came, NEW went, Outdate(came, went)
    PROVE  EntriesOK'
<1>1. /\ cache' = [k \in DOMAIN cache |->
                      IF cache[k] = None THEN None ELSE [cache[k] EXCEPT !.old = TRUE]]
      /\ cache \in [Keys -> Results \cup {None}]
  BY DEF Outdate, TInv, IInv, TypeOK
<1>2. ASSUME NEW key \in Keys, cache'[key] # None
      PROVE  cache'[key].old /\ KeyRole(cache'[key].filter) = key[2]
  <2>1. /\ cache[key] # None /\ cache[key] \in Results
        /\ cache'[key] = [cache[key] EXCEPT !.old = TRUE]
    BY <1>1, <1>2
  <2>2. cache'[key].old /\ cache'[key].filter = cache[key].filter
    BY <2>1 DEF Results
  <2> QED BY <2>1, <2>2 DEF TInv, EntriesOK, EntryOK
<1> QED BY <1>2 DEF EntriesOK, EntryOK

(* What a write makes of the walk j. *)
Outdates(j, k, came, went) ==
    /\ k.filter = j.filter /\ k.page = j.page /\ k.rows = j.rows /\ k.total = j.total
    /\ k.shown = j.shown /\ k.twice = j.twice /\ k.listed = j.listed
    /\ k.anyTorn = j.anyTorn /\ k.anyOld = j.anyOld /\ k.anyForeign = j.anyForeign
    /\ ~k.came => ~j.came /\ ~came
    /\ ~k.went => ~j.went /\ ~went
    /\ ~k.torn => ~j.torn
    /\ k.rows # None => k.old

LEMMA OutdateWalk ==
    ASSUME TInv, NEW w \in Walkers, NEW came \in BOOLEAN, NEW went \in BOOLEAN,
           Outdate(came, went)
    PROVE  /\ pc'[w] = pc[w]
           /\ pc[w] = "idle" => walk'[w] = walk[w]
           /\ pc[w] # "idle" => Outdates(walk[w], walk'[w], came, went)
<1> DEFINE j == walk[w]
           hasCome == j.came \/ came
           hasGone == j.went \/ went
           torn == j.torn \/ ((j.rows = None) # (j.total = None))
           old == j.old \/ j.rows # None
<1>1. pc'[w] = pc[w] /\ (pc[w] = "idle" => walk'[w] = j) /\ j \in Walks
  BY DEF Outdate, TInv, IInv, TypeOK
<1>2. pc[w] # "idle" =>
          walk'[w] = [j EXCEPT !.came = hasCome, !.went = hasGone, !.torn = torn, !.old = old]
  BY DEF Outdate
<1>3. /\ ~hasCome => ~j.came /\ ~came
      /\ ~hasGone => ~j.went /\ ~went
      /\ ~torn => ~j.torn
      /\ j.rows # None => old
  OBVIOUS
<1> HIDE DEF hasCome, hasGone, torn, old
<1> QED BY <1>1, <1>2, <1>3 DEF Walks, Outdates

(* After a step client w is at c with the walk k. *)
LEMMA TracksThen ==
    ASSUME NEW w \in Walkers, NEW c, NEW k, c = pc'[w], k = walk'[w],
           RowsOK(c, k)', Seen(c, k)', Left(c, k)'
    PROVE  Tracks(pc[w], walk[w])'
<1>1. /\ Listed(walk[w].filter)' = Listed(k.filter)'
      /\ Total(walk[w].filter)' = Total(k.filter)'
  BY DEF Listed, Total
<1>2. Untied(walk[w].filter)' <=> Untied(k.filter)'
  BY DEF Untied
<1>3. /\ \A u : Above(walk[w].filter, u)' = Above(k.filter, u)'
      /\ Listed(Widest(walk[w].filter))' = Listed(Widest(k.filter))'
      /\ \A u : UpTo(Widest(walk[w].filter), u)' = UpTo(Widest(k.filter), u)'
  BY <1>1 DEF UpTo, Above, Listed, Widest
<1>4. IsPage(walk[w].filter, walk[w].page, walk[w].rows)'
          <=> IsPage(k.filter, k.page, k.rows)'
  BY <1>1 DEF IsPage
<1>5. Rest(walk[w])' = Rest(k)'
  BY DEF Rest
<1>6. RowsOK(pc[w], walk[w])'
  BY <1>1, <1>4 DEF RowsOK
<1>7. Seen(pc[w], walk[w])'
  BY <1>1, <1>2, <1>3 DEF Seen
<1>8. Left(pc[w], walk[w])'
  BY <1>2, <1>3, <1>5 DEF Left
<1> QED BY <1>6, <1>7, <1>8 DEF Tracks

LEMMA RegisterTracks ==
    ASSUME TInv, NEW u \in Users, NEW t \in Times, Register(u, t)
    PROVE  EntriesOK' /\ TracksOK'
<1>0. t > 0 /\ t \in Nat
  BY MaxTimePositive DEF Times, MaxTimePositive
<1>1. /\ Outdate(TRUE, FALSE) /\ created[u] = 0
      /\ created' = [created EXCEPT ![u] = t] /\ active' = active \cup {u}
  BY DEF Register, Insert
<1>2. /\ created \in [Users -> Times \cup {0}] /\ active \subseteq Documents
      /\ Documents \subseteq Users
  BY DEF TInv, IInv, TypeOK, CollectionTypeOK, Documents
<1>3. /\ u \notin Documents /\ Documents \subseteq Documents'
      /\ \A v \in Documents : created'[v] = created[v]
  BY <1>0, <1>1, <1>2 DEF Documents
<1>4. \A f : Listed(f) \subseteq Listed(f)' /\ Listed(f)' \subseteq Users /\ Listed(f) \subseteq Documents
  BY <1>1, <1>2 DEF Listed
<1>5. ASSUME NEW f, NEW v \in Documents
      PROVE  /\ Cardinality(Above(f, v)') >= Cardinality(Above(f, v))
             /\ Cardinality(Above(f, v)) \in Nat /\ Cardinality(Above(f, v)') \in Nat
  <2>1. Above(f, v) \subseteq Above(f, v)' /\ Above(f, v)' \subseteq Users
    BY <1>3, <1>4 DEF Above
  <2>2. IsFiniteSet(Above(f, v)')
    BY <2>1, UsersFinite, FS_Subset DEF UsersFinite
  <2>3. /\ Cardinality(Above(f, v)) <= Cardinality(Above(f, v)')
        /\ IsFiniteSet(Above(f, v))
    BY <2>1, <2>2, FS_Subset
  <2> QED BY <2>2, <2>3, FS_CardinalityType
<1>6. ASSUME NEW f, Untied(f)' PROVE Untied(f)
  BY <1>3, <1>6 DEF Untied
<1>7. ASSUME NEW w \in Walkers PROVE Tracks(pc[w], walk[w])'
  <2>1. PICK c, j, k, f : c = pc[w] /\ j = walk[w] /\ k = walk'[w] /\ f = j.filter
    OBVIOUS
  <2>2. /\ Seen(c, j) /\ Left(c, j)
        /\ j.page \in Pages
    BY <2>1, HereTracked DEF Tracks
  <2>3. /\ pc'[w] = c
        /\ c = "idle" => k = j
        /\ c # "idle" => Outdates(j, k, TRUE, FALSE)
    <3>1. PICK came \in BOOLEAN, went \in BOOLEAN :
             came = TRUE /\ went = FALSE /\ Outdate(came, went)
      BY <1>1
    <3>2. /\ pc'[w] = pc[w]
          /\ pc[w] = "idle" => walk'[w] = walk[w]
          /\ pc[w] # "idle" => Outdates(walk[w], walk'[w], came, went)
      BY <3>1, OutdateWalk
    <3> QED BY <2>1, <3>1, <3>2
  <2>4. Skip(j.page) \in Nat /\ j.page * Limit \in Nat
    BY <2>2, PageEnds
  <2>5. RowsOK(c, k)'
    BY <2>3 DEF Outdates, RowsOK
  <2>6. Seen(c, k)'
    BY <2>2, <2>3 DEF Outdates, Seen
  <2>7. ASSUME c # "idle"
        PROVE  /\ j.listed \subseteq Documents
               /\ \A v \in j.listed : f \in {"none", Role(v)}
               /\ Rest(k)' = Rest(j) /\ Rest(j) \subseteq Documents
    <3>1. /\ j.listed \subseteq Documents
          /\ \A v \in j.listed : f \in {"none", Role(v)}
      BY <2>1, <2>2, <2>3, <2>7 DEF Left, Outdates
    <3> QED BY <1>1, <1>3, <2>3, <2>7, <3>1 DEF Outdates, Rest
  <2>8. Left(c, k)'
    <3>1. CASE c = "idle"
      BY <2>3, <3>1 DEF Outdates, Left
    <3>2. CASE c # "idle"
      <4>1. /\ k.listed \subseteq Documents'
            /\ \A v \in k.listed : k.filter \in {"none", Role(v)}
        BY <1>3, <2>1, <2>3, <2>7, <3>2 DEF Outdates
      <4>2. ASSUME ~k.went, ~k.anyOld, ~k.anyTorn, ~k.anyForeign, Untied(f)'
            PROVE  /\ c # "done" => \A v \in Rest(j) : Cardinality(Above(f, v)) >= Skip(j.page)
                   /\ c = "query" /\ k.rows # None =>
                         \A v \in Rest(j) \ j.rows :
                             Cardinality(Above(f, v)) >= j.page * Limit
                   /\ c = "query" /\ k.rows # None /\ k.total # None /\ ~k.torn =>
                         (Rest(j) \ j.rows # {} => j.total > j.page * Limit)
                   /\ c = "done" => Rest(j) = {}
        <5>1. ~j.went /\ ~j.anyOld /\ ~j.anyTorn /\ ~j.anyForeign /\ Untied(f)
          BY <1>6, <2>1, <2>3, <3>2, <4>2 DEF Outdates
        <5> QED BY <2>1, <2>2, <2>3, <3>2, <5>1 DEF Outdates, Left
      <4>3. ASSUME ~k.went, ~k.anyOld, ~k.anyTorn, ~k.anyForeign, Untied(f)'
            PROVE  /\ c # "done" => \A v \in Rest(j) : Cardinality(Above(f, v)') >= Skip(j.page)
                   /\ c = "query" /\ k.rows # None =>
                         \A v \in Rest(j) \ j.rows :
                             Cardinality(Above(f, v)') >= j.page * Limit
        <5>1. \A v \in Rest(j) :
                 /\ Cardinality(Above(f, v)') >= Cardinality(Above(f, v))
                 /\ Cardinality(Above(f, v)) \in Nat /\ Cardinality(Above(f, v)') \in Nat
          BY <1>5, <2>7, <3>2
        <5> QED BY <2>3, <2>4, <3>2, <4>2, <4>3, <5>1 DEF Outdates
      <4> QED BY <2>1, <2>3, <2>7, <3>2, <4>1, <4>2, <4>3 DEF Outdates, Left
    <3> QED BY <3>1, <3>2
  <2> QED BY <2>1, <2>3, <2>5, <2>6, <2>8, TracksThen
<1>8. TracksOK'
  BY <1>7 DEF TracksOK
<1> QED BY <1>1, <1>8, OutdateEntries

LEMMA DeactivateTracks ==
    ASSUME TInv, NEW u \in Users, Deactivate(u)
    PROVE  EntriesOK' /\ TracksOK'
<1>1. Outdate(FALSE, TRUE) /\ created' = created /\ active' = active \ {u}
  BY DEF Deactivate, SoftDelete
<1>2. Documents' = Documents
  BY <1>1 DEF Documents
<1>3. \A f : Listed(f)' \subseteq Listed(f)
  BY <1>1 DEF Listed
<1>4. CollectionTypeOK
  BY DEF TInv, IInv, TypeOK
<1>5. ASSUME NEW f, NEW v
      PROVE  /\ Cardinality(UpTo(f, v)') <= Cardinality(UpTo(f, v))
             /\ Cardinality(UpTo(f, v)) \in Nat /\ Cardinality(UpTo(f, v)') \in Nat
  <2>1. UpTo(f, v)' \subseteq UpTo(f, v)
    BY <1>1, <1>3 DEF UpTo
  <2>2. IsFiniteSet(UpTo(f, v))
    BY <1>4, PositionType, FS_Subset
  <2>3. /\ Cardinality(UpTo(f, v)') <= Cardinality(UpTo(f, v))
        /\ IsFiniteSet(UpTo(f, v)')
    BY <2>1, <2>2, FS_Subset
  <2> QED BY <2>2, <2>3, FS_CardinalityType
<1>6. ASSUME NEW f, Untied(f)' PROVE Untied(f)
  BY <1>1, <1>2, <1>6 DEF Untied
<1>7. ASSUME NEW w \in Walkers PROVE Tracks(pc[w], walk[w])'
  <2>1. PICK c, j, k, f : c = pc[w] /\ j = walk[w] /\ k = walk'[w] /\ f = j.filter
    OBVIOUS
  <2>2. /\ Seen(c, j) /\ Left(c, j)
        /\ j.page \in Pages
    BY <2>1, HereTracked DEF Tracks
  <2>3. /\ pc'[w] = c
        /\ c = "idle" => k = j
        /\ c # "idle" => Outdates(j, k, FALSE, TRUE)
    <3>1. PICK came \in BOOLEAN, went \in BOOLEAN :
             came = FALSE /\ went = TRUE /\ Outdate(came, went)
      BY <1>1
    <3>2. /\ pc'[w] = pc[w]
          /\ pc[w] = "idle" => walk'[w] = walk[w]
          /\ pc[w] # "idle" => Outdates(walk[w], walk'[w], came, went)
      BY <3>1, OutdateWalk
    <3> QED BY <2>1, <3>1, <3>2
  <2>4. Skip(j.page) \in Nat /\ j.page * Limit \in Nat
    BY <2>2, PageEnds
  <2>5. RowsOK(c, k)'
    BY <2>3 DEF Outdates, RowsOK
  <2>6. Left(c, k)'
    BY <1>2, <2>2, <2>3 DEF Outdates, Left
  <2>7. Seen(c, k)'
    <3>1. CASE c = "idle"
      BY <2>2, <2>3, <3>1 DEF Seen
    <3>2. CASE c # "idle"
      <4>1. ASSUME ~k.came, ~k.anyOld, Untied(f)'
            PROVE  /\ ~j.twice
                   /\ c # "done" => \A v \in j.shown \cap Listed(Widest(f)) :
                                       Cardinality(UpTo(Widest(f), v)) <= Skip(j.page)
                   /\ c = "query" /\ k.rows # None =>
                         /\ j.shown \cap j.rows = {}
                         /\ \A v \in j.rows \cap Listed(Widest(f)) :
                               Cardinality(UpTo(Widest(f), v)) <= j.page * Limit
        <5>1. ~j.came /\ ~j.anyOld /\ Untied(f)
          BY <1>6, <2>3, <3>2, <4>1 DEF Outdates
        <5> QED BY <2>1, <2>2, <2>3, <3>2, <5>1 DEF Outdates, Seen
      <4>2. ASSUME ~k.came, ~k.anyOld, Untied(f)'
            PROVE  /\ c # "done" => \A v \in j.shown \cap Listed(Widest(f))' :
                                       Cardinality(UpTo(Widest(f), v)') <= Skip(j.page)
                   /\ c = "query" /\ k.rows # None =>
                         \A v \in j.rows \cap Listed(Widest(f))' :
                             Cardinality(UpTo(Widest(f), v)') <= j.page * Limit
        BY <1>3, <1>5, <2>4, <4>1, <4>2
      <4> QED BY <2>1, <2>3, <3>2, <4>1, <4>2 DEF Outdates, Seen
    <3> QED BY <3>1, <3>2
  <2> QED BY <2>1, <2>3, <2>5, <2>6, <2>7, TracksThen
<1>8. TracksOK'
  BY <1>7 DEF TracksOK
<1> QED BY <1>1, <1>8, OutdateEntries

(* Where nothing of a client changes, nor a document. *)
LEMMA TracksSame ==
    ASSUME TInv, created' = created, active' = active, pc' = pc, walk' = walk
    PROVE  TracksOK'
<1>1. \A f : Listed(f)' = Listed(f) /\ Total(f)' = Total(f) /\ (Untied(f)' <=> Untied(f))
  BY DEF Listed, Total, Untied, Documents
<1>2. \A f, u : UpTo(f, u)' = UpTo(f, u) /\ Above(f, u)' = Above(f, u)
  BY <1>1 DEF UpTo, Above
<1>3. \A f, page, rows : IsPage(f, page, rows)' <=> IsPage(f, page, rows)
  BY <1>1 DEF IsPage
<1>4. Documents' = Documents /\ \A k : Rest(k)' = Rest(k)
  BY DEF Documents, Rest
<1>5. ASSUME NEW w \in Walkers PROVE Tracks(pc[w], walk[w])'
  <2>1. PICK c, k : c = pc'[w] /\ k = walk'[w]
    OBVIOUS
  <2>2. RowsOK(c, k) /\ Seen(c, k) /\ Left(c, k)
    BY <2>1 DEF TInv, TracksOK, Tracks
  <2>3. RowsOK(c, k)'
    BY <1>1, <1>3, <2>2 DEF RowsOK
  <2>4. Seen(c, k)'
    BY <1>1, <1>2, <2>2 DEF Seen
  <2>5. Left(c, k)'
    BY <1>1, <1>2, <1>4, <2>2 DEF Left
  <2> QED BY <2>1, <2>3, <2>4, <2>5, TracksThen
<1> QED BY <1>5 DEF TracksOK

LEMMA EvictTracks ==
    ASSUME TInv, NEW key \in Keys, Evict(key)
    PROVE  EntriesOK' /\ TracksOK'
<1>1. /\ created' = created /\ active' = active /\ pc' = pc /\ walk' = walk
      /\ cache' = [cache EXCEPT ![key] = None]
      /\ cache \in [Keys -> Results \cup {None}] /\ EntriesOK
  BY DEF Evict, TInv, IInv, TypeOK
<1>2. \A f : Listed(f)' = Listed(f) /\ Total(f)' = Total(f)
  BY <1>1 DEF Listed, Total
<1>3. \A f, page, rows : IsPage(f, page, rows)' <=> IsPage(f, page, rows)
  BY <1>1, <1>2 DEF IsPage
<1>4. \A l \in Keys : cache'[l] = None \/ cache'[l] = cache[l]
  BY <1>1
<1>5. EntriesOK'
  BY <1>1, <1>2, <1>3, <1>4 DEF EntriesOK, EntryOK
<1> QED BY <1>1, <1>5, TracksSame

LEMMA InitTInv == Init => TInv
<1> SUFFICES ASSUME Init PROVE TInv
  OBVIOUS
<1>1. EntriesOK
  BY DEF Init, EntriesOK, EntryOK
<1>2. TracksOK
  BY DEF Init, TracksOK, Tracks, RowsOK, Seen, Left, NoWalk
<1> QED BY <1>1, <1>2, InitIInv DEF TInv

LEMMA NextTInv == TInv /\ [Next]_vars => TInv'
<1> SUFFICES ASSUME TInv, [Next]_vars PROVE TInv'
  OBVIOUS
<1> DEFINE Goal == EntriesOK' /\ TracksOK'
<1>1. ASSUME NEW u \in Users, NEW t \in Times, Register(u, t) PROVE Goal
  BY <1>1, RegisterTracks
<1>2. ASSUME NEW u \in Users, Deactivate(u) PROVE Goal
  BY <1>2, DeactivateTracks
<1>3. ASSUME NEW k \in Keys, Evict(k) PROVE Goal
  BY <1>3, EvictTracks
<1>4. ASSUME NEW w \in Walkers, Step(w) PROVE Goal
  <2>1. ASSUME NEW filter \in Filters, Begin(w, filter) PROVE Goal
    BY <2>1, BeginTracks
  <2>2. CASE CacheHit(w)
    BY <2>2, CacheHitTracks
  <2>3. CASE CacheMiss(w)
    BY <2>3, CacheMissTracks
  <2>4. CASE Find(w)
    BY <2>4, FindTracks
  <2>5. CASE Count(w)
    BY <2>5, CountTracks
  <2>6. CASE CacheSet(w)
    BY <2>6, CacheSetTracks
  <2>7. CASE CacheSetLost(w)
    BY <2>7, CacheSetLostTracks
  <2>8. CASE End(w)
    BY <2>8, EndTracks
  <2> HIDE DEF Goal
  <2> QED BY <1>4, <2>1, <2>2, <2>3, <2>4, <2>5, <2>6, <2>7, <2>8 DEF Step
<1>5. ASSUME UNCHANGED vars PROVE Goal
  <2>1. /\ created' = created /\ active' = active /\ cache' = cache
        /\ pc' = pc /\ walk' = walk
    BY <1>5 DEF vars
  <2>2. EntriesOK'
    BY <2>1, EntriesSame DEF TInv
  <2>3. TracksOK'
    BY <2>1, TracksSame
  <2> QED BY <2>2, <2>3
<1>6. Goal
  BY <1>1, <1>2, <1>3, <1>4, <1>5 DEF Next
<1>7. IInv'
  BY NextIInv DEF TInv
<1> QED BY <1>6, <1>7 DEF TInv

THEOREM Tracked == Spec => []TInv
<1>1. Init => TInv
  BY InitTInv
<1>2. TInv /\ [Next]_vars => TInv'
  BY NextTInv
<1> QED BY <1>1, <1>2, PTL DEF Spec

LEMMA TiedUntied ==
    ASSUME NEW w \in Walkers, ~Tied(w)
    PROVE  Untied(walk[w].filter)
BY DEF Tied, Untied

(* A walk through the pages of GET /users to the end, by a client that     *)
(* follows hasNextPage, has shown every user who was listed when it began  *)
(* and is listed still; the causes of the contrary are a deactivation,     *)
(* which moves later users up a page, an outdated page from the cache, a   *)
(* page whose count is from another state than its rows, a page of the     *)
(* other filter with the same key, and users created at the same time,     *)
(* whose order is another with every query.  ?role= may have any value.    *)
THEOREM MissedExplained == Spec => []MissedHasCause
<1>1. TInv => MissedHasCause
  <2> SUFFICES ASSUME TInv, NEW w \in Walkers, pc[w] = "done", ~walk[w].went,
                      ~walk[w].anyOld, ~walk[w].anyTorn,
                      ~walk[w].anyForeign, ~Tied(w)
               PROVE  walk[w].listed \cap active \subseteq walk[w].shown
    BY DEF MissedHasCause
  <2>1. Rest(walk[w]) = {}
    BY TiedUntied DEF TInv, TracksOK, Tracks, Left
  <2> QED BY <2>1 DEF Rest
<1> QED BY <1>1, Tracked, PTL

(* A walk shows nobody twice, unless an account registered meanwhile moved *)
(* him down a page, a page was an outdated one, or createdAt does not      *)
(* decide the order.                                                       *)
THEOREM RepeatedExplained == Spec => []RepeatedHasCause
<1>1. TInv => RepeatedHasCause
  <2> SUFFICES ASSUME TInv, NEW w \in Walkers, ~walk[w].came, ~walk[w].anyOld, ~Tied(w)
               PROVE  ~walk[w].twice
    BY DEF RepeatedHasCause
  <2>1. Untied(walk[w].filter)
    BY TiedUntied
  <2>2. Seen(pc[w], walk[w])
    BY DEF TInv, TracksOK, Tracks
  <2> QED BY <2>1, <2>2 DEF Seen
<1> QED BY <1>1, Tracked, PTL
=============================================================================
