------------------------------ MODULE Listing ------------------------------
(***************************************************************************)
(* Clients that walk through the pages of GET /users while accounts are    *)
(* registered and deactivated.                                             *)
(*                                                                         *)
(* A page is a query and a count, two commands under way at once, and is   *)
(* cached for a minute under a key that is not always that of its filter   *)
(* alone.  A walk begins at page 1 and goes on as long as the page it got  *)
(* says hasNextPage.  Writes, and the expiry or deletion of cached pages,  *)
(* fall between any two commands.                                          *)
(*                                                                         *)
(* A page is the set of its users: the order within a page is fixed by     *)
(* createdAt up to ties and no property depends on it.                     *)
(***************************************************************************)
EXTENDS UserCollection

CONSTANTS
    Walkers,    \* clients
    Filters,    \* the values of ?role= in use, "none" for a request without
    Limit,      \* ?limit=
    None

ASSUME LimitPositive == Limit \in Nat \ {0}

-----------------------------------------------------------------------------
(* The arithmetic of findPaginated. *)

(* Mutant of Skip: pages counted from 0. *)
SkipFromZero(page) == page * Limit

Skip(page) == (page - 1) * Limit

(* Mutant of TotalPages: an incomplete last page does not count. *)
TotalPagesFloor(total) == total \div Limit

TotalPages(total) == (total + Limit - 1) \div Limit

(* Mutant of HasNextPage: off by one. *)
HasNextPageAlsoOnLast(page, total) == page <= TotalPages(total)

HasNextPage(page, total) == page < TotalPages(total)

Least(m, n) == IF m <= n THEN m ELSE n

(* The pages there can be. *)
Pages == 1 .. TotalPages(Cardinality(Users))

-----------------------------------------------------------------------------
(* The part of the cache key that stands for the filter: role ?? 'all'.    *)
KeyRole(filter) == IF filter = "none" THEN "all" ELSE filter

Keys == Pages \X {KeyRole(filter) : filter \in Filters}

VARIABLES
    cache,      \* the pages Redis holds, by key
    pc,         \* pc[w]: what client w waits for
    walk        \* walk[w]: the walk of client w

vars == <<created, active, cache, pc, walk>>

(* What getUsers answers and caches: the rows and totalDocs; history: the  *)
(* filter, and whether a write fell between the two commands, and after    *)
(* the query.                                                              *)
Results == [filter : Filters, rows : SUBSET Users, total : Nat,
            torn : BOOLEAN, old : BOOLEAN]

(* The page a client asks for and what of its result is there; the users   *)
(* it was shown; history: whether one was shown twice, who was listed when *)
(* the walk began, whether accounts came or went since then, and whether   *)
(* one of its pages was outdated, torn or of another filter.               *)
Walks == [filter : Filters \cup {None}, page : Pages,
          rows : (SUBSET Users) \cup {None}, total : Nat \cup {None},
          torn : BOOLEAN, old : BOOLEAN,
          shown : SUBSET Users, twice : BOOLEAN, listed : SUBSET Users,
          came : BOOLEAN, went : BOOLEAN,
          anyTorn : BOOLEAN, anyOld : BOOLEAN, anyForeign : BOOLEAN]

NoWalk == [filter |-> None, page |-> 1, rows |-> None, total |-> None,
           torn |-> FALSE, old |-> FALSE,
           shown |-> {}, twice |-> FALSE, listed |-> {},
           came |-> FALSE, went |-> FALSE,
           anyTorn |-> FALSE, anyOld |-> FALSE, anyForeign |-> FALSE]

TypeOK ==
    /\ CollectionTypeOK
    /\ cache \in [Keys -> Results \cup {None}]
    /\ pc \in [Walkers -> {"idle", "get", "query", "done"}]
    /\ walk \in [Walkers -> Walks]

Init ==
    /\ CollectionInit
    /\ cache = [k \in Keys |-> None]
    /\ pc = [w \in Walkers |-> "idle"]
    /\ walk = [w \in Walkers |-> NoWalk]

-----------------------------------------------------------------------------
(* What the two commands answer. *)

(* Mutant of Total: countDocuments without the filter. *)
TotalOfAll(filter) == Cardinality(Documents)

Total(filter) == Cardinality(Listed(filter))

(* Mutant of IsPage: without sort. *)
IsPageUnsorted(filter, page, rows) ==
    /\ rows \subseteq Listed(filter)
    /\ Cardinality(rows) =
          Least(Limit, Cardinality(Listed(filter))
                          - Least(Skip(page), Cardinality(Listed(filter))))

(* Newest first; among documents of one createdAt any order, and another   *)
(* one with the next query.                                                *)
IsPage(filter, page, rows) ==
    LET listed == Listed(filter)
        matched == Cardinality(listed)
    IN  \E before \in SUBSET listed :
           /\ Cardinality(before) = Least(Skip(page), matched)
           /\ rows \subseteq listed \ before
           /\ Cardinality(rows) = Least(Limit, matched - Cardinality(before))
           /\ \A u \in before, v \in listed \ before : created[u] >= created[v]
           /\ \A u \in rows, v \in listed \ (before \cup rows) :
                 created[u] >= created[v]

-----------------------------------------------------------------------------
(* Writes, and what becomes of cached pages. *)

(* History: from here on every result is one from before the write.       *)
Outdate(came, went) ==
    /\ cache' = [k \in DOMAIN cache |->
                    IF cache[k] = None THEN None ELSE [cache[k] EXCEPT !.old = TRUE]]
    /\ walk' = [w \in Walkers |->
                   IF pc[w] = "idle" THEN walk[w]
                   ELSE [walk[w] EXCEPT
                            !.came = @ \/ came,
                            !.went = @ \/ went,
                            !.torn = @ \/ ((walk[w].rows = None) # (walk[w].total = None)),
                            !.old = @ \/ walk[w].rows # None]]
    /\ UNCHANGED pc

Register(u, t) == Insert(u, t) /\ Outdate(TRUE, FALSE)

Deactivate(u) == SoftDelete(u) /\ Outdate(FALSE, TRUE)

(* A page expires, or is deleted by an update or a deactivation. *)
Evict(k) ==
    /\ cache[k] # None
    /\ cache' = [cache EXCEPT ![k] = None]
    /\ UNCHANGED <<created, active, pc, walk>>

-----------------------------------------------------------------------------
(* One walk. *)

Begin(w, filter) ==
    /\ pc[w] = "idle"
    /\ pc' = [pc EXCEPT ![w] = "get"]
    /\ walk' = [walk EXCEPT ![w] =
                   [NoWalk EXCEPT !.filter = filter, !.listed = Listed(filter)]]
    /\ UNCHANGED <<created, active, cache>>

(* The client gets a page: the walk goes on, or is done. *)
Answer(w, r, isOld) ==
    LET k == walk[w]
        more == HasNextPage(k.page, r.total)
    IN  /\ pc' = [pc EXCEPT ![w] = IF more THEN "get" ELSE "done"]
        /\ walk' = [walk EXCEPT ![w] =
                       [k EXCEPT !.page = IF more THEN @ + 1 ELSE @,
                                 !.rows = None, !.total = None,
                                 !.torn = FALSE, !.old = FALSE,
                                 !.shown = @ \cup r.rows,
                                 !.twice = @ \/ k.shown \cap r.rows # {},
                                 !.anyTorn = @ \/ r.torn,
                                 !.anyOld = @ \/ isOld,
                                 !.anyForeign = @ \/ r.filter # k.filter]]

Key(w) == <<walk[w].page, KeyRole(walk[w].filter)>>

CacheHit(w) ==
    /\ pc[w] = "get"
    /\ cache[Key(w)] # None
    /\ Answer(w, cache[Key(w)], cache[Key(w)].old)
    /\ UNCHANGED <<created, active, cache>>

(* Absent, or not to be had. *)
CacheMiss(w) ==
    /\ pc[w] = "get"
    /\ pc' = [pc EXCEPT ![w] = "query"]
    /\ UNCHANGED <<created, active, cache, walk>>

Find(w) ==
    /\ pc[w] = "query"
    /\ walk[w].rows = None
    /\ \E rows \in SUBSET Users :
          /\ IsPage(walk[w].filter, walk[w].page, rows)
          /\ walk' = [walk EXCEPT ![w].rows = rows]
    /\ UNCHANGED <<created, active, cache, pc>>

Count(w) ==
    /\ pc[w] = "query"
    /\ walk[w].total = None
    /\ walk' = [walk EXCEPT ![w].total = Total(walk[w].filter)]
    /\ UNCHANGED <<created, active, cache, pc>>

Result(w) == [filter |-> walk[w].filter,
              rows |-> walk[w].rows, total |-> walk[w].total,
              torn |-> walk[w].torn, old |-> walk[w].old]

(* Promise.all *)
Both(w) == pc[w] = "query" /\ walk[w].rows # None /\ walk[w].total # None

CacheSet(w) ==
    /\ Both(w)
    /\ cache' = [cache EXCEPT ![Key(w)] = Result(w)]
    /\ Answer(w, Result(w), FALSE)
    /\ UNCHANGED <<created, active>>

CacheSetLost(w) ==
    /\ Both(w)
    /\ Answer(w, Result(w), FALSE)
    /\ UNCHANGED <<created, active, cache>>

(* The client is through, or gives up. *)
End(w) ==
    /\ pc[w] # "idle"
    /\ pc' = [pc EXCEPT ![w] = "idle"]
    /\ walk' = [walk EXCEPT ![w] = NoWalk]
    /\ UNCHANGED <<created, active, cache>>

Step(w) ==
    \/ \E filter \in Filters : Begin(w, filter)
    \/ CacheHit(w)
    \/ CacheMiss(w)
    \/ Find(w)
    \/ Count(w)
    \/ CacheSet(w)
    \/ CacheSetLost(w)
    \/ End(w)

Next ==
    \/ \E u \in Users, t \in Times : Register(u, t)
    \/ \E u \in Users : Deactivate(u)
    \/ \E k \in Keys : Evict(k)
    \/ \E w \in Walkers : Step(w)

Spec == Init /\ [][Next]_vars

-----------------------------------------------------------------------------
(* Properties. *)

Fits(page, r) ==
    Cardinality(r.rows) =
        IF r.total <= Skip(page) THEN 0 ELSE Least(Limit, r.total - Skip(page))

(* A page has exactly the rows its own totalDocs, page and limit announce, *)
(* wherever it comes from, unless a write fell between its two commands.   *)
CountMatchesRows ==
    /\ \A k \in Keys :
          cache[k] # None /\ ~cache[k].torn => Fits(k[1], cache[k])
    /\ \A w \in Walkers :
          Both(w) /\ ~walk[w].torn => Fits(walk[w].page, Result(w))

(* Two documents of the lists with a walk's key have the same createdAt.   *)
Tied(w) ==
    \E u, v \in Documents :
        /\ u # v /\ created[u] = created[v]
        /\ {Role(u), Role(v), "all"} \cap {KeyRole(walk[w].filter)} # {}

(* A walk to the end has shown every user who was listed when it began and *)
(* is listed still, unless an account was deactivated meanwhile, a page    *)
(* was an outdated one from the cache, a page was torn, a page was that of *)
(* another filter (?role=all finds nobody, and is cached as the list of    *)
(* everybody), or createdAt does not decide the order.  Registrations      *)
(* alone hide nobody.                                                      *)
MissedHasCause ==
    \A w \in Walkers :
        pc[w] = "done" =>
            \/ walk[w].listed \cap active \subseteq walk[w].shown
            \/ walk[w].went
            \/ walk[w].anyOld \/ walk[w].anyTorn \/ walk[w].anyForeign
            \/ Tied(w)

(* A walk shows nobody twice, unless an account was registered meanwhile,  *)
(* a page was an outdated one, or createdAt does not decide the order.     *)
(* Deactivations repeat nobody, nor do pages of another filter.            *)
RepeatedHasCause ==
    \A w \in Walkers :
        walk[w].twice =>
            \/ walk[w].came
            \/ walk[w].anyOld
            \/ Tied(w)
=============================================================================
