-------------------------- MODULE AnalyticsProofs --------------------------
(***************************************************************************)
(* Proofs about Analytics, for any number of users, instants and sessions  *)
(* and any calendar.                                                       *)
(*                                                                         *)
(* A row of a report is the cardinality of a set of users; what the        *)
(* reports say of each other follows from how these sets are made of each  *)
(* other.                                                                  *)
(***************************************************************************)
EXTENDS Analytics, FiniteSetTheorems, TLAPS

(* The users a row of the trends counts. *)
Group(start, end, granularity, p) ==
    {u \in Window(start, end) : Period(granularity, u) = p}

-----------------------------------------------------------------------------
LEMMA CollectionStep == CollectionTypeOK /\ [Next]_vars => CollectionTypeOK'
<1> SUFFICES ASSUME CollectionTypeOK, [Next]_vars PROVE CollectionTypeOK'
  OBVIOUS
<1>1. ASSUME NEW u \in Users, NEW t \in Times, Register(u, t) PROVE CollectionTypeOK'
  <2>1. /\ created' = [created EXCEPT ![u] = t] /\ active' = active \cup {u}
        /\ t \in Nat /\ t > 0
    BY <1>1, MaxTimePositive DEF Register, Insert, Times, MaxTimePositive
  <2>2. created' \in [Users -> Times \cup {0}]
    BY <2>1 DEF CollectionTypeOK
  <2>3. active' \subseteq Documents'
    BY <2>1 DEF CollectionTypeOK, Documents
  <2> QED BY <2>2, <2>3 DEF CollectionTypeOK
<1>2. ASSUME NEW u \in Users, Deactivate(u) PROVE CollectionTypeOK'
  BY <1>2 DEF Deactivate, SoftDelete, CollectionTypeOK, Documents
<1>3. ASSUME UNCHANGED <<created, active>> PROVE CollectionTypeOK'
  BY <1>3 DEF CollectionTypeOK, Documents
<1> QED BY <1>1, <1>2, <1>3 DEF Next, OpenSession, ExpireSessions, vars

THEOREM Invariant == Spec => []CollectionTypeOK
<1>1. Init => CollectionTypeOK
  BY DEF Init, CollectionInit, CollectionTypeOK, Documents
<1> QED BY <1>1, CollectionStep, PTL DEF Spec

-----------------------------------------------------------------------------
(* Sets of users, and the rows made of them. *)

LEMMA WindowFinite ==
    ASSUME NEW S \in SUBSET Users
    PROVE  IsFiniteSet(S) /\ Cardinality(S) \in Nat
BY UsersFinite, FS_Subset, FS_CardinalityType DEF UsersFinite

LEMMA GroupFinite ==
    ASSUME NEW a, NEW b, NEW g, NEW p
    PROVE  /\ Group(a, b, g, p) \in SUBSET Users
           /\ IsFiniteSet(Group(a, b, g, p))
           /\ Cardinality(Group(a, b, g, p)) \in Nat
<1>1. Group(a, b, g, p) \in SUBSET Users
  BY DEF Group, Window, Documents
<1> QED BY <1>1, WindowFinite

(* A report has a row for every group that is not empty. *)
LEMMA TrendsDomain ==
    ASSUME NEW a, NEW b, NEW g, NEW p
    PROVE  p \in DOMAIN Trends(a, b, g) <=> Group(a, b, g, p) # {}
BY DEF Trends, Group

(* What it says of a group, or would say of an empty one. *)
LEMMA RowOfGroup ==
    ASSUME NEW a, NEW b, NEW g, NEW p
    PROVE  /\ Row(Trends(a, b, g), p).registrations = Cardinality(Group(a, b, g, p))
           /\ Row(Trends(a, b, g), p).activeRegistrations =
                  Cardinality(Group(a, b, g, p) \cap active)
           /\ Row(Trends(a, b, g), p).churnedRegistrations =
                  Cardinality(Group(a, b, g, p) \ active)
<1> DEFINE group == Group(a, b, g, p)
           row == Row(Trends(a, b, g), p)
<1>1. CASE p \in DOMAIN Trends(a, b, g)
  <2>1. row = [registrations |-> Cardinality(group),
               activeRegistrations |-> Cardinality(group \cap active),
               churnedRegistrations |->
                   Cardinality(group) - Cardinality(group \cap active)]
    BY <1>1 DEF Row, Trends, Group
  <2>2. Cardinality(group \ active) = Cardinality(group) - Cardinality(group \cap active)
    BY GroupFinite, FS_Difference
  <2> HIDE DEF row, group
  <2> QED BY <2>1, <2>2 DEF row, group
<1>2. CASE p \notin DOMAIN Trends(a, b, g)
  <2>1. group = {}
    BY <1>2, TrendsDomain
  <2>2. row = [registrations |-> 0, activeRegistrations |-> 0, churnedRegistrations |-> 0]
    BY <1>2 DEF Row
  <2>3. group \cap active = {} /\ group \ active = {}
    BY <2>1
  <2> HIDE DEF row, group
  <2> QED BY <2>1, <2>2, <2>3, FS_EmptySet DEF row, group
<1> QED BY <1>1, <1>2

-----------------------------------------------------------------------------
(* Trends of windows that meet. *)

LEMMA GroupsMeet ==
    ASSUME CollectionTypeOK, NEW a \in Times, NEW b \in Times, NEW c \in Times,
           a <= b, b < c, NEW g, NEW p
    PROVE  /\ Group(a, c, g, p) = Group(a, b, g, p) \cup Group(b + 1, c, g, p)
           /\ Group(a, b, g, p) \cap Group(b + 1, c, g, p) = {}
<1>1. Times \subseteq Int /\ \A u \in Documents : created[u] \in Int
  BY MaxTimePositive DEF Times, MaxTimePositive, CollectionTypeOK, Documents
<1>2. a \in Int /\ b \in Int /\ c \in Int
  BY <1>1
<1>3. /\ Window(a, c) = Window(a, b) \cup Window(b + 1, c)
      /\ Window(a, b) \cap Window(b + 1, c) = {}
  BY <1>1, <1>2 DEF Window
<1> QED BY <1>3 DEF Group

LEMMA DisjointCounts ==
    ASSUME NEW S \in SUBSET Users, NEW T \in SUBSET Users, S \cap T = {}
    PROVE  Cardinality(S \cup T) = Cardinality(S) + Cardinality(T)
<1>1. IsFiniteSet(S) /\ IsFiniteSet(T) /\ Cardinality(S) \in Nat /\ Cardinality(T) \in Nat
  BY WindowFinite
<1>2. Cardinality(S \cup T) = Cardinality(S) + Cardinality(T) - Cardinality(S \cap T)
  BY <1>1, FS_Union
<1>3. Cardinality(S \cap T) = 0
  BY FS_EmptySet
<1> QED BY <1>1, <1>2, <1>3

Adds(a, b, c, g) ==
    LET first == Trends(a, b, g)
        second == Trends(b + 1, c, g)
        both == Trends(a, c, g)
    IN  /\ DOMAIN both = DOMAIN first \cup DOMAIN second
        /\ \A p \in DOMAIN both, f \in {"registrations", "activeRegistrations",
                                        "churnedRegistrations"} :
              both[p][f] = Row(first, p)[f] + Row(second, p)[f]

LEMMA TrendsAdd ==
    ASSUME CollectionTypeOK, NEW a \in Times, NEW b \in Times, NEW c \in Times,
           NEW g \in Granularities, a <= b, b < c
    PROVE  Adds(a, b, c, g)
<1> DEFINE first == Trends(a, b, g)
           second == Trends(b + 1, c, g)
           both == Trends(a, c, g)
           S(p) == Group(a, b, g, p)
           T(p) == Group(b + 1, c, g, p)
<1>1. \A p : Group(a, c, g, p) = S(p) \cup T(p) /\ S(p) \cap T(p) = {}
  BY GroupsMeet
<1>2. DOMAIN both = DOMAIN first \cup DOMAIN second
  <2>1. \A p : p \in DOMAIN both <=> Group(a, c, g, p) # {}
    BY TrendsDomain
  <2>2. \A p : p \in DOMAIN first <=> S(p) # {}
    BY TrendsDomain
  <2>3. \A p : p \in DOMAIN second <=> T(p) # {}
    BY TrendsDomain
  <2> HIDE DEF first, second, both, S, T
  <2> QED BY <1>1, <2>1, <2>2, <2>3
<1>3. ASSUME NEW p \in DOMAIN both, NEW f \in {"registrations", "activeRegistrations",
                                                  "churnedRegistrations"}
      PROVE  both[p][f] = Row(first, p)[f] + Row(second, p)[f]
  <2>1. both[p] = Row(both, p)
    BY DEF Row
  <2>2. S(p) \in SUBSET Users /\ T(p) \in SUBSET Users
    BY GroupFinite
  <2>3. /\ Cardinality(S(p) \cup T(p)) = Cardinality(S(p)) + Cardinality(T(p))
    BY <1>1, <2>2, DisjointCounts
  <2>4. Cardinality((S(p) \cup T(p)) \cap active) =
            Cardinality(S(p) \cap active) + Cardinality(T(p) \cap active)
    <3>1. (S(p) \cup T(p)) \cap active = (S(p) \cap active) \cup (T(p) \cap active)
      OBVIOUS
    <3>2. (S(p) \cap active) \cap (T(p) \cap active) = {}
      BY <1>1
    <3>3. S(p) \cap active \in SUBSET Users /\ T(p) \cap active \in SUBSET Users
      BY <2>2
    <3> QED BY <3>1, <3>2, <3>3, DisjointCounts
  <2>5. Cardinality((S(p) \cup T(p)) \ active) =
            Cardinality(S(p) \ active) + Cardinality(T(p) \ active)
    <3>1. (S(p) \cup T(p)) \ active = (S(p) \ active) \cup (T(p) \ active)
      OBVIOUS
    <3>2. (S(p) \ active) \cap (T(p) \ active) = {}
      BY <1>1
    <3>3. S(p) \ active \in SUBSET Users /\ T(p) \ active \in SUBSET Users
      BY <2>2
    <3> QED BY <3>1, <3>2, <3>3, DisjointCounts
  <2>6. /\ Row(first, p).registrations = Cardinality(S(p))
        /\ Row(first, p).activeRegistrations = Cardinality(S(p) \cap active)
        /\ Row(first, p).churnedRegistrations = Cardinality(S(p) \ active)
    BY RowOfGroup
  <2>7. /\ Row(second, p).registrations = Cardinality(T(p))
        /\ Row(second, p).activeRegistrations = Cardinality(T(p) \cap active)
        /\ Row(second, p).churnedRegistrations = Cardinality(T(p) \ active)
    BY RowOfGroup
  <2>8. /\ Row(both, p).registrations = Cardinality(Group(a, c, g, p))
        /\ Row(both, p).activeRegistrations = Cardinality(Group(a, c, g, p) \cap active)
        /\ Row(both, p).churnedRegistrations = Cardinality(Group(a, c, g, p) \ active)
    BY RowOfGroup
  <2> HIDE DEF first, second, both, S, T
  <2> QED BY <1>1, <2>1, <2>3, <2>4, <2>5, <2>6, <2>7, <2>8
<1> QED BY <1>2, <1>3 DEF Adds

-----------------------------------------------------------------------------
(* A write leaves a document in its period, and an inactive one inactive.  *)
LEMMA GroupsGrow ==
    ASSUME CollectionTypeOK, [Next]_vars, NEW a \in Times, NEW b \in Times,
           NEW g \in Granularities, NEW p
    PROVE  /\ Group(a, b, g, p) \subseteq Group(a, b, g, p)'
           /\ Group(a, b, g, p) \ active \subseteq (Group(a, b, g, p) \ active)'
<1>1. /\ \A u \in Documents : created'[u] = created[u]
      /\ \A u \in Documents : u \in active' => u \in active
  <2>1. ASSUME NEW u \in Users, NEW t \in Times, Register(u, t) PROVE <1>1
    BY <2>1 DEF Register, Insert, CollectionTypeOK, Documents
  <2>2. ASSUME NEW u \in Users, Deactivate(u) PROVE <1>1
    BY <2>2 DEF Deactivate, SoftDelete
  <2>3. ASSUME UNCHANGED <<created, active>> PROVE <1>1
    BY <2>3
  <2> QED BY <2>1, <2>2, <2>3 DEF Next, OpenSession, ExpireSessions, vars
<1>2. Documents \subseteq Documents'
  BY <1>1 DEF Documents
<1>3. Window(a, b) \subseteq Window(a, b)'
  BY <1>1, <1>2 DEF Window
<1>4. \A u \in Window(a, b) : Period(g, u)' = Period(g, u)
  BY <1>1 DEF Window, Period
<1>5. Group(a, b, g, p) \subseteq Group(a, b, g, p)'
  BY <1>3, <1>4 DEF Group
<1>6. Group(a, b, g, p) \subseteq Documents
  BY DEF Group, Window
<1> QED BY <1>1, <1>5, <1>6

LEMMA Grows ==
    ASSUME NEW S \in SUBSET Users, NEW T \in SUBSET Users, S \subseteq T
    PROVE  Cardinality(S) <= Cardinality(T)
BY WindowFinite, FS_Subset

LEMMA TrendsGrow ==
    ASSUME CollectionTypeOK, [Next]_vars, NEW a \in Times, NEW b \in Times,
           NEW g \in Granularities, NEW p \in DOMAIN Trends(a, b, g),
           NEW f \in {"registrations", "churnedRegistrations"}
    PROVE  /\ p \in DOMAIN Trends(a, b, g)'
           /\ Trends(a, b, g)[p][f] <= Trends(a, b, g)'[p][f]
<1> DEFINE S == Group(a, b, g, p)
           N == Group(a, b, g, p)'
<1>1. S \subseteq N /\ S \ active \subseteq N \ active'
  BY GroupsGrow
<1>2. S # {}
  BY TrendsDomain
<1>3. p \in DOMAIN Trends(a, b, g)'
  <2>1. p \in DOMAIN Trends(a, b, g)' <=> N # {}
    BY DEF Trends, Group
  <2> QED BY <1>1, <1>2, <2>1
<1>4. S \in SUBSET Users /\ N \in SUBSET Users
  <2>1. (Group(a, b, g, p) \in SUBSET Users)'
    BY DEF Group, Window, Documents
  <2> QED BY <2>1, GroupFinite
<1>5. Cardinality(S) <= Cardinality(N) /\ Cardinality(S \ active) <= Cardinality(N \ active')
  <2>1. S \ active \in SUBSET Users /\ N \ active' \in SUBSET Users
    BY <1>4
  <2> HIDE DEF S, N
  <2> QED BY <1>1, <1>4, <2>1, Grows
<1>6. /\ Trends(a, b, g)[p].registrations = Cardinality(S)
      /\ Trends(a, b, g)[p].churnedRegistrations = Cardinality(S \ active)
  BY RowOfGroup DEF Row
<1>7. /\ Trends(a, b, g)'[p].registrations = Cardinality(N)
      /\ Trends(a, b, g)'[p].churnedRegistrations = Cardinality(N \ active')
  <2>1. Trends(a, b, g)'[p] =
            [registrations |-> Cardinality(N),
             activeRegistrations |-> Cardinality(N \cap active'),
             churnedRegistrations |-> Cardinality(N) - Cardinality(N \cap active')]
    BY <1>3 DEF Trends, Group
  <2>2. Cardinality(N \ active') = Cardinality(N) - Cardinality(N \cap active')
    BY <1>4, WindowFinite, FS_Difference
  <2> HIDE DEF N
  <2> QED BY <2>1, <2>2
<1> HIDE DEF S, N
<1> QED BY <1>3, <1>5, <1>6, <1>7

-----------------------------------------------------------------------------
(* Retention: when it is answered there is one row per user before the     *)
(* $group, whatever the sessions.                                          *)

Matched(end) == {u \in active : created[u] <= end}

LEMMA OneRowPerUser ==
    ASSUME NEW a \in Times, NEW b \in Times,
           \A row \in Unwound(Matched(b), a, b) : Sized(row)
    PROVE  Unwound(Matched(b), a, b) = Matched(b) \X {Absent}
<1> DEFINE months(u) ==
               IF ActiveMonths(u, a, b) = {} THEN {Absent} ELSE ActiveMonths(u, a, b)
<1>1. Unwound(Matched(b), a, b) = UNION {{u} \X months(u) : u \in Matched(b)}
  BY DEF Unwound
<1>2. ASSUME NEW u \in Matched(b) PROVE months(u) = {Absent}
  <2>1. \A m \in months(u) : <<u, m>> \in Unwound(Matched(b), a, b)
    BY <1>1
  <2>2. \A m \in months(u) : m = Absent
    BY <2>1 DEF Sized
  <2>3. months(u) # {}
    OBVIOUS
  <2> HIDE DEF months
  <2> QED BY <2>2, <2>3
<1> HIDE DEF months
<1> QED BY <1>1, <1>2

LEMMA RowsCounted ==
    ASSUME NEW S \in SUBSET Users
    PROVE  Cardinality(S \X {Absent}) = Cardinality(S)
<1>1. IsFiniteSet(S) /\ Cardinality(S) \in Nat
  BY WindowFinite
<1>2. IsFiniteSet({Absent}) /\ Cardinality({Absent}) = 1
  BY FS_Singleton
<1>3. Cardinality(S \X {Absent}) = Cardinality(S) * Cardinality({Absent})
  BY <1>1, <1>2, FS_Product
<1> QED BY <1>1, <1>2, <1>3

LEMMA RetentionAgrees == CollectionTypeOK => RetentionAgreesWithTrends
<1> SUFFICES ASSUME CollectionTypeOK, NEW a \in Times, NEW b \in Times,
                    Retention(a, b) # Error
             PROVE  LET retention == Retention(a, b)
                        trends == Trends(1, b, "month")
                    IN  /\ DOMAIN retention =
                              {m \in DOMAIN trends : trends[m].activeRegistrations > 0}
                        /\ \A m \in DOMAIN retention :
                              retention[m].totalActiveUsers = trends[m].activeRegistrations
  BY DEF RetentionAgreesWithTrends
<1> DEFINE rows == Unwound(Matched(b), a, b)
           at(m) == {u \in Matched(b) : Month(created[u]) = m}
           answer == [m \in {RowMonth(row) : row \in rows} |->
                         LET group == {row \in rows : RowMonth(row) = m}
                         IN  [totalActiveUsers |-> Cardinality(group),
                              newRegistrations |-> Cardinality({row \in group : IsNew(row)}),
                              usersWithSessions |-> 0,
                              retentionRate |-> 0]]
           trends == Trends(1, b, "month")
<1>1. Retention(a, b) = IF \E row \in rows : ~Sized(row) THEN Error ELSE answer
  BY DEF Retention, Matched
<1>2. Retention(a, b) = answer /\ \A row \in rows : Sized(row)
  BY <1>1
<1>3. rows = Matched(b) \X {Absent}
  BY <1>2, OneRowPerUser
<1>4. Matched(b) \in SUBSET Users
  BY DEF Matched, CollectionTypeOK, Documents
<1>5. \A u \in Matched(b) : RowMonth(<<u, Absent>>) = Month(created[u])
  BY DEF RowMonth
<1>6. ASSUME NEW m PROVE {row \in rows : RowMonth(row) = m} = at(m) \X {Absent}
  BY <1>3, <1>5
<1>7. \A m : m \in {RowMonth(row) : row \in rows} <=> at(m) # {}
  <2>1. {RowMonth(row) : row \in rows} = {Month(created[u]) : u \in Matched(b)}
    <3>1. ASSUME NEW row \in rows
          PROVE  RowMonth(row) \in {Month(created[u]) : u \in Matched(b)}
      <4>1. PICK u \in Matched(b) : row = <<u, Absent>>
        BY <1>3
      <4> QED BY <1>5, <4>1
    <3>2. ASSUME NEW u \in Matched(b)
          PROVE  Month(created[u]) \in {RowMonth(row) : row \in rows}
      <4>1. <<u, Absent>> \in rows
        BY <1>3
      <4> QED BY <1>5, <4>1
    <3> QED BY <3>1, <3>2
  <2> QED BY <2>1
<1>8. ASSUME NEW m PROVE at(m) = Group(1, b, "month", m) \cap active
  <2>1. \A u \in active : u \in Documents /\ 1 <= created[u]
    BY MaxTimePositive DEF CollectionTypeOK, Documents, Times, MaxTimePositive
  <2> QED BY <2>1 DEF Group, Window, Period, Month, Matched
<1>9. ASSUME NEW m
      PROVE  /\ Cardinality(at(m)) \in Nat
             /\ Cardinality(at(m)) > 0 <=> at(m) # {}
             /\ Cardinality(at(m) \X {Absent}) = Cardinality(at(m))
             /\ Row(trends, m).activeRegistrations = Cardinality(at(m))
             /\ m \in DOMAIN trends => Row(trends, m) = trends[m]
             /\ at(m) # {} => m \in DOMAIN trends
  <2>1. at(m) \in SUBSET Users
    BY <1>4
  <2>2. IsFiniteSet(at(m)) /\ Cardinality(at(m)) \in Nat
    BY <2>1, WindowFinite
  <2>3. Cardinality(at(m)) = 0 <=> at(m) = {}
    BY <2>2, FS_EmptySet
  <2>4. Cardinality(at(m)) > 0 <=> at(m) # {}
    BY <2>2, <2>3
  <2>5. Row(trends, m).activeRegistrations = Cardinality(at(m))
    <3> DEFINE one == 1
               month == "month"
    <3> HIDE DEF one, month
    <3>1. Row(Trends(one, b, month), m).activeRegistrations =
              Cardinality(Group(one, b, month, m) \cap active)
      BY RowOfGroup
    <3> QED BY <1>8, <3>1 DEF one, month
  <2>6. at(m) # {} => m \in DOMAIN trends
    BY <1>8, TrendsDomain
  <2>7. m \in DOMAIN trends => Row(trends, m) = trends[m]
    BY DEF Row
  <2> QED BY <2>1, <2>2, <2>4, <2>5, <2>6, <2>7, RowsCounted
<1>10. \A m : m \in DOMAIN answer <=> at(m) # {}
  BY <1>7
<1>11. \A m \in DOMAIN answer : answer[m].totalActiveUsers = Cardinality(at(m))
  BY <1>6, <1>9
<1> HIDE DEF rows, at, answer, trends
<1>12. DOMAIN answer = {m \in DOMAIN trends : trends[m].activeRegistrations > 0}
  BY <1>9, <1>10
<1>13. \A m \in DOMAIN answer :
          answer[m].totalActiveUsers = trends[m].activeRegistrations
  BY <1>9, <1>10, <1>11
<1> QED BY <1>2, <1>12, <1>13 DEF trends

-----------------------------------------------------------------------------
(* Two trends that meet add up to the trend of both windows: an end is     *)
(* counted with its window, and no instant with two.                       *)
THEOREM TrendsOfWindows == Spec => []TrendsAddUp
<1>1. ASSUME CollectionTypeOK PROVE TrendsAddUp
  <2>1. \A a, b, c \in Times, g \in Granularities : a <= b /\ b < c => Adds(a, b, c, g)
    BY <1>1, TrendsAdd
  <2> QED BY <2>1 DEF TrendsAddUp, Adds
<1> QED BY <1>1, Invariant, PTL

(* What a trend has said of registrations and churned ones, no write takes *)
(* back.                                                                   *)
THEOREM TrendsMonotonic == Spec => TrendsOnlyGrow
<1>1. CollectionTypeOK /\ [Next]_vars =>
         [\A a, b \in Times, g \in Granularities :
             \A p \in DOMAIN Trends(a, b, g), f \in {"registrations", "churnedRegistrations"} :
                /\ p \in DOMAIN Trends(a, b, g)'
                /\ Trends(a, b, g)[p][f] <= Trends(a, b, g)'[p][f]]_vars
  BY TrendsGrow
<1> QED BY <1>1, Invariant, PTL DEF Spec, TrendsOnlyGrow

(* A retention report that is answered counts the users the trends call    *)
(* active, month by month.                                                 *)
THEOREM RetentionIsOfTrends == Spec => []RetentionAgreesWithTrends
BY RetentionAgrees, Invariant, PTL
=============================================================================
