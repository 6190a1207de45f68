----------------------------- MODULE Analytics -----------------------------
(***************************************************************************)
(* The aggregation pipelines of the query store that take a window of      *)
(* time, as functions of the users collection, and what their answers may  *)
(* be trusted to say about each other while accounts are registered and    *)
(* deactivated.                                                            *)
(*                                                                         *)
(* An answer is a function from the _id of a $group to the row of that     *)
(* group; the order of the rows and the names of months are left out.      *)
(* Nothing in src/ writes the sessions collection that the retention       *)
(* pipeline joins: here something outside does.                            *)
(***************************************************************************)
EXTENDS UserCollection

CONSTANTS
    Calendar,       \* the period an instant belongs to, by granularity
    MaxSessions,    \* bound: sessions there may be
    Absent,         \* a missing field
    Error           \* the aggregation fails

Granularities == {"day", "week", "month"}

ASSUME CalendarPeriods == Calendar \in [Granularities -> [Times -> Nat]]

VARIABLE
    sessions        \* the sessions, as user and createdAt

vars == <<created, active, sessions>>

Init == CollectionInit /\ sessions = {}

-----------------------------------------------------------------------------
(* Registration trends. *)

(* Mutant of Window: an end that is excluded. *)
WindowOpen(start, end) == {u \in Documents : start <= created[u] /\ created[u] < end}

(* Mutant of Window: of the active documents only. *)
WindowActive(start, end) == {u \in active : start <= created[u] /\ created[u] <= end}

Window(start, end) == {u \in Documents : start <= created[u] /\ created[u] <= end}

Period(granularity, u) == Calendar[granularity][created[u]]

Trends(start, end, granularity) ==
    LET users == Window(start, end)
    IN  [p \in {Period(granularity, u) : u \in users} |->
            LET group == {u \in users : Period(granularity, u) = p}
            IN  [registrations |-> Cardinality(group),
                 activeRegistrations |-> Cardinality(group \cap active),
                 churnedRegistrations |->
                    Cardinality(group) - Cardinality(group \cap active)]]

-----------------------------------------------------------------------------
(* Monthly retention. *)

Month(t) == Calendar["month"][t]

(* $lookup: the months in which a user has sessions, within the window. *)
ActiveMonths(u, start, end) ==
    {Month(t) : t \in {t \in start .. end : <<u, t>> \in sessions}}

(* Mutant of Unwound: without preserveNullAndEmptyArrays. *)
UnwoundInner(users, start, end) ==
    UNION {{u} \X ActiveMonths(u, start, end) : u \in users}

(* $unwind: a row per user and month, and one for a user without sessions. *)
Unwound(users, start, end) ==
    UNION {{u} \X (IF ActiveMonths(u, start, end) = {} THEN {Absent}
                   ELSE ActiveMonths(u, start, end)) : u \in users}

RowMonth(row) == IF row[2] = Absent THEN Month(created[row[1]]) ELSE row[2]

(* $eq with a missing field is false. *)
IsNew(row) == row[2] = Month(created[row[1]])

(* $size is of an array: after $unwind activeSessions is an array no more  *)
(* but absent, and taken for [], or an object, which is an error.          *)
Sized(row) == row[2] = Absent

Retention(start, end) ==
    LET matched == {u \in active : created[u] <= end}
        rows == Unwound(matched, start, end)
    IN  IF \E row \in rows : ~Sized(row) THEN Error
        ELSE [m \in {RowMonth(row) : row \in rows} |->
                LET group == {row \in rows : RowMonth(row) = m}
                IN  [totalActiveUsers |-> Cardinality(group),
                     newRegistrations |-> Cardinality({row \in group : IsNew(row)}),
                     usersWithSessions |-> 0,
                     retentionRate |-> 0]]

-----------------------------------------------------------------------------
(* Writes. *)

Register(u, t) == Insert(u, t) /\ UNCHANGED sessions

Deactivate(u) == SoftDelete(u) /\ UNCHANGED sessions

(* Outside src/. *)
OpenSession(u, t) ==
    /\ u \in Documents
    /\ Cardinality(sessions) < MaxSessions
    /\ sessions' = sessions \cup {<<u, t>>}
    /\ UNCHANGED <<created, active>>

(* The index idx_session_ttl_90d removes the sessions of an instant.       *)
ExpireSessions(t) ==
    /\ sessions' = {s \in sessions : s[2] # t}
    /\ sessions' # sessions
    /\ UNCHANGED <<created, active>>

Next ==
    \/ \E u \in Users, t \in Times : Register(u, t) \/ OpenSession(u, t)
    \/ \E t \in Times : ExpireSessions(t)
    \/ \E u \in Users : Deactivate(u)

Spec == Init /\ [][Next]_vars

-----------------------------------------------------------------------------
(* Properties. *)

Row(answer, p) ==
    IF p \in DOMAIN answer THEN answer[p]
    ELSE [registrations |-> 0, activeRegistrations |-> 0, churnedRegistrations |-> 0]

(* The trends of two windows that meet add up to those of both together:   *)
(* no registration is counted twice or lost at the boundary.               *)
TrendsAddUp ==
    \A a, b, c \in Times, g \in Granularities :
        a <= b /\ b < c =>
            LET first == Trends(a, b, g)
                second == Trends(b + 1, c, g)
                both == Trends(a, c, g)
            IN  /\ DOMAIN both = DOMAIN first \cup DOMAIN second
                /\ \A p \in DOMAIN both, f \in {"registrations", "activeRegistrations",
                                                "churnedRegistrations"} :
                      both[p][f] = Row(first, p)[f] + Row(second, p)[f]

(* What a report of trends has once said of a period only grows: accounts  *)
(* that are deactivated stay among the registrations and are churned for   *)
(* good.                                                                   *)
TrendsOnlyGrow ==
    [][\A a, b \in Times, g \in Granularities :
          \A p \in DOMAIN Trends(a, b, g), f \in {"registrations", "churnedRegistrations"} :
             /\ p \in DOMAIN Trends(a, b, g)'
             /\ Trends(a, b, g)[p][f] <= Trends(a, b, g)'[p][f]]_vars

(* A retention report that is answered and a report of trends from the     *)
(* first day on speak of the same accounts: totalActiveUsers of a month    *)
(* is its activeRegistrations.                                             *)
RetentionAgreesWithTrends ==
    \A a, b \in Times :
        LET retention == Retention(a, b)
            trends == Trends(1, b, "month")
        IN  retention # Error =>
               /\ DOMAIN retention =
                     {m \in DOMAIN trends : trends[m].activeRegistrations > 0}
               /\ \A m \in DOMAIN retention :
                     retention[m].totalActiveUsers = trends[m].activeRegistrations

(* As the comment on the pipeline has it: its $group counts the new        *)
(* registrations of each month.                                            *)
NewRegistrationsCounted ==
    \A a, b \in Times :
        LET retention == Retention(a, b)
        IN  retention # Error =>
               \A m \in DOMAIN retention :
                   retention[m].newRegistrations =
                       Cardinality({u \in active : created[u] <= b /\ Month(created[u]) = m})
=============================================================================
