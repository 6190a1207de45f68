---------------------------- MODULE CachePromise ----------------------------
(***************************************************************************)
(* What the cache in front of the documents promises, whatever commands    *)
(* carry an invalidation out.  There are no cursors, pages or patterns     *)
(* here, and nothing says in which order entries go or what fails.         *)
(*                                                                         *)
(* An entry is an answer the database gave to one reader, who may need     *)
(* several commands for it: what counts is the first of them, which saw    *)
(* the oldest of what is in the answer.                                    *)
(*                                                                         *)
(* Whoever changed a document owes an invalidation of some keys, and this  *)
(* has two moments for each key: it begins, overtaking the readers that    *)
(* have asked the database before, and it may be promised to be done.  By  *)
(* then nothing older than the change is kept, or may still be kept, but   *)
(* what such a reader brings.                                              *)
(***************************************************************************)
EXTENDS Naturals

CONSTANTS Users, Keys, Procs, None

VARIABLES
    ver,        \* ver[u]: number of writes to the document of u
    held,       \* held[k]: the answer kept for k, or None
    reading,    \* reading[p]: what p has got so far and may keep
    duty,       \* duty[p]: the invalidation p owes, and of which keys
    promised    \* promised[k][u]: u's writes up to this one are done with k

promise == <<ver, held, reading, duty, promised>>

Sees(k) == IF k \in Users THEN {k} ELSE Users

Unwritten == [u \in Users |-> 0]
NoRead == [key |-> None, data |-> Unwritten, raced |-> FALSE]
NoDuty == [user |-> None, ver |-> 0, todo |-> {}, begun |-> {}]

Init ==
    /\ ver = Unwritten
    /\ held = [k \in Keys |-> None]
    /\ reading = [p \in Procs |-> NoRead]
    /\ duty = [p \in Procs |-> NoDuty]
    /\ promised = [k \in Keys |-> Unwritten]

-----------------------------------------------------------------------------
(* Writes.  Not every one of them owes an invalidation. *)

Write(u) ==
    /\ ver' = [ver EXCEPT ![u] = @ + 1]
    /\ UNCHANGED <<held, reading, promised>>

Owe(p, u, S) ==
    /\ duty[p] = NoDuty
    /\ ver[u] > 0
    /\ duty' = [duty EXCEPT ![p] = [user |-> u, ver |-> ver[u] + 1,
                                    todo |-> S, begun |-> {}]]

-----------------------------------------------------------------------------
(* Reads.  There is no answer for a document that does not exist.  Fetch   *)
(* is the first command; whatever else p asks for changes nothing here.    *)

Fetch(p, k) ==
    /\ reading[p] = NoRead
    /\ k \in Users => ver[k] > 0
    /\ reading' = [reading EXCEPT ![p] =
                      [key |-> k,
                       data |-> [u \in Users |-> IF u \in Sees(k) THEN ver[u] ELSE 0],
                       raced |-> FALSE]]
    /\ UNCHANGED <<ver, held, duty, promised>>

(* The answer is kept, or is not. *)
Return(p) ==
    /\ reading[p] # NoRead
    /\ reading' = [reading EXCEPT ![p] = NoRead]
    /\ \/ UNCHANGED held
       \/ held' = [held EXCEPT ![reading[p].key] =
                      [data |-> reading[p].data, raced |-> reading[p].raced]]
    /\ UNCHANGED <<ver, duty, promised>>

-----------------------------------------------------------------------------
(* Invalidations. *)

Drop(S) == held' = [k \in Keys |-> IF k \in S THEN None ELSE held[k]]

Overtake(S) ==
    reading' = [p \in Procs |-> [key |-> reading[p].key,
                                 data |-> reading[p].data,
                                 raced |-> reading[p].raced \/ reading[p].key \in S]]

(* Kept for k, or what a reader may still keep, after the step. *)
Around(k) ==
    ({held'[k]} \ {None}) \cup {reading'[p] : p \in {q \in Procs : reading'[q].key = k}}

Promise(S, u, v) ==
    /\ \A k \in S : u \in Sees(k) =>
          \A value \in Around(k) : value.raced \/ value.data[u] >= v
    /\ promised' = [k \in Keys |->
                       IF k \in S /\ u \in Sees(k) /\ v > promised[k][u]
                       THEN [promised[k] EXCEPT ![u] = v]
                       ELSE promised[k]]

(* p begins some keys, drops what it likes, promises some that have begun, *)
(* and goes on, perhaps with less, or ends.                                *)
Invalidate(p) ==
    LET d == duty[p] IN
    /\ d # NoDuty
    /\ \E begin \in SUBSET d.todo, gone \in SUBSET Keys :
       \E done \in SUBSET (d.begun \cup begin) :
          /\ Overtake(begin)
          /\ Drop(gone)
          /\ Promise(done, d.user, d.ver)
          /\ \/ duty' = [duty EXCEPT ![p] = NoDuty]
             \/ \E rest \in SUBSET (d.todo \ begin) :
                   duty' = [duty EXCEPT ![p] = [user |-> d.user, ver |-> d.ver,
                                                todo |-> rest,
                                                begun |-> (d.begun \cup begin) \ done]]
    /\ UNCHANGED ver

-----------------------------------------------------------------------------
Next ==
    \/ \E u \in Users :
          /\ Write(u)
          /\ UNCHANGED duty \/ \E p \in Procs, S \in SUBSET Keys : Owe(p, u, S)
    \/ \E p \in Procs : Invalidate(p) \/ Return(p) \/ \E k \in Keys : Fetch(p, k)
    \/ /\ \E gone \in SUBSET Keys : Drop(gone)
       /\ UNCHANGED <<ver, reading, duty, promised>>

Spec == Init /\ [][Next]_promise
=============================================================================
