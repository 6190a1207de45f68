----------------------------- MODULE Migrations -----------------------------
(***************************************************************************)
(* The migration runner, the two migrations, and the indexes Mongoose      *)
(* builds when the application boots.                                      *)
(*                                                                         *)
(* Every container runs "migrate:up && npm start", so several runners and  *)
(* applications work on one database.  There is no lock and _migrations    *)
(* has no unique index; every database command is one step, and a runner   *)
(* may stop (crash, or exit 1 on an error) between any two of them.        *)
(*                                                                         *)
(* A migration is the number of its file in filename order.  records is    *)
(* the collection _migrations in the order of appliedAt, taken to be the   *)
(* order of the inserts.                                                   *)
(***************************************************************************)
EXTENDS Naturals, Sequences, FiniteSets

CONSTANTS
    Runners,    \* processes of the migration CLI
    Apps,       \* processes of the application
    AllowDown,  \* bound: whether migrate:down is ever run
    Duplicates  \* whether two active accounts may have one email

ASSUME RunnersFinite == IsFiniteSet(Runners)
ASSUME AllowDownBool == AllowDown \in BOOLEAN
ASSUME DuplicatesBool == Duplicates \in BOOLEAN

(* unique stands for the options that tell two indexes on one key apart.   *)
Index(coll, name, key, unique) ==
    [of |-> coll, name |-> name, key |-> key, unique |-> unique]

(* A collection exists iff it has the index on _id. *)
Collection(coll) == Index(coll, "_id_", "_id", TRUE)

UserIndexes == <<
    Index("users", "idx_user_email", "email", FALSE),
    Index("users", "idx_user_role_createdAt", "role, createdAt", FALSE),
    Index("users", "idx_user_email_unique_active", "email", TRUE) >>

SessionIndexes == <<
    Collection("sessions"),
    Index("sessions", "idx_session_userId_createdAt", "userId, createdAt", FALSE),
    Index("sessions", "idx_session_ttl_90d", "createdAt", FALSE) >>

(* userSchema.index() gives no name: MongoDB derives it from the key. *)
SchemaIndexes == <<
    Index("users", "email_1", "email", FALSE),
    Index("users", "role_1_createdAt_-1", "role, createdAt", FALSE),
    Index("users", "email_1", "email", TRUE) >>

Creates == <<UserIndexes, SessionIndexes>>
Files == DOMAIN Creates

(* Mutant of Drops: the first down() forgets its last index. *)
DropsForgetful == <<2, 1>>

(* down() drops the user indexes one by one, the sessions all at once. *)
Drops == <<3, 1>>

(* Values of boot[a] besides 1 .. 3, the index that is built next. *)
Off == 0
Ready == 4
Failed == 5

VARIABLES
    indexes,    \* the indexes of the database
    records,    \* _migrations: the recorded files by appliedAt
    pc,         \* pc[r]: the next step of runner r
    todo,       \* todo[r]: the files r still has to apply, or is reverting
    step,       \* step[r]: the next command of the migration at hand
    boot,       \* boot[a]: how far Mongoose is with SchemaIndexes
    overlapped, \* history: two commands of the CLI have been in progress
    reverted,   \* history: files whose down() was ever begun
    torn        \* history: files whose up() stopped midway, or one of whose
                \* drops failed, since their last down() began

vars == <<indexes, records, pc, todo, step, boot, overlapped, reverted, torn>>

AllIndexes ==
    {UserIndexes[n] : n \in 1 .. 3} \cup {SessionIndexes[n] : n \in 1 .. 3}
        \cup {SchemaIndexes[n] : n \in 1 .. 3} \cup {Collection("users")}

Recorded == {records[i] : i \in DOMAIN records}

TypeOK ==
    /\ indexes \subseteq AllIndexes
    /\ records \in Seq(Files)
    /\ pc \in [Runners -> {"idle", "up", "record", "down", "erase"}]
    /\ todo \in [Runners -> SUBSET Files]
    /\ step \in [Runners -> 1 .. 3]
    /\ boot \in [Apps -> Off .. Failed]
    /\ overlapped \in BOOLEAN
    /\ reverted \subseteq Files
    /\ torn \subseteq Files

Init ==
    /\ indexes = {}
    /\ records = <<>>
    /\ pc = [r \in Runners |-> "idle"]
    /\ todo = [r \in Runners |-> {}]
    /\ step = [r \in Runners |-> 1]
    /\ boot = [a \in Apps |-> Off]
    /\ overlapped = FALSE
    /\ reverted = {}
    /\ torn = {}

-----------------------------------------------------------------------------
(* MongoDB refuses an index whose name another index has, and one whose    *)
(* key and options another index has under another name; the very same     *)
(* index it leaves as it is.                                               *)
Conflict(ix) ==
    \E i \in indexes :
        /\ i # ix
        /\ i.of = ix.of
        /\ i.name = ix.name \/ (i.key = ix.key /\ i.unique = ix.unique)

CreateIndex(ix) ==
    /\ ~Conflict(ix)
    /\ indexes' = indexes \cup {Collection(ix.of), ix}

Applied(f) == \A i \in DOMAIN Creates[f] : Creates[f][i] \in indexes

(* Mutant of Oldest: the files are sorted the other way round. *)
Newest(S) == CHOOSE f \in S : \A g \in S : f >= g

(* The file at hand: pending files are applied oldest first. *)
Oldest(S) == CHOOSE f \in S : \A g \in S : f <= g
Current(r) == Oldest(todo[r])

Begin(r, next, files) ==
    /\ pc[r] = "idle"
    /\ pc' = [pc EXCEPT ![r] = next]
    /\ todo' = [todo EXCEPT ![r] = files]
    /\ step' = [step EXCEPT ![r] = 1]
    /\ overlapped' = (overlapped \/ \E q \in Runners : pc[q] # "idle")

Stop(r) ==
    /\ pc' = [pc EXCEPT ![r] = "idle"]
    /\ todo' = [todo EXCEPT ![r] = {}]
    /\ step' = [step EXCEPT ![r] = 1]

(* Mutant of Advance: one command too many. *)
AdvancePast(r, last, next) ==
    IF step[r] <= last
    THEN /\ step' = [step EXCEPT ![r] = @ + 1]
         /\ UNCHANGED pc
    ELSE /\ step' = [step EXCEPT ![r] = 1]
         /\ pc' = [pc EXCEPT ![r] = next]

(* After each of the last commands of a migration: the next one, or pc =   *)
(* next.                                                                   *)
Advance(r, last, next) ==
    IF step[r] < last
    THEN /\ step' = [step EXCEPT ![r] = @ + 1]
         /\ UNCHANGED pc
    ELSE /\ step' = [step EXCEPT ![r] = 1]
         /\ pc' = [pc EXCEPT ![r] = next]

-----------------------------------------------------------------------------
(* MigrationRunner.up *)

(* Mutant of Pending: the records are not consulted. *)
PendingAll == Files

Pending == Files \ Recorded

Up(r) ==
    /\ Pending # {}
    /\ Begin(r, "up", Pending)
    /\ UNCHANGED <<indexes, records, boot, reverted, torn>>

(* Mutant of ApplyStep: the record is written after the first command. *)
ApplyFirstOnly(r) ==
    /\ pc[r] = "up"
    /\ CreateIndex(Creates[Current(r)][step[r]])
    /\ Advance(r, 1, "record")
    /\ UNCHANGED <<records, todo, boot, overlapped, reverted, torn>>

ApplyStep(r) ==
    LET f == Current(r) IN
    /\ pc[r] = "up"
    /\ CreateIndex(Creates[f][step[r]])
    /\ Advance(r, Len(Creates[f]), "record")
    /\ UNCHANGED <<records, todo, boot, overlapped, reverted, torn>>

InsertRecord(r) ==
    LET rest == todo[r] \ {Current(r)} IN
    /\ pc[r] = "record"
    /\ records' = Append(records, Current(r))
    /\ IF rest = {}
       THEN Stop(r)
       ELSE /\ pc' = [pc EXCEPT ![r] = "up"]
            /\ todo' = [todo EXCEPT ![r] = rest]
            /\ UNCHANGED step
    /\ UNCHANGED <<indexes, boot, overlapped, reverted, torn>>

-----------------------------------------------------------------------------
(* MigrationRunner.down *)

(* Mutant of LastApplied: sorted the other way round. *)
FirstApplied == records[1]

LastApplied == records[Len(records)]

Down(r) ==
    /\ AllowDown
    /\ records # <<>>
    /\ Begin(r, "down", {LastApplied})
    /\ reverted' = reverted \cup {LastApplied}
    /\ torn' = torn \ {LastApplied}
    /\ UNCHANGED <<indexes, records, boot>>

(* What command n of the down() of file f removes. *)
Removes(f, n) ==
    IF f = 1 THEN {UserIndexes[n]} ELSE {i \in indexes : i.of = "sessions"}

(* down() swallows every error: a command that did not succeed counts as   *)
(* done, executed or not.                                                  *)
DropStep(r, executed) ==
    LET f == Current(r) IN
    /\ pc[r] = "down"
    /\ indexes' = IF executed THEN indexes \ Removes(f, step[r]) ELSE indexes
    /\ torn' = IF executed THEN torn ELSE torn \cup {f}
    /\ Advance(r, Drops[f], "erase")
    /\ UNCHANGED <<records, todo, boot, overlapped, reverted>>

(* deleteOne removes the first record of the file, if there is one. *)
DeleteOne(f) ==
    \/ /\ f \notin Recorded
       /\ UNCHANGED records
    \/ \E n \in DOMAIN records :
          /\ records[n] = f
          /\ \A m \in 1 .. n - 1 : records[m] # f
          /\ records' = SubSeq(records, 1, n - 1) \o SubSeq(records, n + 1, Len(records))

EraseRecord(r) ==
    /\ pc[r] = "erase"
    /\ DeleteOne(Current(r))
    /\ Stop(r)
    /\ UNCHANGED <<indexes, boot, overlapped, reverted, torn>>

(* A crash, or an error of a command of up(), such as a unique index over  *)
(* duplicates: the CLI exits.                                              *)
Quit(r) ==
    /\ pc[r] # "idle"
    /\ Stop(r)
    /\ torn' = IF pc[r] \in {"up", "record"} THEN torn \cup {Current(r)} ELSE torn
    /\ UNCHANGED <<indexes, records, boot, overlapped, reverted>>

-----------------------------------------------------------------------------
(* The application boots: Mongoose builds the indexes of the schema one    *)
(* after another and gives up at the first error.  The application runs    *)
(* all the same.                                                           *)

Boot(a) ==
    /\ boot[a] = Off
    /\ boot' = [boot EXCEPT ![a] = 1]
    /\ UNCHANGED <<indexes, records, pc, todo, step, overlapped, reverted, torn>>

EnsureIndex(a) ==
    /\ boot[a] \in 1 .. 3
    /\ CreateIndex(SchemaIndexes[boot[a]])
    /\ boot' = [boot EXCEPT ![a] = @ + 1]
    /\ UNCHANGED <<records, pc, todo, step, overlapped, reverted, torn>>

(* A unique index that is not there cannot be built over duplicates. *)
EnsureIndexFails(a) ==
    LET ix == SchemaIndexes[boot[a]] IN
    /\ boot[a] \in 1 .. 3
    /\ Conflict(ix) \/ (Duplicates /\ ix.unique /\ ix \notin indexes)
    /\ boot' = [boot EXCEPT ![a] = Failed]
    /\ UNCHANGED <<indexes, records, pc, todo, step, overlapped, reverted, torn>>

Exit(a) ==
    /\ boot[a] # Off
    /\ boot' = [boot EXCEPT ![a] = Off]
    /\ UNCHANGED <<indexes, records, pc, todo, step, overlapped, reverted, torn>>

Next ==
    \/ \E r \in Runners :
          \/ Up(r) \/ ApplyStep(r) \/ InsertRecord(r)
          \/ Down(r)
          \/ \E executed \in BOOLEAN : DropStep(r, executed)
          \/ EraseRecord(r)
          \/ Quit(r)
    \/ \E a \in Apps : Boot(a) \/ EnsureIndex(a) \/ EnsureIndexFails(a) \/ Exit(a)

Spec == Init /\ [][Next]_vars

-----------------------------------------------------------------------------
(* Properties. *)

(* Whatever runners overlap or crash and whenever applications boot, a     *)
(* recorded migration has its indexes, unless its down() was ever begun.   *)
RecordedIsApplied == \A f \in Recorded \ reverted : Applied(f)

(* As long as nothing is reverted, the recorded files have no gap, although *)
(* runners that overlap insert their records in any interleaving.          *)
NoGaps ==
    reverted = {} => \A f \in Recorded : \A g \in Files : g < f => g \in Recorded

(* One command at a time keeps the records the list of the oldest files,   *)
(* in order and each once, through crashes, reverts and drops that failed  *)
(* unnoticed; so down() reverts the newest file, and up() continues there. *)
InOrderUnlessOverlapped ==
    ~overlapped => \A i \in DOMAIN records : records[i] = i

(* A file is recorded at most once per runner, however often runners crash *)
(* and start again: a duplicate takes a second runner that looked before   *)
(* the first one recorded the file.                                        *)
OncePerRunner ==
    \A f \in Files :
        Cardinality({i \in DOMAIN records : records[i] = f}) <= Cardinality(Runners)

(* One command at a time, an index of a migration that is neither recorded *)
(* nor being applied was left by an up() that stopped midway, or by a drop *)
(* that failed unnoticed: the record is gone and the index is not.  And a  *)
(* down() all of whose drops succeed leaves nothing, whatever crashes and  *)
(* failed drops of the same file came before it.                           *)
LeftoverHasCause ==
    ~overlapped =>
        \A f \in Files \ (Recorded \cup torn) :
            (\A r \in Runners : pc[r] \in {"up", "record"} => Current(r) # f)
                => \A i \in DOMAIN Creates[f] : Creates[f][i] \notin indexes

(* "The _migrations collection tracks which migrations have been applied": *)
(* when no runner is at work, a recorded migration has its indexes.        *)
TracksApplied ==
    (\A r \in Runners : pc[r] = "idle") => \A f \in Recorded : Applied(f)

(* "Partial index - unique email constraint ONLY for active accounts": an   *)
(* application that has built the indexes of its schema, or has failed to, *)
(* has that one when no runner is at work.                                 *)
BootMakesEmailUnique ==
    (\A r \in Runners : pc[r] = "idle") =>
    \A a \in Apps : boot[a] \in {Ready, Failed} =>
        \E i \in indexes : i.of = "users" /\ i.key = "email" /\ i.unique
=============================================================================
