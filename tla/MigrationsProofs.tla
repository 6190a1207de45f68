-------------------------- MODULE MigrationsProofs --------------------------
(***************************************************************************)
(* Proofs about Migrations, for any sets of runners and applications.      *)
(***************************************************************************)
EXTENDS Migrations, SequenceTheorems, FiniteSetTheorems, TLAPS

LEMMA FilesAre ==
    /\ Files = {1, 2}
    /\ \A f \in Files : Len(Creates[f]) = 3
    /\ \A f \in Files : DOMAIN Creates[f] = 1 .. 3
    /\ \A f \in Files : Drops[f] \in 1 .. 3
<1>1. Files = {1, 2}
  BY DEF Files, Creates
<1>2. Creates[1] = UserIndexes /\ Creates[2] = SessionIndexes
  BY DEF Creates
<1>3. Len(UserIndexes) = 3 /\ DOMAIN UserIndexes = 1 .. 3
  BY DEF UserIndexes
<1>4. Len(SessionIndexes) = 3 /\ DOMAIN SessionIndexes = 1 .. 3
  BY DEF SessionIndexes
<1>5. Drops[1] = 3 /\ Drops[2] = 1
  BY DEF Drops
<1> QED BY <1>1, <1>2, <1>3, <1>4, <1>5

(* The commands of the migrations and of Mongoose create known indexes. *)
LEMMA CreatesKnown ==
    ASSUME NEW n \in 1 .. 3
    PROVE  /\ UserIndexes[n] \in AllIndexes /\ UserIndexes[n].of = "users"
           /\ SessionIndexes[n] \in AllIndexes /\ SessionIndexes[n].of = "sessions"
           /\ SchemaIndexes[n] \in AllIndexes /\ SchemaIndexes[n].of = "users"
<1>1. UserIndexes[n] \in AllIndexes /\ SessionIndexes[n] \in AllIndexes
      /\ SchemaIndexes[n] \in AllIndexes
  BY DEF AllIndexes
<1>2. CASE n = 1
  BY <1>1, <1>2 DEF UserIndexes, SessionIndexes, SchemaIndexes, Collection, Index
<1>3. CASE n = 2
  BY <1>1, <1>3 DEF UserIndexes, SessionIndexes, SchemaIndexes, Index
<1>4. CASE n = 3
  BY <1>1, <1>4 DEF UserIndexes, SessionIndexes, SchemaIndexes, Index
<1> QED BY <1>2, <1>3, <1>4

(* The collections are those of the migrations. *)
LEMMA CollectionsKnown ==
    /\ Collection("users") \in AllIndexes
    /\ Collection("sessions") \in AllIndexes
<1>1. Collection("sessions") = SessionIndexes[1]
  BY DEF SessionIndexes
<1>2. Collection("users") \in AllIndexes
  BY DEF AllIndexes
<1> QED BY <1>1, <1>2, CreatesKnown

LEMMA FileCreatesKnown ==
    ASSUME NEW f \in Files, NEW n \in 1 .. 3
    PROVE  /\ Creates[f][n] \in AllIndexes
           /\ Collection(Creates[f][n].of) \in AllIndexes
<1>1. Creates[1] = UserIndexes /\ Creates[2] = SessionIndexes
  BY DEF Creates
<1>2. CASE f = 1
  BY <1>1, <1>2, CreatesKnown, CollectionsKnown
<1>3. CASE f = 2
  BY <1>1, <1>3, CreatesKnown, CollectionsKnown
<1> QED BY <1>2, <1>3, FilesAre

(* What down() of one file removes is not created by the other. *)
LEMMA RemovesOwn ==
    ASSUME NEW f \in Files, NEW g \in Files, f # g, NEW n \in 1 .. 3,
           NEW i \in 1 .. 3
    PROVE  Creates[g][i] \notin Removes(f, n)
<1>1. Creates[1] = UserIndexes /\ Creates[2] = SessionIndexes
  BY DEF Creates
<1>2. CASE f = 1 /\ g = 2
  <2>1. SessionIndexes[i].of # UserIndexes[n].of
    BY CreatesKnown
  <2> QED BY <1>1, <1>2, <2>1 DEF Removes
<1>3. CASE f = 2 /\ g = 1
  <2>1. UserIndexes[i].of # "sessions"
    BY CreatesKnown
  <2> QED BY <1>1, <1>3, <2>1 DEF Removes
<1> QED BY <1>2, <1>3, FilesAre

LEMMA OldestIs ==
    ASSUME NEW S \in SUBSET Files, S # {}
    PROVE  Oldest(S) \in S /\ Oldest(S) \in Files /\ \A g \in S : Oldest(S) <= g
<1>1. CASE 1 \in S
  <2>1. \A g \in S : 1 <= g
    BY FilesAre
  <2> QED BY <1>1, <2>1 DEF Oldest
<1>2. CASE 1 \notin S
  <2>1. S = {2}
    BY <1>2, FilesAre
  <2>2. \A g \in S : 2 <= g
    BY <2>1
  <2> QED BY <2>1, <2>2 DEF Oldest
<1> QED BY <1>1, <1>2

(* A successful createIndex keeps the other indexes. *)
LEMMA CreateIndexAdds ==
    ASSUME TypeOK, NEW ix \in AllIndexes, Collection(ix.of) \in AllIndexes,
           CreateIndex(ix)
    PROVE  indexes' \subseteq AllIndexes /\ indexes \subseteq indexes' /\ ix \in indexes'
BY DEF TypeOK, CreateIndex

LEMMA RecordedByInsert ==
    ASSUME records \in Seq(Files), NEW f \in Files, records' = Append(records, f)
    PROVE  records' \in Seq(Files) /\ Recorded' = Recorded \cup {f}
<1>1. /\ Append(records, f) \in Seq(Files)
      /\ Len(Append(records, f)) = Len(records) + 1
      /\ \A i \in 1 .. Len(records) : Append(records, f)[i] = records[i]
      /\ Append(records, f)[Len(records) + 1] = f
  BY AppendProperties
<1>2. /\ Len(records) \in Nat
      /\ DOMAIN records = 1 .. Len(records)
      /\ DOMAIN records' = 1 .. Len(records) + 1
  BY <1>1
<1> QED BY <1>1, <1>2 DEF Recorded

LEMMA RecordedByErase ==
    ASSUME records \in Seq(Files), NEW f \in Files, DeleteOne(f)
    PROVE  records' \in Seq(Files) /\ Recorded' \subseteq Recorded
<1>1. CASE UNCHANGED records
  BY <1>1 DEF Recorded
<1>2. ASSUME NEW n \in DOMAIN records,
             records' = SubSeq(records, 1, n - 1) \o SubSeq(records, n + 1, Len(records))
      PROVE  records' \in Seq(Files) /\ Recorded' \subseteq Recorded
  <2> DEFINE s1 == SubSeq(records, 1, n - 1)
             s2 == SubSeq(records, n + 1, Len(records))
  <2>1. n \in 1 .. Len(records) /\ Len(records) \in Nat
        /\ \A i \in 1 .. Len(records) : records[i] \in Files /\ records[i] \in Recorded
    BY DEF Recorded
  <2>2. /\ s1 \in Seq(Files)
        /\ \A i \in 1 .. Len(s1) : s1[i] \in Recorded
    <3>1. /\ s1 \in Seq(Files)
          /\ Len(s1) = IF 1 <= n - 1 THEN n - 1 - 1 + 1 ELSE 0
          /\ \A i \in 1 .. n - 1 - 1 + 1 : s1[i] = records[1 + i - 1]
      BY <2>1, SubSeqProperties
    <3> HIDE DEF s1
    <3> QED BY <2>1, <3>1
  <2>3. /\ s2 \in Seq(Files)
        /\ \A i \in 1 .. Len(s2) : s2[i] \in Recorded
    <3>1. /\ s2 \in Seq(Files)
          /\ Len(s2) = IF n + 1 <= Len(records) THEN Len(records) - (n + 1) + 1 ELSE 0
          /\ \A i \in 1 .. Len(records) - (n + 1) + 1 : s2[i] = records[n + 1 + i - 1]
      BY <2>1, SubSeqProperties
    <3> HIDE DEF s2
    <3>2. ASSUME NEW i \in 1 .. Len(s2) PROVE s2[i] \in Recorded
      <4>1. /\ i \in 1 .. Len(records) - (n + 1) + 1
            /\ n + 1 + i - 1 \in 1 .. Len(records)
        BY <2>1, <3>1
      <4> QED BY <2>1, <3>1, <4>1
    <3> QED BY <3>1, <3>2
  <2>4. records' = s1 \o s2
    BY <1>2
  <2> HIDE DEF s1, s2
  <2>5. /\ s1 \o s2 \in Seq(Files)
        /\ Len(s1 \o s2) = Len(s1) + Len(s2)
        /\ \A i \in 1 .. Len(s1) + Len(s2) :
              (s1 \o s2)[i] = IF i <= Len(s1) THEN s1[i] ELSE s2[i - Len(s1)]
    BY <2>2, <2>3, ConcatProperties
  <2>6. \A i \in 1 .. Len(s1) + Len(s2) : (s1 \o s2)[i] \in Recorded
    <3> TAKE i \in 1 .. Len(s1) + Len(s2)
    <3>1. Len(s1) \in Nat /\ Len(s2) \in Nat
      BY <2>2, <2>3
    <3>2. CASE i <= Len(s1)
      BY <3>1, <3>2, <2>2, <2>5
    <3>3. CASE ~(i <= Len(s1))
      <4>1. i - Len(s1) \in 1 .. Len(s2)
        BY <3>1, <3>3
      <4> QED BY <4>1, <3>3, <2>3, <2>5
    <3> QED BY <3>2, <3>3
  <2>7. DOMAIN records' = 1 .. Len(s1) + Len(s2)
    BY <2>4, <2>5
  <2>8. Recorded' \subseteq Recorded
    <3>1. Recorded' = {records'[i] : i \in DOMAIN records'}
      BY DEF Recorded
    <3>2. \A i \in DOMAIN records' : records'[i] \in Recorded
      BY <2>4, <2>6, <2>7
    <3> QED BY <3>1, <3>2
  <2> QED BY <2>4, <2>5, <2>8
<1> QED BY <1>1, <1>2 DEF DeleteOne

-----------------------------------------------------------------------------
(* The inductive invariant: a runner that applies file f has created what  *)
(* the commands so far create, and, as long as nothing is reverted, every  *)
(* file it does not still have to apply is recorded.                       *)

AtWork(r) ==
    /\ pc[r] # "idle" => todo[r] # {}
    /\ pc[r] = "down" => step[r] <= Drops[Current(r)]
    /\ pc[r] = "record" => step[r] = 1
    /\ pc[r] \in {"down", "erase"} => Current(r) \in reverted

Created(r) ==
    Current(r) \notin reverted =>
        /\ pc[r] = "up" =>
              \A i \in 1 .. step[r] - 1 : Creates[Current(r)][i] \in indexes
        /\ pc[r] = "record" =>
              \A i \in 1 .. 3 : Creates[Current(r)][i] \in indexes

OthersRecorded(r) ==
    reverted = {} /\ pc[r] \in {"up", "record"} => Files \ todo[r] \subseteq Recorded

IInv ==
    /\ TypeOK
    /\ \A r \in Runners : AtWork(r) /\ Created(r) /\ OthersRecorded(r)
    /\ RecordedIsApplied
    /\ NoGaps

LEMMA AppliedIs ==
    ASSUME NEW f \in Files
    PROVE  Applied(f) <=> \A i \in 1 .. 3 : Creates[f][i] \in indexes
BY FilesAre DEF Applied

LEMMA InitIInv == Init => IInv
<1> SUFFICES ASSUME Init PROVE IInv
  OBVIOUS
<1>1. Recorded = {}
  BY DEF Init, Recorded
<1>2. TypeOK
  <2>1. records \in Seq(Files)
    BY DEF Init
  <2>2. boot \in [Apps -> Off .. Failed]
    BY DEF Init, Off, Failed
  <2>3. /\ pc \in [Runners -> {"idle", "up", "record", "down", "erase"}]
        /\ todo \in [Runners -> SUBSET Files]
        /\ step \in [Runners -> 1 .. 3]
    BY DEF Init
  <2>4. /\ indexes \subseteq AllIndexes /\ overlapped \in BOOLEAN
        /\ reverted \subseteq Files /\ torn \subseteq Files
    BY DEF Init
  <2> QED BY <2>1, <2>2, <2>3, <2>4 DEF TypeOK
<1> QED BY <1>1, <1>2 DEF Init, IInv, AtWork, Created, OthersRecorded,
             RecordedIsApplied, NoGaps

(* What the actions need to know of the runner that acts. *)
LEMMA AtHand ==
    ASSUME IInv, NEW r \in Runners
    PROVE  /\ todo[r] \subseteq Files
           /\ step[r] \in 1 .. 3
           /\ pc[r] # "idle" => /\ todo[r] # {}
                                /\ Current(r) \in todo[r]
                                /\ Current(r) \in Files
                                /\ \A g \in todo[r] : Current(r) <= g
<1>1. todo[r] \subseteq Files /\ step[r] \in 1 .. 3
  BY DEF IInv, TypeOK
<1>2. pc[r] # "idle" => todo[r] # {}
  BY DEF IInv, AtWork
<1> QED BY <1>1, <1>2, OldestIs DEF Current

(* What one runner, or an application, may do without disturbing another   *)
(* runner q: it keeps what the migrations that were never reverted have    *)
(* created, and as long as there was no revert it keeps the records.       *)
LEMMA Undisturbed ==
    ASSUME IInv, NEW q \in Runners,
           pc'[q] = pc[q], todo'[q] = todo[q], step'[q] = step[q],
           reverted \subseteq reverted', reverted' \subseteq Files,
           \A g \in Files \ reverted' : \A i \in 1 .. 3 :
               Creates[g][i] \in indexes => Creates[g][i] \in indexes',
           reverted' = {} => Recorded \subseteq Recorded'
    PROVE  AtWork(q)' /\ Created(q)' /\ OthersRecorded(q)'
<1>1. Current(q)' = Current(q)
  BY DEF Current
<1>2. AtWork(q) /\ Created(q) /\ OthersRecorded(q)
  BY DEF IInv
<1>3. AtWork(q)'
  BY <1>1, <1>2 DEF AtWork
<1>4. Created(q)'
  <2> SUFFICES ASSUME Current(q) \notin reverted'
               PROVE  /\ pc[q] = "up" =>
                            \A i \in 1 .. step[q] - 1 : Creates[Current(q)][i] \in indexes'
                      /\ pc[q] = "record" =>
                            \A i \in 1 .. 3 : Creates[Current(q)][i] \in indexes'
    BY <1>1 DEF Created
  <2>1. ASSUME pc[q] = "up", NEW i \in 1 .. step[q] - 1
        PROVE  Creates[Current(q)][i] \in indexes'
    <3>1. Creates[Current(q)][i] \in indexes
      BY <1>2, <2>1 DEF Created
    <3>2. i \in 1 .. 3 /\ Current(q) \in Files
      BY <2>1, AtHand
    <3> QED BY <3>1, <3>2
  <2>2. ASSUME pc[q] = "record", NEW i \in 1 .. 3
        PROVE  Creates[Current(q)][i] \in indexes'
    <3>1. Creates[Current(q)][i] \in indexes
      BY <1>2, <2>2 DEF Created
    <3>2. Current(q) \in Files
      BY <2>2, AtHand
    <3> QED BY <3>1, <3>2
  <2> QED BY <2>1, <2>2
<1>5. OthersRecorded(q)'
  BY <1>2 DEF OthersRecorded
<1> QED BY <1>3, <1>4, <1>5

(* The properties of the records survive when no file is recorded anew. *)
LEMMA RecordsKept ==
    ASSUME IInv, records' \in Seq(Files),
           Recorded' \subseteq Recorded,
           reverted \subseteq reverted',
           \A g \in Files \ reverted' : \A i \in 1 .. 3 :
               Creates[g][i] \in indexes => Creates[g][i] \in indexes',
           reverted' = {} => Recorded' = Recorded
    PROVE  RecordedIsApplied' /\ NoGaps'
<1>1. Recorded \subseteq Files
  BY DEF IInv, TypeOK, Recorded
<1>2. RecordedIsApplied'
  <2> SUFFICES ASSUME NEW f \in Recorded', f \notin reverted'
               PROVE  Applied(f)'
    BY DEF RecordedIsApplied
  <2>1. f \in Files /\ Applied(f)
    BY <1>1 DEF IInv, RecordedIsApplied
  <2>2. \A i \in 1 .. 3 : Creates[f][i] \in indexes'
    BY <2>1, AppliedIs
  <2> QED BY <2>1, <2>2, FilesAre DEF Applied
<1>3. NoGaps'
  BY DEF IInv, NoGaps
<1> QED BY <1>2, <1>3

LEMMA UpKeeps ==
    ASSUME IInv, NEW r \in Runners, Up(r)
    PROVE  IInv'
<1>1. /\ UNCHANGED <<indexes, records, boot, reverted, torn>>
      /\ pc' = [pc EXCEPT ![r] = "up"]
      /\ todo' = [todo EXCEPT ![r] = Pending]
      /\ step' = [step EXCEPT ![r] = 1]
      /\ overlapped' \in BOOLEAN
      /\ Pending # {}
  BY DEF Up, Begin
<1>2. Recorded' = Recorded
  BY <1>1 DEF Recorded
<1>3. TypeOK'
  BY <1>1 DEF IInv, TypeOK, Pending
<1>4. \A q \in Runners \ {r} : AtWork(q)' /\ Created(q)' /\ OthersRecorded(q)'
  <2>1. \A q \in Runners \ {r} :
           pc'[q] = pc[q] /\ todo'[q] = todo[q] /\ step'[q] = step[q]
    BY <1>1 DEF IInv, TypeOK
  <2> QED BY <1>1, <1>2, <2>1, Undisturbed DEF IInv, TypeOK
<1>5. pc'[r] = "up" /\ todo'[r] = Pending /\ step'[r] = 1
  BY <1>1 DEF IInv, TypeOK
<1>6. AtWork(r)' /\ Created(r)' /\ OthersRecorded(r)'
  BY <1>1, <1>2, <1>5 DEF AtWork, Created, OthersRecorded, Pending
<1>7. RecordedIsApplied' /\ NoGaps'
  BY <1>1, <1>2, RecordsKept DEF IInv, TypeOK
<1> QED BY <1>3, <1>4, <1>6, <1>7 DEF IInv

LEMMA ApplyStepKeeps ==
    ASSUME IInv, NEW r \in Runners, ApplyStep(r)
    PROVE  IInv'
<1> DEFINE f == Current(r)
           n == step[r]
<1>1. /\ pc[r] = "up"
      /\ f \in Files
      /\ n \in 1 .. 3
      /\ Len(Creates[f]) = 3
  BY AtHand, FilesAre DEF ApplyStep
<1>2. /\ UNCHANGED <<records, todo, boot, overlapped, reverted, torn>>
      /\ indexes' \subseteq AllIndexes
      /\ indexes \subseteq indexes'
      /\ Creates[f][n] \in indexes'
  BY <1>1, FileCreatesKnown, CreateIndexAdds DEF ApplyStep, IInv
<1>3. IF n < 3 THEN /\ step' = [step EXCEPT ![r] = n + 1]
                    /\ pc' = pc
               ELSE /\ step' = [step EXCEPT ![r] = 1]
                    /\ pc' = [pc EXCEPT ![r] = "record"]
  BY <1>1 DEF ApplyStep, Advance
<1>4. Recorded' = Recorded
  BY <1>2 DEF Recorded
<1>5. TypeOK'
  <2>1. step' \in [Runners -> 1 .. 3]
    BY <1>1, <1>3 DEF IInv, TypeOK
  <2>2. pc' \in [Runners -> {"idle", "up", "record", "down", "erase"}]
    BY <1>3 DEF IInv, TypeOK
  <2> QED BY <1>2, <2>1, <2>2 DEF IInv, TypeOK
<1>6. \A q \in Runners \ {r} : AtWork(q)' /\ Created(q)' /\ OthersRecorded(q)'
  <2>1. \A q \in Runners \ {r} :
           pc'[q] = pc[q] /\ todo'[q] = todo[q] /\ step'[q] = step[q]
    BY <1>2, <1>3 DEF IInv, TypeOK
  <2> QED BY <1>2, <1>4, <2>1, Undisturbed DEF IInv, TypeOK
<1>7. IF n < 3 THEN step'[r] = n + 1 /\ pc'[r] = "up"
               ELSE step'[r] = 1 /\ pc'[r] = "record"
  BY <1>1, <1>3 DEF IInv, TypeOK
<1>8. todo'[r] = todo[r] /\ Current(r)' = f
  BY <1>2 DEF Current
<1>9. AtWork(r)' /\ OthersRecorded(r)'
  BY <1>1, <1>2, <1>4, <1>7, <1>8, AtHand DEF IInv, AtWork, OthersRecorded
<1>10. Created(r)'
  <2> SUFFICES ASSUME f \notin reverted
               PROVE  \A i \in 1 .. n : Creates[f][i] \in indexes'
    BY <1>1, <1>2, <1>7, <1>8 DEF Created
  <2>1. \A i \in 1 .. n - 1 : Creates[f][i] \in indexes
    BY <1>1 DEF IInv, Created
  <2>2. \A i \in 1 .. n : i \in 1 .. n - 1 \/ i = n
    BY <1>1
  <2> QED BY <1>2, <2>1, <2>2
<1>11. RecordedIsApplied' /\ NoGaps'
  BY <1>2, <1>4, RecordsKept DEF IInv, TypeOK
<1> QED BY <1>5, <1>6, <1>9, <1>10, <1>11 DEF IInv

LEMMA InsertRecordKeeps ==
    ASSUME IInv, NEW r \in Runners, InsertRecord(r)
    PROVE  IInv'
<1> DEFINE f == Current(r)
           rest == todo[r] \ {f}
<1>1. /\ pc[r] = "record"
      /\ f \in Files /\ f \in todo[r] /\ todo[r] \subseteq Files
      /\ \A g \in todo[r] : f <= g
      /\ UNCHANGED <<indexes, boot, overlapped, reverted, torn>>
      /\ records' = Append(records, f)
  BY AtHand DEF InsertRecord
<1>2. records' \in Seq(Files) /\ Recorded' = Recorded \cup {f}
  BY <1>1, RecordedByInsert DEF IInv, TypeOK
<1>3. \/ /\ pc' = [pc EXCEPT ![r] = "idle"]
         /\ todo' = [todo EXCEPT ![r] = {}]
         /\ step' = [step EXCEPT ![r] = 1]
      \/ /\ pc' = [pc EXCEPT ![r] = "up"]
         /\ todo' = [todo EXCEPT ![r] = rest]
         /\ step' = step
         /\ rest # {}
  BY DEF InsertRecord, Stop
<1>4. TypeOK'
  <2>1. todo' \in [Runners -> SUBSET Files]
    BY <1>1, <1>3 DEF IInv, TypeOK
  <2>2. /\ pc' \in [Runners -> {"idle", "up", "record", "down", "erase"}]
        /\ step' \in [Runners -> 1 .. 3]
    BY <1>3 DEF IInv, TypeOK
  <2> QED BY <1>1, <1>2, <2>1, <2>2 DEF IInv, TypeOK
<1>5. \A q \in Runners \ {r} : AtWork(q)' /\ Created(q)' /\ OthersRecorded(q)'
  <2>1. \A q \in Runners \ {r} :
           pc'[q] = pc[q] /\ todo'[q] = todo[q] /\ step'[q] = step[q]
    BY <1>3 DEF IInv, TypeOK
  <2> QED BY <1>1, <1>2, <2>1, Undisturbed DEF IInv, TypeOK
<1>6. step[r] = 1
  BY <1>1 DEF IInv, AtWork
<1>7. AtWork(r)' /\ Created(r)' /\ OthersRecorded(r)'
  <2>1. CASE pc'[r] = "idle"
    BY <2>1 DEF AtWork, Created, OthersRecorded
  <2>2. CASE pc'[r] = "up" /\ todo'[r] = rest /\ rest # {} /\ step'[r] = 1
    BY <1>1, <1>2, <2>2 DEF IInv, AtWork, Created, OthersRecorded
  <2> QED BY <1>3, <1>6, <2>1, <2>2 DEF IInv, TypeOK
<1>8. RecordedIsApplied'
  <2> SUFFICES ASSUME NEW g \in Recorded', g \notin reverted
               PROVE  Applied(g)
    BY <1>1 DEF RecordedIsApplied, Applied
  <2>1. CASE g = f
    BY <1>1, <2>1, AppliedIs DEF IInv, Created
  <2>2. CASE g # f
    BY <1>2, <2>2 DEF IInv, RecordedIsApplied
  <2> QED BY <2>1, <2>2
<1>9. NoGaps'
  <2> SUFFICES ASSUME reverted = {}, NEW g \in Recorded', NEW h \in Files, h < g
               PROVE  h \in Recorded'
    BY <1>1 DEF NoGaps
  <2>1. CASE g = f
    <3>1. h \notin todo[r]
      BY <1>1, <2>1, FilesAre
    <3> QED BY <1>1, <1>2, <3>1 DEF IInv, OthersRecorded
  <2>2. CASE g # f
    BY <1>2, <2>2 DEF IInv, NoGaps
  <2> QED BY <2>1, <2>2
<1> QED BY <1>4, <1>5, <1>7, <1>8, <1>9 DEF IInv

LEMMA DownKeeps ==
    ASSUME IInv, NEW r \in Runners, Down(r)
    PROVE  IInv'
<1> DEFINE f == LastApplied
<1>1. /\ UNCHANGED <<indexes, records, boot>>
      /\ pc' = [pc EXCEPT ![r] = "down"]
      /\ todo' = [todo EXCEPT ![r] = {f}]
      /\ step' = [step EXCEPT ![r] = 1]
      /\ reverted' = reverted \cup {f} /\ torn' = torn \ {f}
      /\ overlapped' \in BOOLEAN
      /\ records # <<>>
  BY DEF Down, Begin
<1>2. f \in Files
  BY <1>1 DEF IInv, TypeOK, LastApplied
<1>3. Recorded' = Recorded
  BY <1>1 DEF Recorded
<1>4. TypeOK'
  BY <1>1, <1>2 DEF IInv, TypeOK
<1>5. reverted \subseteq reverted' /\ reverted' \subseteq Files
  BY <1>1, <1>2 DEF IInv, TypeOK
<1>6. \A q \in Runners \ {r} : AtWork(q)' /\ Created(q)' /\ OthersRecorded(q)'
  <2>1. \A q \in Runners \ {r} :
           pc'[q] = pc[q] /\ todo'[q] = todo[q] /\ step'[q] = step[q]
    BY <1>1 DEF IInv, TypeOK
  <2> QED BY <1>1, <1>3, <1>5, <2>1, Undisturbed
<1>7. pc'[r] = "down" /\ todo'[r] = {f} /\ step'[r] = 1
  BY <1>1 DEF IInv, TypeOK
<1>8. Current(r)' = f
  BY <1>2, <1>7, OldestIs DEF Current
<1>9. AtWork(r)' /\ Created(r)' /\ OthersRecorded(r)'
  <2>1. Current(r)' \in reverted' /\ 1 <= Drops[Current(r)']
    BY <1>1, <1>2, <1>8, FilesAre
  <2>2. AtWork(r)'
    BY <1>7, <2>1 DEF AtWork
  <2>3. Created(r)' /\ OthersRecorded(r)'
    BY <1>7 DEF Created, OthersRecorded
  <2> QED BY <2>2, <2>3
<1>10. RecordedIsApplied' /\ NoGaps'
  BY <1>1, <1>3, <1>5, RecordsKept DEF IInv, TypeOK
<1> QED BY <1>4, <1>6, <1>9, <1>10 DEF IInv

LEMMA DropStepKeeps ==
    ASSUME IInv, NEW r \in Runners, NEW executed \in BOOLEAN, DropStep(r, executed)
    PROVE  IInv'
<1> DEFINE f == Current(r)
           n == step[r]
<1>1. /\ pc[r] = "down"
      /\ f \in Files /\ f \in reverted
      /\ n \in 1 .. Drops[f] /\ n \in 1 .. 3
      /\ Drops[f] \in 1 .. 3
  BY AtHand, FilesAre DEF DropStep, IInv, AtWork
<1>2. /\ UNCHANGED <<records, todo, boot, overlapped, reverted>>
      /\ torn' \subseteq torn \cup {f}
      /\ indexes' \subseteq indexes
      /\ indexes \ Removes(f, n) \subseteq indexes'
  BY DEF DropStep
<1>3. IF n < Drops[f] THEN /\ step' = [step EXCEPT ![r] = n + 1]
                           /\ pc' = pc
                      ELSE /\ step' = [step EXCEPT ![r] = 1]
                           /\ pc' = [pc EXCEPT ![r] = "erase"]
  BY <1>1 DEF DropStep, Advance
<1>4. Recorded' = Recorded
  BY <1>2 DEF Recorded
<1>5. TypeOK'
  <2>1. step' \in [Runners -> 1 .. 3]
    <3>1. n < Drops[f] => n + 1 \in 1 .. 3
      BY <1>1
    <3> HIDE DEF f, n
    <3> QED BY <1>3, <3>1 DEF IInv, TypeOK
  <2>2. pc' \in [Runners -> {"idle", "up", "record", "down", "erase"}]
    BY <1>3 DEF IInv, TypeOK
  <2>3. torn' \subseteq Files
    BY <1>1, <1>2 DEF IInv, TypeOK
  <2> QED BY <1>2, <2>1, <2>2, <2>3 DEF IInv, TypeOK
<1>6. \A g \in Files \ reverted' : \A i \in 1 .. 3 :
         Creates[g][i] \in indexes => Creates[g][i] \in indexes'
  <2>1. ASSUME NEW g \in Files \ reverted', NEW i \in 1 .. 3, Creates[g][i] \in indexes
        PROVE  Creates[g][i] \in indexes'
    <3>1. g \in Files /\ g # f
      BY <1>1, <1>2
    <3>2. Creates[g][i] \notin Removes(f, n)
      BY <1>1, <3>1, RemovesOwn
    <3> QED BY <1>2, <2>1, <3>2
  <2> QED BY <2>1
<1>7. \A q \in Runners \ {r} : AtWork(q)' /\ Created(q)' /\ OthersRecorded(q)'
  <2>1. \A q \in Runners \ {r} :
           pc'[q] = pc[q] /\ todo'[q] = todo[q] /\ step'[q] = step[q]
    BY <1>2, <1>3 DEF IInv, TypeOK
  <2>2. reverted' \subseteq Files
    BY <1>2 DEF IInv, TypeOK
  <2> QED BY <1>2, <1>4, <1>6, <2>1, <2>2, Undisturbed
<1>8. IF n < Drops[f] THEN step'[r] = n + 1 /\ pc'[r] = "down"
                      ELSE step'[r] = 1 /\ pc'[r] = "erase"
  BY <1>1, <1>3 DEF IInv, TypeOK
<1>9. todo'[r] = todo[r] /\ Current(r)' = f
  BY <1>2 DEF Current
<1>10. AtWork(r)' /\ Created(r)' /\ OthersRecorded(r)'
  <2>1. todo[r] # {}
    BY <1>1, AtHand
  <2>2. n < Drops[f] => n + 1 <= Drops[f]
    BY <1>1
  <2>3. AtWork(r)'
    BY <1>1, <1>2, <1>8, <1>9, <2>1, <2>2 DEF AtWork
  <2>4. pc'[r] \in {"down", "erase"}
    BY <1>8
  <2>5. Created(r)' /\ OthersRecorded(r)'
    BY <2>4 DEF Created, OthersRecorded
  <2> QED BY <2>3, <2>5
<1>11. RecordedIsApplied' /\ NoGaps'
  BY <1>2, <1>4, <1>6, RecordsKept DEF IInv, TypeOK
<1> QED BY <1>5, <1>7, <1>10, <1>11 DEF IInv

(* A runner stops, having erased a record or not. *)
LEMMA StopKeeps ==
    ASSUME IInv, NEW r \in Runners, Stop(r),
           UNCHANGED <<indexes, boot, overlapped, reverted>>,
           torn' \subseteq Files,
           \/ UNCHANGED records
           \/ DeleteOne(Current(r)) /\ pc[r] = "erase"
    PROVE  IInv'
<1>1. /\ pc' = [pc EXCEPT ![r] = "idle"]
      /\ todo' = [todo EXCEPT ![r] = {}]
      /\ step' = [step EXCEPT ![r] = 1]
  BY DEF Stop
<1>2. records' \in Seq(Files) /\ Recorded' \subseteq Recorded
  <2>1. CASE UNCHANGED records
    BY <2>1 DEF IInv, TypeOK, Recorded
  <2>2. CASE DeleteOne(Current(r)) /\ pc[r] = "erase"
    BY <2>2, AtHand, RecordedByErase DEF IInv, TypeOK
  <2> QED BY <2>1, <2>2
<1>3. reverted' = {} => Recorded' = Recorded
  <2>1. CASE UNCHANGED records
    BY <2>1 DEF Recorded
  <2>2. CASE pc[r] = "erase"
    BY <2>2 DEF IInv, AtWork
  <2> QED BY <2>1, <2>2
<1>4. TypeOK'
  BY <1>1, <1>2 DEF IInv, TypeOK
<1>5. \A q \in Runners \ {r} : AtWork(q)' /\ Created(q)' /\ OthersRecorded(q)'
  <2>1. \A q \in Runners \ {r} :
           pc'[q] = pc[q] /\ todo'[q] = todo[q] /\ step'[q] = step[q]
    BY <1>1 DEF IInv, TypeOK
  <2> QED BY <1>3, <2>1, Undisturbed DEF IInv, TypeOK
<1>6. pc'[r] = "idle"
  BY <1>1 DEF IInv, TypeOK
<1>7. AtWork(r)' /\ Created(r)' /\ OthersRecorded(r)'
  BY <1>6 DEF AtWork, Created, OthersRecorded
<1>8. RecordedIsApplied' /\ NoGaps'
  BY <1>2, <1>3, RecordsKept
<1> QED BY <1>4, <1>5, <1>7, <1>8 DEF IInv

(* Applications add indexes, and touch nothing of the runners. *)
LEMMA AppKeeps ==
    ASSUME IInv, indexes \subseteq indexes', indexes' \subseteq AllIndexes,
           UNCHANGED <<records, pc, todo, step, overlapped, reverted, torn>>,
           boot' \in [Apps -> Off .. Failed]
    PROVE  IInv'
<1>1. Recorded' = Recorded
  BY DEF Recorded
<1>2. TypeOK'
  BY DEF IInv, TypeOK
<1>3. \A q \in Runners : AtWork(q)' /\ Created(q)' /\ OthersRecorded(q)'
  BY <1>1, Undisturbed DEF IInv, TypeOK
<1>4. RecordedIsApplied' /\ NoGaps'
  BY <1>1, RecordsKept DEF IInv, TypeOK
<1> QED BY <1>2, <1>3, <1>4 DEF IInv

LEMMA AppStepKeeps ==
    ASSUME IInv, NEW a \in Apps,
           Boot(a) \/ EnsureIndex(a) \/ EnsureIndexFails(a) \/ Exit(a)
    PROVE  IInv'
<1>1. CASE Boot(a)
  BY <1>1, AppKeeps DEF Boot, IInv, TypeOK, Off, Failed
<1>2. CASE EnsureIndex(a)
  <2>1. /\ boot[a] \in 1 .. 3
        /\ CreateIndex(SchemaIndexes[boot[a]])
        /\ boot' = [boot EXCEPT ![a] = @ + 1]
    BY <1>2 DEF EnsureIndex
  <2>2. /\ SchemaIndexes[boot[a]] \in AllIndexes
        /\ Collection(SchemaIndexes[boot[a]].of) \in AllIndexes
    BY <2>1, CreatesKnown, CollectionsKnown
  <2>3. indexes' \subseteq AllIndexes /\ indexes \subseteq indexes'
    BY <2>1, <2>2, CreateIndexAdds DEF IInv
  <2>4. boot' \in [Apps -> Off .. Failed]
    BY <2>1 DEF IInv, TypeOK, Off, Failed
  <2> QED BY <1>2, <2>3, <2>4, AppKeeps DEF EnsureIndex
<1>3. CASE EnsureIndexFails(a)
  BY <1>3, AppKeeps DEF EnsureIndexFails, IInv, TypeOK, Off, Failed
<1>4. CASE Exit(a)
  BY <1>4, AppKeeps DEF Exit, IInv, TypeOK, Off, Failed
<1> QED BY <1>1, <1>2, <1>3, <1>4

LEMMA StutterKeeps == IInv /\ UNCHANGED vars => IInv'
<1> SUFFICES ASSUME IInv, UNCHANGED vars PROVE IInv'
  OBVIOUS
<1>1. UNCHANGED <<indexes, records, pc, todo, step, boot, overlapped, reverted, torn>>
  BY DEF vars
<1> QED BY <1>1, AppKeeps DEF IInv, TypeOK

LEMMA NextKeeps == IInv /\ [Next]_vars => IInv'
<1> SUFFICES ASSUME IInv, [Next]_vars PROVE IInv'
  OBVIOUS
<1>1. ASSUME NEW r \in Runners, Up(r) PROVE IInv'
  BY <1>1, UpKeeps
<1>2. ASSUME NEW r \in Runners, ApplyStep(r) PROVE IInv'
  BY <1>2, ApplyStepKeeps
<1>3. ASSUME NEW r \in Runners, InsertRecord(r) PROVE IInv'
  BY <1>3, InsertRecordKeeps
<1>4. ASSUME NEW r \in Runners, Down(r) PROVE IInv'
  BY <1>4, DownKeeps
<1>5. ASSUME NEW r \in Runners, NEW executed \in BOOLEAN, DropStep(r, executed)
      PROVE  IInv'
  BY <1>5, DropStepKeeps
<1>6. ASSUME NEW r \in Runners, EraseRecord(r) PROVE IInv'
  BY <1>6, StopKeeps DEF EraseRecord, IInv, TypeOK
<1>7. ASSUME NEW r \in Runners, Quit(r) PROVE IInv'
  <2>1. torn' \subseteq Files
    BY <1>7, AtHand DEF Quit, IInv, TypeOK
  <2> QED BY <1>7, <2>1, StopKeeps DEF Quit
<1>8. ASSUME NEW a \in Apps,
             Boot(a) \/ EnsureIndex(a) \/ EnsureIndexFails(a) \/ Exit(a)
      PROVE  IInv'
  BY <1>8, AppStepKeeps
<1>9. CASE UNCHANGED vars
  BY <1>9, StutterKeeps
<1> QED BY <1>1, <1>2, <1>3, <1>4, <1>5, <1>6, <1>7, <1>8, <1>9 DEF Next

THEOREM Invariance == Spec => []IInv
<1>1. Init => IInv
  BY InitIInv
<1>2. IInv /\ [Next]_vars => IInv'
  BY NextKeeps
<1> QED BY <1>1, <1>2, PTL DEF Spec

(* The database, the records and the runners keep their types. *)
THEOREM TypeCorrect == Spec => []TypeOK
<1>1. IInv => TypeOK
  BY DEF IInv
<1> QED BY <1>1, Invariance, PTL

(* Whatever overlaps, crashes or boots: a recorded migration has its       *)
(* indexes unless its down() was ever begun.                               *)
THEOREM RecordsSound == Spec => []RecordedIsApplied
<1>1. IInv => RecordedIsApplied
  BY DEF IInv
<1> QED BY <1>1, Invariance, PTL

(* Without reverts the recorded files have no gap, for any number of       *)
(* runners.                                                                *)
THEOREM RecordsComplete == Spec => []NoGaps
<1>1. IInv => NoGaps
  BY DEF IInv
<1> QED BY <1>1, Invariance, PTL

-----------------------------------------------------------------------------
(* One command at a time: the records are the oldest files in order, and   *)
(* the command at work has looked at the records as they are.              *)

Matches(r) ==
    /\ pc[r] \in {"up", "record"} => todo[r] = Pending
    /\ pc[r] \in {"down", "erase"} => records # <<>> /\ todo[r] = {LastApplied}

Single ==
    ~overlapped =>
        /\ \A i \in DOMAIN records : records[i] = i
        /\ \A q, r \in Runners : pc[q] # "idle" /\ pc[r] # "idle" => q = r
        /\ \A r \in Runners : Matches(r)

LEMMA InOrderRecorded ==
    ASSUME records \in Seq(Files), \A i \in DOMAIN records : records[i] = i
    PROVE  Recorded = 1 .. Len(records) /\ Len(records) \in Nat
<1>1. DOMAIN records = 1 .. Len(records) /\ Len(records) \in Nat
  OBVIOUS
<1> QED BY <1>1 DEF Recorded

(* A command begins only on its own, or the commands overlap. *)
LEMMA BeginSingle ==
    ASSUME TypeOK, Single, NEW r \in Runners, NEW next, NEW files,
           Begin(r, next, files), UNCHANGED records,
           next \in {"up", "record"} => files = Pending,
           next \in {"down", "erase"} => records # <<>> /\ files = {LastApplied}
    PROVE  Single'
<1> SUFFICES ASSUME ~overlapped'
             PROVE  /\ \A i \in DOMAIN records : records[i] = i
                    /\ \A q, u \in Runners : pc'[q] # "idle" /\ pc'[u] # "idle" => q = u
                    /\ \A q \in Runners : Matches(q)'
  BY DEF Single
<1>1. ~overlapped /\ \A q \in Runners : pc[q] = "idle"
  BY DEF Begin
<1>2. /\ pc'[r] = next /\ todo'[r] = files
      /\ \A q \in Runners \ {r} : pc'[q] = "idle"
  BY <1>1 DEF Begin, TypeOK
<1>3. Matches(r)'
  BY <1>2 DEF Matches, Pending, LastApplied, Recorded
<1>4. \A q \in Runners \ {r} : Matches(q)'
  BY <1>2 DEF Matches
<1> QED BY <1>1, <1>2, <1>3, <1>4 DEF Single

(* The command at work goes on, or stops, and the records stay. *)
LEMMA ContinueSingle ==
    ASSUME TypeOK, Single, NEW r \in Runners, NEW next, pc[r] # "idle",
           UNCHANGED <<records, overlapped>>,
           pc' = [pc EXCEPT ![r] = next],
           \/ next = "idle"
           \/ next \in {"up", "record"} /\ pc[r] \in {"up", "record"} /\ todo' = todo
           \/ next \in {"down", "erase"} /\ pc[r] \in {"down", "erase"} /\ todo' = todo
    PROVE  Single'
<1> SUFFICES ASSUME ~overlapped
             PROVE  /\ \A i \in DOMAIN records : records[i] = i
                    /\ \A q, u \in Runners : pc'[q] # "idle" /\ pc'[u] # "idle" => q = u
                    /\ \A q \in Runners : Matches(q)'
  BY DEF Single
<1>1. \A q \in Runners \ {r} : pc[q] = "idle" /\ pc'[q] = "idle"
  BY DEF Single, TypeOK
<1>2. pc'[r] = next
  BY DEF TypeOK
<1>3. Pending' = Pending /\ LastApplied' = LastApplied
  BY DEF Pending, LastApplied, Recorded
<1>4. Matches(r)
  BY DEF Single
<1>5. Matches(r)'
  BY <1>2, <1>3, <1>4 DEF Matches
<1>6. \A q \in Runners \ {r} : Matches(q)'
  BY <1>1 DEF Matches
<1> QED BY <1>1, <1>5, <1>6 DEF Single

LEMMA InsertRecordSingle ==
    ASSUME IInv, Single, NEW r \in Runners, InsertRecord(r)
    PROVE  Single'
<1> DEFINE f == Current(r)
           n == Len(records)
<1> SUFFICES ASSUME ~overlapped
             PROVE  /\ \A i \in DOMAIN records' : records'[i] = i
                    /\ \A q, u \in Runners : pc'[q] # "idle" /\ pc'[u] # "idle" => q = u
                    /\ \A q \in Runners : Matches(q)'
  BY DEF Single, InsertRecord
<1>1. /\ pc[r] = "record" /\ f \in Files /\ f \in todo[r]
      /\ \A g \in todo[r] : f <= g
      /\ records' = Append(records, f)
      /\ records \in Seq(Files)
  BY AtHand DEF InsertRecord, IInv, TypeOK
<1>2. /\ todo[r] = Pending
      /\ \A i \in DOMAIN records : records[i] = i
      /\ \A q \in Runners \ {r} : pc[q] = "idle"
  BY <1>1 DEF Single, Matches
<1>3. Recorded = 1 .. n /\ n \in Nat
  BY <1>1, <1>2, InOrderRecorded
<1>4. f = n + 1
  <2>1. f \in {1, 2} /\ f \notin 1 .. n
    BY <1>1, <1>2, <1>3, FilesAre DEF Pending
  <2>2. f = 2 => 1 \notin todo[r]
    BY <1>1
  <2>3. f = 2 => 1 \in 1 .. n
    BY <1>2, <1>3, <2>2, FilesAre DEF Pending
  <2> HIDE DEF f, n
  <2> QED BY <1>3, <2>1, <2>3
<1>5. \A i \in DOMAIN records' : records'[i] = i
  <2>1. /\ DOMAIN Append(records, f) = 1 .. n + 1
        /\ \A i \in 1 .. n : Append(records, f)[i] = records[i]
        /\ Append(records, f)[n + 1] = f
    BY <1>1
  <2>2. DOMAIN records = 1 .. n
    BY <1>1
  <2> QED BY <1>1, <1>2, <1>3, <1>4, <2>1, <2>2
<1>6. /\ \A q \in Runners \ {r} : pc'[q] = "idle"
      /\ \/ pc'[r] = "idle"
         \/ pc'[r] = "up" /\ todo'[r] = todo[r] \ {f}
  BY <1>2 DEF InsertRecord, Stop, IInv, TypeOK
<1>7. Pending' = Pending \ {f}
  <2>1. Recorded' = Recorded \cup {f}
    BY <1>1, RecordedByInsert
  <2> QED BY <2>1 DEF Pending
<1>8. \A q \in Runners : Matches(q)'
  <2>1. Matches(r)'
    BY <1>2, <1>6, <1>7 DEF Matches
  <2>2. \A q \in Runners \ {r} : Matches(q)'
    BY <1>6 DEF Matches
  <2> QED BY <2>1, <2>2
<1> QED BY <1>5, <1>6, <1>8

(* The last record goes, the one that down() looked up. *)
LEMMA EraseRecordSingle ==
    ASSUME IInv, Single, NEW r \in Runners, EraseRecord(r)
    PROVE  Single'
<1> DEFINE f == Current(r)
           n == Len(records)
<1> SUFFICES ASSUME ~overlapped
             PROVE  /\ \A i \in DOMAIN records' : records'[i] = i
                    /\ \A q, u \in Runners : pc'[q] # "idle" /\ pc'[u] # "idle" => q = u
                    /\ \A q \in Runners : Matches(q)'
  BY DEF Single, EraseRecord
<1>1. /\ pc[r] = "erase" /\ f \in todo[r] /\ DeleteOne(f)
      /\ records \in Seq(Files)
  BY AtHand DEF EraseRecord, IInv, TypeOK
<1>2. /\ records # <<>> /\ todo[r] = {LastApplied}
      /\ \A i \in DOMAIN records : records[i] = i
      /\ \A q \in Runners \ {r} : pc[q] = "idle"
  BY <1>1 DEF Single, Matches
<1>3. n \in Nat \ {0} /\ DOMAIN records = 1 .. n /\ Recorded = 1 .. n
  BY <1>1, <1>2, InOrderRecorded
<1>4. f = n
  BY <1>1, <1>2, <1>3 DEF LastApplied
<1>5. PICK m \in DOMAIN records :
         /\ records[m] = f
         /\ records' = SubSeq(records, 1, m - 1) \o SubSeq(records, m + 1, Len(records))
  <2>1. f \in Recorded
    <3> HIDE DEF f, n
    <3> QED BY <1>3, <1>4
  <2>2. DeleteOne(f)
    BY <1>1
  <2> HIDE DEF f, n
  <2> QED BY <2>1, <2>2, Zenon DEF DeleteOne
<1>6. m = n
  <2>1. records[m] = m /\ records[m] = f
    BY <1>2, <1>5
  <2> HIDE DEF f, n
  <2> QED BY <1>4, <2>1
<1> DEFINE s1 == SubSeq(records, 1, n - 1)
           s2 == SubSeq(records, n + 1, n)
<1>7. s1 \in Seq(Files) /\ Len(s1) = n - 1 /\ \A i \in 1 .. n - 1 : s1[i] = records[i]
  <2>1. /\ s1 \in Seq(Files)
        /\ Len(s1) = IF 1 <= n - 1 THEN n - 1 - 1 + 1 ELSE 0
        /\ \A i \in 1 .. n - 1 - 1 + 1 : s1[i] = records[1 + i - 1]
    <3>1. \A i \in 1 .. n - 1 : records[i] \in Files
      BY <1>1, <1>3
    <3> HIDE DEF n
    <3> QED BY <1>3, <3>1, SubSeqProperties
  <2>2. n - 1 - 1 + 1 = n - 1
    BY <1>3
  <2>3. \A i \in 1 .. n - 1 : 1 + i - 1 = i
    OBVIOUS
  <2> HIDE DEF s1, n
  <2> QED BY <1>3, <2>1, <2>2, <2>3
<1>8. s2 \in Seq(Files) /\ Len(s2) = 0
  <2> HIDE DEF n
  <2> QED BY <1>3, SubSeqProperties
<1>9. records' = s1 \o s2
  BY <1>5, <1>6
<1> HIDE DEF s1, s2
<1>10. DOMAIN records' = 1 .. n - 1 /\ \A i \in 1 .. n - 1 : records'[i] = s1[i]
  <2>1. /\ s1 \o s2 \in Seq(Files)
        /\ Len(s1 \o s2) = Len(s1) + Len(s2)
        /\ \A i \in 1 .. Len(s1) + Len(s2) :
              (s1 \o s2)[i] = IF i <= Len(s1) THEN s1[i] ELSE s2[i - Len(s1)]
    BY <1>7, <1>8, ConcatProperties
  <2>2. Len(s1) + Len(s2) = n - 1
    BY <1>3, <1>7, <1>8
  <2> HIDE DEF n
  <2> QED BY <1>3, <1>7, <1>9, <2>1, <2>2
<1>11. \A i \in DOMAIN records' : records'[i] = i
  BY <1>2, <1>3, <1>7, <1>10
<1>12. \A q \in Runners : pc'[q] = "idle"
  BY <1>2 DEF EraseRecord, Stop, IInv, TypeOK
<1> QED BY <1>11, <1>12 DEF Matches

LEMMA SingleStep ==
    ASSUME IInv, Single, [Next]_vars
    PROVE  Single'
<1>1. TypeOK
  BY DEF IInv
<1>2. ASSUME UNCHANGED <<records, overlapped, pc, todo>> PROVE Single'
  BY <1>2 DEF Single, Matches, Pending, LastApplied, Recorded
<1>3. ASSUME NEW r \in Runners, Up(r) PROVE Single'
  BY <1>1, <1>3, BeginSingle DEF Up
<1>4. ASSUME NEW r \in Runners, Down(r) PROVE Single'
  BY <1>1, <1>4, BeginSingle DEF Down
<1>5. ASSUME NEW r \in Runners, ApplyStep(r) PROVE Single'
  <2>1. /\ pc[r] = "up" /\ todo' = todo /\ UNCHANGED <<records, overlapped>>
        /\ pc' = pc \/ pc' = [pc EXCEPT ![r] = "record"]
    BY <1>5 DEF ApplyStep, Advance
  <2>2. pc' = pc => Single'
    BY <1>2, <2>1
  <2> QED BY <1>1, <2>1, <2>2, ContinueSingle
<1>6. ASSUME NEW r \in Runners, NEW executed \in BOOLEAN, DropStep(r, executed)
      PROVE  Single'
  <2>1. /\ pc[r] = "down" /\ todo' = todo /\ UNCHANGED <<records, overlapped>>
        /\ pc' = pc \/ pc' = [pc EXCEPT ![r] = "erase"]
    BY <1>6 DEF DropStep, Advance
  <2>2. pc' = pc => Single'
    BY <1>2, <2>1
  <2> QED BY <1>1, <2>1, <2>2, ContinueSingle
<1>7. ASSUME NEW r \in Runners, Quit(r) PROVE Single'
  BY <1>1, <1>7, ContinueSingle DEF Quit, Stop
<1>8. ASSUME NEW a \in Apps,
             Boot(a) \/ EnsureIndex(a) \/ EnsureIndexFails(a) \/ Exit(a)
      PROVE  Single'
  BY <1>2, <1>8 DEF Boot, EnsureIndex, EnsureIndexFails, Exit
<1>9. CASE UNCHANGED vars
  BY <1>2, <1>9 DEF vars
<1> QED BY <1>3, <1>4, <1>5, <1>6, <1>7, <1>8, <1>9,
           InsertRecordSingle, EraseRecordSingle DEF Next

(* As long as no two commands of the CLI are in progress at once, the      *)
(* records are the list of the oldest files, in order and each once.       *)
THEOREM RecordsInOrder == Spec => []InOrderUnlessOverlapped
<1>1. Init => Single
  BY DEF Init, Single, Matches
<1>2. IInv /\ Single /\ [Next]_vars => Single'
  BY SingleStep
<1>3. Single => InOrderUnlessOverlapped
  BY DEF Single, InOrderUnlessOverlapped
<1> QED BY <1>1, <1>2, <1>3, Invariance, PTL DEF Spec

-----------------------------------------------------------------------------
(* A file has no more records and runners that will still record it,       *)
(* together, than there are runners.                                       *)

Places(f) == {i \in DOMAIN records : records[i] = f}

Holders(f) == {r \in Runners : pc[r] \in {"up", "record"} /\ f \in todo[r]}

Bounded ==
    \A f \in Files :
        Cardinality(Places(f)) + Cardinality(Holders(f)) <= Cardinality(Runners)

LEMMA PlacesFinite ==
    ASSUME NEW seq \in Seq(Files), NEW f
    PROVE  /\ IsFiniteSet({i \in DOMAIN seq : seq[i] = f})
           /\ Cardinality({i \in DOMAIN seq : seq[i] = f}) \in Nat
<1>1. Len(seq) \in Nat /\ DOMAIN seq = 1 .. Len(seq)
  OBVIOUS
<1>2. IsFiniteSet(DOMAIN seq)
  BY <1>1, FS_Interval
<1> DEFINE S == {i \in DOMAIN seq : seq[i] = f}
<1>3. S \in SUBSET DOMAIN seq
  OBVIOUS
<1> HIDE DEF S
<1>4. IsFiniteSet(S) /\ Cardinality(S) \in Nat
  BY <1>2, <1>3, FS_Subset, FS_CardinalityType
<1> QED BY <1>4 DEF S

LEMMA NoMore ==
    ASSUME NEW S, NEW T, IsFiniteSet(T), NEW h \in [S -> T],
           \A i, j \in S : h[i] = h[j] => i = j
    PROVE  Cardinality(S) <= Cardinality(T)
<1>1. h \in Injection(S, T)
  BY DEF Injection, IsInjective
<1> QED BY <1>1, FS_Injection

LEMMA HoldersFinite ==
    ASSUME NEW f
    PROVE  /\ IsFiniteSet(Holders(f))
           /\ Cardinality(Holders(f)) \in Nat
           /\ Cardinality(Runners) \in Nat
           /\ Cardinality(Holders(f)) <= Cardinality(Runners)
<1>1. Holders(f) \in SUBSET Runners
  BY DEF Holders
<1> QED BY <1>1, RunnersFinite, FS_Subset, FS_CardinalityType DEF RunnersFinite

(* Without its n-th element, a sequence is shorter and the later elements  *)
(* move up by one place.                                                   *)
LEMMA Shortened ==
    ASSUME NEW seq \in Seq(Files), NEW n \in DOMAIN seq
    PROVE  LET short == SubSeq(seq, 1, n - 1) \o SubSeq(seq, n + 1, Len(seq))
           IN  /\ DOMAIN short = 1 .. Len(seq) - 1
               /\ \A i \in 1 .. Len(seq) - 1 :
                     short[i] = IF i < n THEN seq[i] ELSE seq[i + 1]
<1> DEFINE len == Len(seq)
           s1 == SubSeq(seq, 1, n - 1)
           s2 == SubSeq(seq, n + 1, len)
<1>1. /\ len \in Nat /\ n \in 1 .. len /\ DOMAIN seq = 1 .. len
      /\ \A i \in 1 .. len : seq[i] \in Files
  OBVIOUS
<1>2. s1 \in Seq(Files) /\ Len(s1) = n - 1 /\ \A i \in 1 .. n - 1 : s1[i] = seq[i]
  <2>1. /\ s1 \in Seq(Files)
        /\ Len(s1) = IF 1 <= n - 1 THEN n - 1 - 1 + 1 ELSE 0
        /\ \A i \in 1 .. n - 1 - 1 + 1 : s1[i] = seq[1 + i - 1]
    BY <1>1, SubSeqProperties
  <2> HIDE DEF s1, len
  <2>2. n - 1 - 1 + 1 = n - 1 /\ \A i \in 1 .. n - 1 : 1 + i - 1 = i
    BY <1>1
  <2>3. Len(s1) = n - 1
    BY <1>1, <2>1
  <2>4. \A i \in 1 .. n - 1 : s1[i] = seq[i]
    BY <2>1, <2>2
  <2> QED BY <2>1, <2>3, <2>4
<1>3. /\ s2 \in Seq(Files) /\ Len(s2) = len - n
      /\ \A i \in 1 .. len - n : s2[i] = seq[n + i]
  <2>1. /\ s2 \in Seq(Files)
        /\ Len(s2) = IF n + 1 <= len THEN len - (n + 1) + 1 ELSE 0
        /\ \A i \in 1 .. len - (n + 1) + 1 : s2[i] = seq[n + 1 + i - 1]
    BY <1>1, SubSeqProperties
  <2> HIDE DEF s2, len
  <2>2. /\ len - (n + 1) + 1 = len - n
        /\ \A i \in 1 .. len - n : n + 1 + i - 1 = n + i
    BY <1>1
  <2>3. Len(s2) = len - n
    BY <1>1, <2>1
  <2>4. \A i \in 1 .. len - n : s2[i] = seq[n + i]
    BY <2>1, <2>2
  <2> QED BY <2>1, <2>3, <2>4
<1> HIDE DEF s1, s2, len
<1>4. /\ s1 \o s2 \in Seq(Files)
      /\ Len(s1 \o s2) = Len(s1) + Len(s2)
      /\ \A i \in 1 .. Len(s1) + Len(s2) :
            (s1 \o s2)[i] = IF i <= Len(s1) THEN s1[i] ELSE s2[i - Len(s1)]
  BY <1>2, <1>3, ConcatProperties
<1>5. Len(s1) + Len(s2) = len - 1
  BY <1>1, <1>2, <1>3
<1>6. DOMAIN (s1 \o s2) = 1 .. len - 1
  BY <1>4, <1>5
<1>7. ASSUME NEW i \in 1 .. len - 1
      PROVE  (s1 \o s2)[i] = IF i < n THEN seq[i] ELSE seq[i + 1]
  <2>1. CASE i < n
    <3>1. i <= n - 1 /\ i \in 1 .. n - 1
      BY <1>1, <2>1
    <3> QED BY <1>2, <1>4, <1>5, <2>1, <3>1
  <2>2. CASE ~(i < n)
    <3>1. /\ ~(i <= n - 1) /\ i - (n - 1) \in 1 .. len - n
          /\ n + (i - (n - 1)) = i + 1
      BY <1>1, <2>2
    <3>2. s2[i - (n - 1)] = seq[n + (i - (n - 1))]
      BY <1>3, <3>1
    <3> QED BY <1>2, <1>4, <1>5, <2>2, <3>1, <3>2
  <2> QED BY <2>1, <2>2
<1> QED BY <1>6, <1>7 DEF s1, s2, len

(* Deleting a record moves the later ones up by one place. *)
LEMMA PlacesErase ==
    ASSUME TypeOK, TypeOK', NEW f \in Files, DeleteOne(f), NEW g
    PROVE  Cardinality(Places(g))' <= Cardinality(Places(g))
<1>1. CASE UNCHANGED records
  <2>1. Places(g)' = Places(g)
    BY <1>1 DEF Places
  <2>2. Cardinality(Places(g)) \in Nat
    BY PlacesFinite DEF TypeOK, Places
  <2> QED BY <2>1, <2>2
<1>2. ASSUME NEW n \in DOMAIN records,
             records' = SubSeq(records, 1, n - 1) \o SubSeq(records, n + 1, Len(records))
      PROVE  Cardinality(Places(g))' <= Cardinality(Places(g))
  <2> DEFINE len == Len(records)
             h == [i \in Places(g)' |-> IF i < n THEN i ELSE i + 1]
  <2>1. /\ len \in Nat /\ n \in 1 .. len /\ DOMAIN records = 1 .. len
        /\ \A i \in 1 .. len : records[i] \in Files
    BY DEF TypeOK
  <2>2. /\ DOMAIN records' = 1 .. len - 1
        /\ \A i \in 1 .. len - 1 : records'[i] = IF i < n THEN records[i] ELSE records[i + 1]
    BY <1>2, Shortened DEF TypeOK
  <2> HIDE DEF len
  <2>3. ASSUME NEW i \in Places(g)'
        PROVE  i \in 1 .. len - 1 /\ h[i] \in Places(g)
    <3>1. i \in 1 .. len - 1 /\ records'[i] = g
      BY <2>2 DEF Places
    <3>2. CASE i < n
      <4>1. h[i] = i /\ i \in 1 .. len /\ records[i] = g
        BY <2>1, <2>2, <3>1, <3>2
      <4> QED BY <2>1, <3>1, <4>1 DEF Places
    <3>3. CASE ~(i < n)
      <4>1. h[i] = i + 1 /\ i + 1 \in 1 .. len /\ records[i + 1] = g
        BY <2>1, <2>2, <3>1, <3>3
      <4> QED BY <2>1, <3>1, <4>1 DEF Places
    <3> QED BY <3>2, <3>3
  <2>4. ASSUME NEW i \in Places(g)', NEW j \in Places(g)', h[i] = h[j]
        PROVE  i = j
    <3>1. i \in 1 .. len - 1 /\ j \in 1 .. len - 1
      BY <2>3
    <3>2. /\ h[i] = IF i < n THEN i ELSE i + 1
          /\ h[j] = IF j < n THEN j ELSE j + 1
      OBVIOUS
    <3>3. (IF i < n THEN i ELSE i + 1) = (IF j < n THEN j ELSE j + 1)
      BY <2>4, <3>2
    <3>4. i \in Int /\ j \in Int /\ n \in Int
      BY <2>1, <3>1
    <3> QED BY <3>3, <3>4
  <2>5. h \in [Places(g)' -> Places(g)]
    BY <2>3
  <2> HIDE DEF h
  <2>6. IsFiniteSet(Places(g))
    BY PlacesFinite DEF TypeOK, Places
  <2>7. Cardinality(Places(g)') <= Cardinality(Places(g))
    BY <2>4, <2>5, <2>6, NoMore
  <2> QED BY <2>7
<1> QED BY <1>1, <1>2 DEF DeleteOne

(* No more records of any file, and no more runners that hold it. *)
LEMMA BoundedKept ==
    ASSUME TypeOK, TypeOK', Bounded,
           \A g \in Files : Cardinality(Places(g))' <= Cardinality(Places(g)),
           \A g \in Files : Holders(g)' \subseteq Holders(g)
    PROVE  Bounded'
<1> SUFFICES ASSUME NEW g \in Files
             PROVE  Cardinality(Places(g))' + Cardinality(Holders(g))'
                       <= Cardinality(Runners)
  BY DEF Bounded
<1>1. /\ Cardinality(Places(g)) \in Nat /\ Cardinality(Places(g))' \in Nat
      /\ Cardinality(Holders(g)) \in Nat /\ Cardinality(Runners) \in Nat
  <2>1. Cardinality(Places(g)) \in Nat
    BY PlacesFinite DEF TypeOK, Places
  <2>2. Cardinality(Places(g))' \in Nat
    BY PlacesFinite DEF TypeOK, Places
  <2> QED BY <2>1, <2>2, HoldersFinite
<1>2. Cardinality(Holders(g))' \in Nat /\ Cardinality(Holders(g))' <= Cardinality(Holders(g))
  BY HoldersFinite, FS_Subset, FS_CardinalityType
<1>3. Cardinality(Places(g)) + Cardinality(Holders(g)) <= Cardinality(Runners)
  BY DEF Bounded
<1> QED BY <1>1, <1>2, <1>3

(* A command that is no up() just begun holds no more than before. *)
LEMMA HoldersKept ==
    ASSUME TypeOK, NEW r \in Runners, NEW next, NEW files,
           pc' = [pc EXCEPT ![r] = next],
           todo' = [todo EXCEPT ![r] = files],
           next \in {"up", "record"} => pc[r] \in {"up", "record"} /\ files \subseteq todo[r]
    PROVE  \A g \in Files : Holders(g)' \subseteq Holders(g)
<1> SUFFICES ASSUME NEW g \in Files, NEW q \in Holders(g)'
             PROVE  q \in Holders(g)
  OBVIOUS
<1>1. q \in Runners /\ pc'[q] \in {"up", "record"} /\ g \in todo'[q]
  BY DEF Holders
<1>2. CASE q = r
  <2>1. pc'[r] = next /\ todo'[r] = files
    BY DEF TypeOK
  <2> QED BY <1>1, <1>2, <2>1 DEF Holders
<1>3. CASE q # r
  <2>1. pc'[q] = pc[q] /\ todo'[q] = todo[q]
    BY <1>1, <1>3 DEF TypeOK
  <2> QED BY <1>1, <2>1 DEF Holders
<1> QED BY <1>2, <1>3

LEMMA UpBounded ==
    ASSUME TypeOK, Bounded, NEW r \in Runners, Up(r)
    PROVE  Bounded'
<1>1. /\ pc[r] = "idle" /\ records' = records
      /\ pc' = [pc EXCEPT ![r] = "up"]
      /\ todo' = [todo EXCEPT ![r] = Pending]
  BY DEF Up, Begin
<1> SUFFICES ASSUME NEW g \in Files
             PROVE  Cardinality(Places(g))' + Cardinality(Holders(g))'
                       <= Cardinality(Runners)
  BY DEF Bounded
<1>2. Places(g)' = Places(g)
  BY <1>1 DEF Places
<1>3. CASE g \in Pending
  <2>1. Places(g) = {}
    BY <1>3 DEF Places, Pending, Recorded
  <2>2. Cardinality(Places(g))' = 0
    BY <1>2, <2>1, FS_EmptySet
  <2>3. Holders(g)' \in SUBSET Runners
    BY DEF Holders
  <2>4. /\ Cardinality(Holders(g))' \in Nat /\ Cardinality(Runners) \in Nat
        /\ Cardinality(Holders(g))' <= Cardinality(Runners)
    BY <2>3, RunnersFinite, FS_Subset, FS_CardinalityType DEF RunnersFinite
  <2> QED BY <2>2, <2>4
<1>4. CASE g \notin Pending
  <2>1. ASSUME NEW q \in Runners
        PROVE  q \in Holders(g)' <=> q \in Holders(g)
    <3>1. CASE q = r
      BY <1>1, <1>4, <3>1 DEF Holders, TypeOK
    <3>2. CASE q # r
      <4>1. pc'[q] = pc[q] /\ todo'[q] = todo[q]
        BY <1>1, <3>2 DEF TypeOK
      <4> QED BY <4>1 DEF Holders
    <3> QED BY <3>1, <3>2
  <2>2. Holders(g)' = Holders(g)
    <3>1. Holders(g) \subseteq Runners /\ Holders(g)' \subseteq Runners
      BY DEF Holders
    <3> QED BY <2>1, <3>1
  <2> QED BY <1>2, <2>2 DEF Bounded
<1> QED BY <1>3, <1>4

(* The record takes the place of its runner. *)
LEMMA InsertRecordBounded ==
    ASSUME IInv, Bounded, NEW r \in Runners, InsertRecord(r)
    PROVE  Bounded'
<1> DEFINE n == Len(records)
<1>0. PICK f \in Files : f = Current(r)
  BY AtHand DEF InsertRecord
<1>1. /\ pc[r] = "record" /\ f \in Files /\ f \in todo[r]
      /\ records' = Append(records, f)
      /\ records \in Seq(Files) /\ TypeOK
  BY <1>0, AtHand DEF InsertRecord, IInv, TypeOK
<1>2. \/ /\ pc' = [pc EXCEPT ![r] = "idle"]
         /\ todo' = [todo EXCEPT ![r] = {}]
      \/ /\ pc' = [pc EXCEPT ![r] = "up"]
         /\ todo' = [todo EXCEPT ![r] = todo[r] \ {f}]
  BY <1>0 DEF InsertRecord, Stop
<1>3. \A g \in Files : Holders(g)' \subseteq Holders(g)
  BY <1>1, <1>2, HoldersKept
<1>4. r \in Holders(f) /\ r \notin Holders(f)'
  <2>1. /\ pc'[r] = "idle" \/ f \notin todo'[r]
    BY <1>1, <1>2 DEF TypeOK
  <2> QED BY <1>1, <2>1 DEF Holders
<1>5. /\ DOMAIN records = 1 .. n /\ n \in Nat
      /\ DOMAIN records' = 1 .. n + 1
      /\ \A i \in 1 .. n : records'[i] = records[i]
      /\ records'[n + 1] = f
  BY <1>1
<1> HIDE DEF n
<1> SUFFICES ASSUME NEW g \in Files
             PROVE  Cardinality(Places(g))' + Cardinality(Holders(g))'
                       <= Cardinality(Runners)
  BY DEF Bounded
<1>6. /\ Cardinality(Places(g)) \in Nat /\ IsFiniteSet(Places(g))
      /\ Cardinality(Holders(g)) \in Nat /\ Cardinality(Runners) \in Nat
      /\ IsFiniteSet(Holders(g))
      /\ Cardinality(Places(g)) + Cardinality(Holders(g)) <= Cardinality(Runners)
  BY <1>1, PlacesFinite, HoldersFinite DEF Places, Bounded
<1>7. CASE g = f
  <2>1. Places(g)' = Places(g) \cup {n + 1} /\ n + 1 \notin Places(g)
    BY <1>5, <1>7 DEF Places
  <2>2. Cardinality(Places(g))' = Cardinality(Places(g)) + 1
    BY <1>6, <2>1, FS_AddElement
  <2>3. Holders(g)' \in SUBSET (Holders(g) \ {r})
    BY <1>3, <1>4, <1>7
  <2>4. /\ IsFiniteSet(Holders(g) \ {r})
        /\ Cardinality(Holders(g) \ {r}) = Cardinality(Holders(g)) - 1
    BY <1>4, <1>6, <1>7, FS_RemoveElement
  <2>5. /\ Cardinality(Holders(g))' \in Nat
        /\ Cardinality(Holders(g))' <= Cardinality(Holders(g)) - 1
    BY <2>3, <2>4, FS_Subset, FS_CardinalityType
  <2> QED BY <1>6, <2>2, <2>5
<1>8. CASE g # f
  <2>1. Places(g)' = Places(g)
    BY <1>5, <1>8 DEF Places
  <2>2. /\ Cardinality(Holders(g))' \in Nat
        /\ Cardinality(Holders(g))' <= Cardinality(Holders(g))
    BY <1>3, <1>6, FS_Subset, FS_CardinalityType
  <2> QED BY <1>6, <2>1, <2>2
<1> QED BY <1>7, <1>8

LEMMA BoundedStep ==
    ASSUME IInv, IInv', Bounded, [Next]_vars
    PROVE  Bounded'
<1>1. TypeOK /\ TypeOK'
  BY DEF IInv
<1>2. ASSUME records' = records
      PROVE  \A g \in Files : Cardinality(Places(g))' <= Cardinality(Places(g))
  <2> TAKE g \in Files
  <2>1. Places(g)' = Places(g)
    BY <1>2 DEF Places
  <2>2. Cardinality(Places(g)) \in Nat
    BY <1>1, PlacesFinite DEF TypeOK, Places
  <2> QED BY <2>1, <2>2
<1>3. ASSUME records' = records, NEW r \in Runners, NEW next, NEW files,
             pc' = [pc EXCEPT ![r] = next],
             todo' = [todo EXCEPT ![r] = files],
             next \in {"up", "record"} =>
                 pc[r] \in {"up", "record"} /\ files \subseteq todo[r]
      PROVE  Bounded'
  BY <1>1, <1>2, <1>3, HoldersKept, BoundedKept
<1>4. ASSUME UNCHANGED <<records, pc, todo>> PROVE Bounded'
  <2>1. \A g \in Files : Holders(g)' \subseteq Holders(g)
    BY <1>4 DEF Holders
  <2> QED BY <1>1, <1>2, <1>4, <2>1, BoundedKept
<1>5. ASSUME NEW r \in Runners, ApplyStep(r) PROVE Bounded'
  <2>1. /\ pc[r] = "up" /\ todo' = todo /\ records' = records
        /\ pc' = pc \/ pc' = [pc EXCEPT ![r] = "record"]
    BY <1>5 DEF ApplyStep, Advance
  <2>2. todo' = [todo EXCEPT ![r] = todo[r]]
    BY <1>1, <2>1 DEF TypeOK
  <2> QED BY <1>3, <1>4, <2>1, <2>2
<1>6. ASSUME NEW r \in Runners, NEW executed \in BOOLEAN, DropStep(r, executed)
      PROVE  Bounded'
  <2>1. /\ todo' = todo /\ records' = records
        /\ pc' = pc \/ pc' = [pc EXCEPT ![r] = "erase"]
    BY <1>6 DEF DropStep, Advance
  <2>2. todo' = [todo EXCEPT ![r] = todo[r]]
    BY <1>1, <2>1 DEF TypeOK
  <2> QED BY <1>3, <1>4, <2>1, <2>2
<1>7. ASSUME NEW r \in Runners, Down(r) PROVE Bounded'
  <2>1. /\ records' = records /\ pc' = [pc EXCEPT ![r] = "down"]
        /\ todo' = [todo EXCEPT ![r] = {LastApplied}]
    BY <1>7 DEF Down, Begin
  <2> QED BY <1>3, <2>1
<1>8. ASSUME NEW r \in Runners, Quit(r) PROVE Bounded'
  <2>1. /\ records' = records /\ pc' = [pc EXCEPT ![r] = "idle"]
        /\ todo' = [todo EXCEPT ![r] = {}]
    BY <1>8 DEF Quit, Stop
  <2> QED BY <1>3, <2>1
<1>9. ASSUME NEW r \in Runners, EraseRecord(r) PROVE Bounded'
  <2>1. Current(r) \in Files /\ DeleteOne(Current(r))
    BY <1>9, AtHand DEF EraseRecord
  <2>2. \A g \in Files : Cardinality(Places(g))' <= Cardinality(Places(g))
    BY <1>1, <2>1, PlacesErase
  <2>3. /\ pc' = [pc EXCEPT ![r] = "idle"]
        /\ todo' = [todo EXCEPT ![r] = {}]
    BY <1>9 DEF EraseRecord, Stop
  <2>4. \A g \in Files : Holders(g)' \subseteq Holders(g)
    BY <1>1, <2>3, HoldersKept
  <2> QED BY <1>1, <2>2, <2>4, BoundedKept
<1>10. ASSUME NEW a \in Apps,
              Boot(a) \/ EnsureIndex(a) \/ EnsureIndexFails(a) \/ Exit(a)
       PROVE  Bounded'
  BY <1>4, <1>10 DEF Boot, EnsureIndex, EnsureIndexFails, Exit
<1>11. CASE UNCHANGED vars
  BY <1>4, <1>11 DEF vars
<1> QED BY <1>1, <1>5, <1>6, <1>7, <1>8, <1>9, <1>10, <1>11,
           UpBounded, InsertRecordBounded DEF Next

(* However runners overlap, crash and start again, no file has more        *)
(* records than there are runners.                                         *)
THEOREM RecordsBounded == Spec => []OncePerRunner
<1>1. Init => Bounded
  <2> SUFFICES ASSUME Init, NEW g \in Files
               PROVE  Cardinality(Places(g)) + Cardinality(Holders(g))
                         <= Cardinality(Runners)
    BY DEF Bounded
  <2>1. Places(g) = {} /\ Holders(g) = {}
    BY DEF Init, Places, Holders
  <2> QED BY <2>1, FS_EmptySet, HoldersFinite
<1>2. IInv /\ IInv' /\ Bounded /\ [Next]_vars => Bounded'
  BY BoundedStep
<1>3. IInv /\ Bounded => OncePerRunner
  <2> SUFFICES ASSUME IInv, Bounded, NEW f \in Files
               PROVE  Cardinality(Places(f)) <= Cardinality(Runners)
    BY DEF OncePerRunner, Places
  <2>1. Cardinality(Places(f)) \in Nat
    BY PlacesFinite DEF IInv, TypeOK, Places
  <2> QED BY <2>1, HoldersFinite DEF Bounded
<1> QED BY <1>1, <1>2, <1>3, Invariance, PTL DEF Spec
-----------------------------------------------------------------------------
(* What is left of a migration that is not recorded.                       *)

Own(f) == {Creates[f][i] : i \in 1 .. 3}

AtHandOf(f) == \E r \in Runners : pc[r] \in {"up", "record"} /\ Current(r) = f

(* Without a crash or a drop that failed, a file that is neither recorded  *)
(* nor being applied has no index, and a down() has removed what its       *)
(* commands so far remove.                                                 *)
CleanOf(f) ==
    /\ f \notin Recorded /\ ~AtHandOf(f) => Own(f) \cap indexes = {}
    /\ \A r \in Runners :
          Current(r) = f =>
              /\ pc[r] = "down" => \A i \in 1 .. 3 : i < step[r] => Creates[f][i] \notin indexes
              /\ pc[r] = "erase" => Own(f) \cap indexes = {}

Clean == ~overlapped => \A f \in Files \ torn : CleanOf(f)

(* No command creates what another migration creates, nor does Mongoose.   *)
LEMMA CreatesApart ==
    ASSUME NEW g \in Files
    PROVE  /\ Collection("users") \notin Own(g)
           /\ \A n \in 1 .. 3 : SchemaIndexes[n] \notin Own(g)
           /\ \A f \in Files \ {g}, n \in 1 .. 3 :
                 /\ Creates[f][n] \notin Own(g)
                 /\ Collection(Creates[f][n].of) \notin Own(g)
<1>1. Creates[1] = UserIndexes /\ Creates[2] = SessionIndexes
  BY DEF Creates
<1>2. /\ Own(1) = {UserIndexes[i] : i \in 1 .. 3}
      /\ Own(2) = {SessionIndexes[i] : i \in 1 .. 3}
  BY <1>1 DEF Own
<1>3. \A n \in 1 .. 3 : /\ UserIndexes[n].of = "users"
                        /\ SessionIndexes[n].of = "sessions"
                        /\ SchemaIndexes[n].of = "users"
  BY CreatesKnown
<1>4. /\ Collection("users").of = "users" /\ Collection("users").name = "_id_"
      /\ Collection("sessions").of = "sessions"
  BY DEF Collection, Index
<1>5. \A n \in 1 .. 3 :
         UserIndexes[n].name \notin {"_id_", "email_1", "role_1_createdAt_-1"}
  <2> TAKE n \in 1 .. 3
  <2>1. CASE n = 1
    BY <2>1 DEF UserIndexes, Index
  <2>2. CASE n = 2
    BY <2>2 DEF UserIndexes, Index
  <2>3. CASE n = 3
    BY <2>3 DEF UserIndexes, Index
  <2> QED BY <2>1, <2>2, <2>3
<1>6. \A n \in 1 .. 3 : SchemaIndexes[n].name \in {"email_1", "role_1_createdAt_-1"}
  <2> TAKE n \in 1 .. 3
  <2>1. CASE n = 1
    BY <2>1 DEF SchemaIndexes, Index
  <2>2. CASE n = 2
    BY <2>2 DEF SchemaIndexes, Index
  <2>3. CASE n = 3
    BY <2>3 DEF SchemaIndexes, Index
  <2> QED BY <2>1, <2>2, <2>3
<1>7. CASE g = 1
  BY <1>1, <1>2, <1>3, <1>4, <1>5, <1>6, <1>7, FilesAre
<1>8. CASE g = 2
  BY <1>1, <1>2, <1>3, <1>4, <1>8, FilesAre
<1> QED BY <1>7, <1>8, FilesAre

(* Deleting the record of one file keeps the others recorded. *)
LEMMA EraseKeepsOthers ==
    ASSUME records \in Seq(Files), NEW f \in Files, DeleteOne(f)
    PROVE  Recorded \ {f} \subseteq Recorded'
<1>1. CASE UNCHANGED records
  BY <1>1 DEF Recorded
<1>2. ASSUME NEW n \in DOMAIN records, records[n] = f,
             records' = SubSeq(records, 1, n - 1) \o SubSeq(records, n + 1, Len(records))
      PROVE  Recorded \ {f} \subseteq Recorded'
  <2> DEFINE len == Len(records)
  <2>1. /\ len \in Nat /\ n \in 1 .. len /\ DOMAIN records = 1 .. len
        /\ \A i \in 1 .. len : records[i] \in Files
    OBVIOUS
  <2>2. /\ DOMAIN records' = 1 .. len - 1
        /\ \A i \in 1 .. len - 1 : records'[i] = IF i < n THEN records[i] ELSE records[i + 1]
    BY <1>2, Shortened
  <2> HIDE DEF len
  <2>3. ASSUME NEW j \in 1 .. len, records[j] # f
        PROVE  \E i \in DOMAIN records' : records'[i] = records[j]
    <3>1. CASE j < n
      BY <2>1, <2>2, <3>1
    <3>2. CASE j > n
      <4>1. j - 1 \in 1 .. len - 1 /\ ~(j - 1 < n) /\ j - 1 + 1 = j
        BY <2>1, <3>2
      <4> QED BY <2>2, <4>1
    <3>3. j # n
      BY <1>2, <2>3
    <3>4. j < n \/ j > n
      BY <2>1, <3>3
    <3> QED BY <3>1, <3>2, <3>4
  <2>4. ASSUME NEW g \in Recorded \ {f} PROVE g \in Recorded'
    <3>1. PICK j \in 1 .. len : records[j] = g
      BY <2>1 DEF Recorded
    <3>2. PICK i \in DOMAIN records' : records'[i] = g
      BY <2>3, <3>1
    <3> QED BY <3>2 DEF Recorded
  <2> QED BY <2>4
<1> QED BY <1>1, <1>2 DEF DeleteOne

(* The indexes of f stay away, and nothing of the runners changes. *)
LEMMA CleanSame ==
    ASSUME NEW f \in Files, CleanOf(f), UNCHANGED <<records, pc, todo, step>>,
           Own(f) \cap indexes' \subseteq indexes
    PROVE  CleanOf(f)'
<1>1. Recorded' = Recorded /\ (AtHandOf(f)' <=> AtHandOf(f))
  BY DEF Recorded, AtHandOf, Current
<1>2. \A r \in Runners : Current(r)' = Current(r)
  BY DEF Current
<1>3. Own(f)' = Own(f) /\ \A i \in 1 .. 3 : Creates[f][i] \in Own(f)
  BY DEF Own
<1>4. \A i \in 1 .. 3 : Creates[f][i] \notin indexes => Creates[f][i] \notin indexes'
  BY <1>3
<1>5. Own(f) \cap indexes = {} => Own(f)' \cap indexes' = {}
  BY <1>3
<1> QED BY <1>1, <1>2, <1>4, <1>5 DEF CleanOf, Own

(* The step of another runner r, of which no part of CleanOf(f) speaks.    *)
LEMMA CleanOther ==
    ASSUME NEW f \in Files, NEW r \in Runners, CleanOf(f),
           \A q \in Runners \ {r} :
               pc'[q] = pc[q] /\ todo'[q] = todo[q] /\ step'[q] = step[q],
           Own(f) \cap indexes' \subseteq indexes,
           f \notin Recorded' /\ ~AtHandOf(f)' => f \notin Recorded /\ ~AtHandOf(f),
           pc'[r] \in {"down", "erase"} => Current(r)' # f
    PROVE  CleanOf(f)'
<1>1. \A q \in Runners \ {r} : Current(q)' = Current(q)
  BY DEF Current
<1>2. Own(f)' = Own(f) /\ \A i \in 1 .. 3 : Creates[f][i] \in Own(f)
  BY DEF Own
<1>3. \A i \in 1 .. 3 : Creates[f][i] \notin indexes => Creates[f][i] \notin indexes'
  BY <1>2
<1>4. Own(f) \cap indexes = {} => Own(f)' \cap indexes' = {}
  BY <1>2
<1>5. ASSUME NEW q \in Runners, Current(q)' = f
      PROVE  /\ pc'[q] = "down" =>
                   \A i \in 1 .. 3 : i < step'[q] => Creates[f][i] \notin indexes'
             /\ pc'[q] = "erase" => Own(f)' \cap indexes' = {}
  <2>1. CASE q = r
    BY <1>5, <2>1
  <2>2. CASE q # r
    BY <1>1, <1>3, <1>4, <1>5, <2>2 DEF CleanOf
  <2> QED BY <2>1, <2>2
<1>6. f \notin Recorded' /\ ~AtHandOf(f)' => Own(f)' \cap indexes' = {}
  BY <1>4 DEF CleanOf
<1> QED BY <1>5, <1>6 DEF CleanOf

(* Nobody applies f after the step who did not before. *)
LEMMA AtHandKept ==
    ASSUME NEW f, NEW r \in Runners,
           \A q \in Runners \ {r} :
               pc'[q] = pc[q] /\ todo'[q] = todo[q],
           pc[r] \in {"up", "record"} /\ Current(r) = f => AtHandOf(f)',
           ~AtHandOf(f)'
    PROVE  ~AtHandOf(f)
<1>1. ASSUME NEW q \in Runners, pc[q] \in {"up", "record"}, Current(q) = f PROVE FALSE
  <2>1. CASE q = r
    BY <1>1, <2>1
  <2>2. CASE q # r
    <3>1. pc'[q] \in {"up", "record"} /\ Current(q)' = f
      BY <1>1, <2>2 DEF Current
    <3> QED BY <3>1 DEF AtHandOf
  <2> QED BY <2>1, <2>2
<1> QED BY <1>1 DEF AtHandOf

(* A command begins on its own, or Clean says nothing. *)
LEMMA UpClean ==
    ASSUME IInv, Clean, NEW r \in Runners, Up(r)
    PROVE  Clean'
<1> SUFFICES ASSUME ~overlapped', NEW f \in Files, f \notin torn'
             PROVE  CleanOf(f)'
  BY DEF Clean
<1>1. /\ indexes' = indexes /\ records' = records /\ torn' = torn
      /\ ~overlapped /\ \A q \in Runners : pc[q] = "idle"
      /\ pc' = [pc EXCEPT ![r] = "up"]
      /\ todo' = [todo EXCEPT ![r] = Pending]
      /\ step' = [step EXCEPT ![r] = 1]
  BY DEF Up, Begin
<1>2. CleanOf(f)
  BY <1>1 DEF Clean
<1>3. pc'[r] = "up" /\ \A q \in Runners \ {r} :
         pc'[q] = pc[q] /\ todo'[q] = todo[q] /\ step'[q] = step[q]
  BY <1>1 DEF IInv, TypeOK
<1>4. Recorded' = Recorded /\ ~AtHandOf(f)
  BY <1>1 DEF Recorded, AtHandOf
<1> QED BY <1>1, <1>2, <1>3, <1>4, CleanOther

LEMMA DownClean ==
    ASSUME IInv, Clean, NEW r \in Runners, Down(r)
    PROVE  Clean'
<1> SUFFICES ASSUME ~overlapped', NEW f \in Files, f \notin torn'
             PROVE  CleanOf(f)'
  BY DEF Clean
<1> DEFINE last == LastApplied
<1>1. /\ indexes' = indexes /\ records' = records /\ torn' = torn \ {last}
      /\ ~overlapped /\ \A q \in Runners : pc[q] = "idle"
      /\ pc' = [pc EXCEPT ![r] = "down"]
      /\ todo' = [todo EXCEPT ![r] = {last}]
      /\ step' = [step EXCEPT ![r] = 1]
      /\ records # <<>>
  BY DEF Down, Begin
<1>2. last \in Files /\ last \in Recorded
  BY <1>1 DEF IInv, TypeOK, LastApplied, Recorded
<1>3. /\ pc'[r] = "down" /\ todo'[r] = {last} /\ step'[r] = 1
      /\ \A q \in Runners \ {r} :
            pc'[q] = "idle" /\ pc'[q] = pc[q] /\ todo'[q] = todo[q] /\ step'[q] = step[q]
  BY <1>1 DEF IInv, TypeOK
<1>4. Recorded' = Recorded /\ ~AtHandOf(f)
  BY <1>1 DEF Recorded, AtHandOf
<1>5. Current(r)' = last
  BY <1>2, <1>3, OldestIs DEF Current
<1> HIDE DEF last
<1>6. CASE f = last
  <2>1. f \in Recorded'
    BY <1>2, <1>4, <1>6
  <2>2. \A i \in 1 .. 3 : ~(i < 1)
    OBVIOUS
  <2> QED BY <1>3, <2>1, <2>2 DEF CleanOf
<1>7. CASE f # last
  <2>1. CleanOf(f)
    BY <1>1, <1>7 DEF Clean
  <2> QED BY <1>1, <1>3, <1>4, <1>5, <1>7, <2>1, CleanOther
<1> QED BY <1>6, <1>7

LEMMA ApplyStepClean ==
    ASSUME IInv, Single, Clean, NEW r \in Runners, ApplyStep(r)
    PROVE  Clean'
<1> SUFFICES ASSUME ~overlapped', NEW f \in Files, f \notin torn'
             PROVE  CleanOf(f)'
  BY DEF Clean
<1> DEFINE h == Current(r)
           ix == Creates[h][step[r]]
<1>1. /\ pc[r] = "up" /\ h \in Files /\ step[r] \in 1 .. 3
      /\ UNCHANGED <<records, todo, overlapped, torn>>
      /\ indexes' = indexes \cup {Collection(ix.of), ix}
  BY AtHand DEF ApplyStep, CreateIndex
<1>2. /\ pc' = pc \/ pc' = [pc EXCEPT ![r] = "record"]
      /\ \A q \in Runners \ {r} : step'[q] = step[q]
  BY <1>1 DEF ApplyStep, Advance, IInv, TypeOK
<1>3. /\ pc'[r] \in {"up", "record"} /\ todo'[r] = todo[r]
      /\ \A q \in Runners \ {r} :
            pc'[q] = pc[q] /\ todo'[q] = todo[q] /\ step'[q] = step[q]
  BY <1>1, <1>2 DEF IInv, TypeOK
<1>4. Recorded' = Recorded /\ Current(r)' = h
  BY <1>1 DEF Recorded, Current
<1>5. CleanOf(f)
  BY <1>1 DEF Clean
<1>6. CASE f = h
  <2>1. AtHandOf(f)'
    BY <1>3, <1>4, <1>6 DEF AtHandOf
  <2>2. \A q \in Runners : pc'[q] \notin {"down", "erase"}
    BY <1>1, <1>3 DEF Single
  <2> QED BY <2>1, <2>2 DEF CleanOf
<1>7. CASE f # h
  <2>1. ix \notin Own(f) /\ Collection(ix.of) \notin Own(f)
    BY <1>1, <1>7, CreatesApart
  <2>2. Own(f) \cap indexes' \subseteq indexes
    BY <1>1, <2>1
  <2>3. ~AtHandOf(f)' => ~AtHandOf(f)
    BY <1>3, <1>7, AtHandKept
  <2> QED BY <1>3, <1>4, <1>5, <2>2, <2>3, CleanOther
<1> QED BY <1>6, <1>7

LEMMA InsertRecordClean ==
    ASSUME IInv, Clean, NEW r \in Runners, InsertRecord(r)
    PROVE  Clean'
<1> SUFFICES ASSUME ~overlapped', NEW f \in Files, f \notin torn'
             PROVE  CleanOf(f)'
  BY DEF Clean
<1> DEFINE h == Current(r)
<1>1. /\ pc[r] = "record" /\ h \in Files
      /\ UNCHANGED <<indexes, overlapped, torn>>
      /\ records' = Append(records, h)
  BY AtHand DEF InsertRecord
<1>2. Recorded' = Recorded \cup {h}
  BY <1>1, RecordedByInsert DEF IInv, TypeOK
<1>3. /\ pc'[r] \in {"idle", "up"}
      /\ \A q \in Runners \ {r} :
            pc'[q] = pc[q] /\ todo'[q] = todo[q] /\ step'[q] = step[q]
  BY DEF InsertRecord, Stop, IInv, TypeOK
<1>4. CleanOf(f)
  BY <1>1 DEF Clean
<1>5. f \notin Recorded' /\ ~AtHandOf(f)' => f \notin Recorded /\ ~AtHandOf(f)
  BY <1>2, <1>3, AtHandKept
<1> QED BY <1>1, <1>3, <1>4, <1>5, CleanOther

LEMMA DropStepClean ==
    ASSUME IInv, Clean, NEW r \in Runners, NEW executed \in BOOLEAN,
           DropStep(r, executed)
    PROVE  Clean'
<1> SUFFICES ASSUME ~overlapped', NEW f \in Files, f \notin torn'
             PROVE  CleanOf(f)'
  BY DEF Clean
<1> DEFINE h == Current(r)
           n == step[r]
<1>1. /\ pc[r] = "down" /\ h \in Files /\ n \in 1 .. 3 /\ n <= Drops[h]
      /\ UNCHANGED <<records, todo, overlapped>>
      /\ indexes' = IF executed THEN indexes \ Removes(h, n) ELSE indexes
      /\ torn' = IF executed THEN torn ELSE torn \cup {h}
  BY AtHand DEF DropStep, IInv, AtWork
<1>2. /\ pc' = pc \/ pc' = [pc EXCEPT ![r] = "erase"]
      /\ n < Drops[h] => pc' = pc /\ step' = [step EXCEPT ![r] = n + 1]
      /\ ~(n < Drops[h]) => pc' = [pc EXCEPT ![r] = "erase"]
      /\ \A q \in Runners \ {r} : step'[q] = step[q]
  BY DEF DropStep, Advance, IInv, TypeOK
<1>3. /\ pc'[r] \in {"down", "erase"}
      /\ n < Drops[h] => pc'[r] = "down" /\ step'[r] = n + 1
      /\ ~(n < Drops[h]) => pc'[r] = "erase"
      /\ \A q \in Runners \ {r} :
            pc'[q] = pc[q] /\ todo'[q] = todo[q] /\ step'[q] = step[q]
  BY <1>1, <1>2 DEF IInv, TypeOK
<1>4. /\ Recorded' = Recorded /\ Current(r)' = h /\ indexes' \subseteq indexes
      /\ f \notin torn
  BY <1>1 DEF Recorded, Current
<1>5. CleanOf(f)
  BY <1>1, <1>4 DEF Clean
<1>6. ~AtHandOf(f)' => ~AtHandOf(f)
  BY <1>1, <1>3, AtHandKept
<1>7. CASE f # h
  BY <1>3, <1>4, <1>5, <1>6, <1>7, CleanOther
<1>8. CASE f = h
  <2>1. executed /\ indexes' = indexes \ Removes(f, n)
    BY <1>1, <1>8
  <2>2. \A i \in 1 .. 3 : i < n => Creates[f][i] \notin indexes
    BY <1>1, <1>5, <1>8 DEF CleanOf
  <2>3. /\ Drops[1] = 3 /\ Drops[2] = 1 /\ Files = {1, 2}
        /\ Creates[1] = UserIndexes /\ Creates[2] = SessionIndexes
    BY FilesAre DEF Drops, Creates
  <2>4. \A i \in 1 .. 3 : i < n + 1 => Creates[f][i] \notin indexes'
    <3>1. CASE f = 1
      <4>1. UserIndexes[n] \notin indexes'
        BY <2>1, <3>1 DEF Removes
      <4>2. ASSUME NEW i \in 1 .. 3, i < n + 1 PROVE i < n \/ i = n
        BY <1>1, <4>2
      <4> QED BY <1>4, <2>2, <2>3, <3>1, <4>1, <4>2
    <3>2. CASE f = 2
      <4>1. \A i \in 1 .. 3 : SessionIndexes[i].of = "sessions"
        BY CreatesKnown
      <4> QED BY <2>1, <2>3, <3>2, <4>1 DEF Removes
    <3> QED BY <2>3, <3>1, <3>2
  <2>5. ~(n < Drops[h]) => \A i \in 1 .. 3 : Creates[f][i] \notin indexes'
    <3>1. CASE f = 1
      <4>1. ~(n < Drops[h]) => n = 3
        BY <1>1, <1>8, <2>3, <3>1
      <4>2. \A i \in 1 .. 3 : i < 3 + 1
        OBVIOUS
      <4> QED BY <2>4, <4>1, <4>2
    <3>2. CASE f = 2
      <4>1. \A i \in 1 .. 3 : SessionIndexes[i].of = "sessions"
        BY CreatesKnown
      <4> QED BY <2>1, <2>3, <3>2, <4>1 DEF Removes
    <3> QED BY <2>3, <3>1, <3>2
  <2>6. ASSUME NEW q \in Runners, Current(q)' = f
        PROVE  /\ pc'[q] = "down" =>
                     \A i \in 1 .. 3 : i < step'[q] => Creates[f][i] \notin indexes'
               /\ pc'[q] = "erase" => Own(f) \cap indexes' = {}
    <3>1. CASE q = r
      BY <1>3, <2>4, <2>5, <3>1 DEF Own
    <3>2. CASE q # r
      <4>1. Current(q) = f
        BY <1>3, <2>6, <3>2 DEF Current
      <4> QED BY <1>3, <1>4, <1>5, <3>2, <4>1 DEF CleanOf
    <3> QED BY <3>1, <3>2
  <2>7. f \notin Recorded' /\ ~AtHandOf(f)' => Own(f) \cap indexes' = {}
    BY <1>4, <1>5, <1>6 DEF CleanOf
  <2>8. Own(f)' = Own(f)
    BY DEF Own
  <2> QED BY <2>6, <2>7, <2>8 DEF CleanOf
<1> QED BY <1>7, <1>8

LEMMA EraseRecordClean ==
    ASSUME IInv, Clean, NEW r \in Runners, EraseRecord(r)
    PROVE  Clean'
<1> SUFFICES ASSUME ~overlapped', NEW f \in Files, f \notin torn'
             PROVE  CleanOf(f)'
  BY DEF Clean
<1> DEFINE h == Current(r)
<1>1. /\ pc[r] = "erase" /\ h \in Files /\ DeleteOne(h)
      /\ UNCHANGED <<indexes, overlapped, torn>>
  BY AtHand DEF EraseRecord
<1>2. Recorded \ {h} \subseteq Recorded'
  BY <1>1, EraseKeepsOthers DEF IInv, TypeOK
<1>3. /\ pc'[r] = "idle"
      /\ \A q \in Runners \ {r} :
            pc'[q] = pc[q] /\ todo'[q] = todo[q] /\ step'[q] = step[q]
  BY DEF EraseRecord, Stop, IInv, TypeOK
<1>4. CleanOf(f)
  BY <1>1 DEF Clean
<1>5. ~AtHandOf(f)' => ~AtHandOf(f)
  BY <1>1, <1>3, AtHandKept
<1>6. CASE f # h
  BY <1>1, <1>2, <1>3, <1>4, <1>5, <1>6, CleanOther
<1>7. CASE f = h
  <2>1. Own(f) \cap indexes = {}
    BY <1>1, <1>4, <1>7 DEF CleanOf
  <2>2. Own(f)' \cap indexes' = {} /\ \A i \in 1 .. 3 : Creates[f][i] \notin indexes'
    BY <1>1, <2>1 DEF Own
  <2> QED BY <2>2 DEF CleanOf
<1> QED BY <1>6, <1>7

LEMMA QuitClean ==
    ASSUME IInv, Clean, NEW r \in Runners, Quit(r)
    PROVE  Clean'
<1> SUFFICES ASSUME ~overlapped', NEW f \in Files, f \notin torn'
             PROVE  CleanOf(f)'
  BY DEF Clean
<1>1. /\ UNCHANGED <<indexes, records, overlapped>>
      /\ torn' = IF pc[r] \in {"up", "record"} THEN torn \cup {Current(r)} ELSE torn
  BY DEF Quit
<1>2. /\ pc'[r] = "idle"
      /\ \A q \in Runners \ {r} :
            pc'[q] = pc[q] /\ todo'[q] = todo[q] /\ step'[q] = step[q]
  BY DEF Quit, Stop, IInv, TypeOK
<1>3. CleanOf(f) /\ Recorded' = Recorded
  BY <1>1 DEF Clean, Recorded
<1>4. ~AtHandOf(f)' => ~AtHandOf(f)
  BY <1>1, <1>2, AtHandKept
<1> QED BY <1>1, <1>2, <1>3, <1>4, CleanOther

LEMMA AppClean ==
    ASSUME IInv, Clean, NEW a \in Apps,
           Boot(a) \/ EnsureIndex(a) \/ EnsureIndexFails(a) \/ Exit(a)
    PROVE  Clean'
<1>1. UNCHANGED <<records, pc, todo, step, overlapped, torn>>
  BY DEF Boot, EnsureIndex, EnsureIndexFails, Exit
<1>2. ASSUME NEW f \in Files PROVE Own(f) \cap indexes' \subseteq indexes
  <2>1. CASE EnsureIndex(a)
    <3> DEFINE ix == SchemaIndexes[boot[a]]
    <3>1. boot[a] \in 1 .. 3 /\ indexes' = indexes \cup {Collection(ix.of), ix}
      BY <2>1 DEF EnsureIndex, CreateIndex
    <3>2. ix.of = "users"
      BY <3>1, CreatesKnown
    <3>3. ix \notin Own(f) /\ Collection(ix.of) \notin Own(f)
      BY <3>1, <3>2, CreatesApart
    <3> QED BY <3>1, <3>3
  <2>2. CASE ~EnsureIndex(a)
    BY <2>2 DEF Boot, EnsureIndexFails, Exit
  <2> QED BY <2>1, <2>2
<1> SUFFICES ASSUME ~overlapped', NEW f \in Files, f \notin torn'
             PROVE  CleanOf(f)'
  BY DEF Clean
<1>3. CleanOf(f)
  BY <1>1 DEF Clean
<1> QED BY <1>1, <1>2, <1>3, CleanSame

LEMMA CleanStep ==
    ASSUME IInv, Single, Clean, [Next]_vars
    PROVE  Clean'
<1>1. ASSUME NEW r \in Runners, Up(r) PROVE Clean'
  BY <1>1, UpClean
<1>2. ASSUME NEW r \in Runners, ApplyStep(r) PROVE Clean'
  BY <1>2, ApplyStepClean
<1>3. ASSUME NEW r \in Runners, InsertRecord(r) PROVE Clean'
  BY <1>3, InsertRecordClean
<1>4. ASSUME NEW r \in Runners, Down(r) PROVE Clean'
  BY <1>4, DownClean
<1>5. ASSUME NEW r \in Runners, NEW executed \in BOOLEAN, DropStep(r, executed)
      PROVE  Clean'
  BY <1>5, DropStepClean
<1>6. ASSUME NEW r \in Runners, EraseRecord(r) PROVE Clean'
  BY <1>6, EraseRecordClean
<1>7. ASSUME NEW r \in Runners, Quit(r) PROVE Clean'
  BY <1>7, QuitClean
<1>8. ASSUME NEW a \in Apps,
             Boot(a) \/ EnsureIndex(a) \/ EnsureIndexFails(a) \/ Exit(a)
      PROVE  Clean'
  BY <1>8, AppClean
<1>9. ASSUME UNCHANGED vars PROVE Clean'
  <2> SUFFICES ASSUME ~overlapped', NEW f \in Files, f \notin torn'
               PROVE  CleanOf(f)'
    BY DEF Clean
  <2>1. UNCHANGED <<records, pc, todo, step, overlapped, torn, indexes>>
    BY <1>9 DEF vars
  <2>2. CleanOf(f)
    BY <2>1 DEF Clean
  <2> QED BY <2>1, <2>2, CleanSame
<1> QED BY <1>1, <1>2, <1>3, <1>4, <1>5, <1>6, <1>7, <1>8, <1>9 DEF Next

(* One command at a time, an index of a migration that is neither recorded *)
(* nor being applied was left by an up() that stopped midway or by a drop  *)
(* that failed unnoticed, since the last down() of that migration began.   *)
THEOREM LeftoversExplained == Spec => []LeftoverHasCause
<1>1. Init => Single /\ Clean
  <2>1. Init => Single
    BY DEF Init, Single, Matches
  <2>2. Init => Clean
    BY DEF Init, Clean, CleanOf
  <2> QED BY <2>1, <2>2
<1>2. IInv /\ Single /\ Clean /\ [Next]_vars => Single' /\ Clean'
  BY SingleStep, CleanStep
<1>3. Clean => LeftoverHasCause
  <2> SUFFICES ASSUME Clean, ~overlapped, NEW f \in Files \ (Recorded \cup torn),
                      \A r \in Runners : pc[r] \in {"up", "record"} => Current(r) # f,
                      NEW i \in DOMAIN Creates[f]
               PROVE  Creates[f][i] \notin indexes
    BY DEF LeftoverHasCause
  <2>1. Own(f) \cap indexes = {}
    BY DEF Clean, CleanOf, AtHandOf
  <2>2. Creates[f][i] \in Own(f)
    BY FilesAre DEF Own
  <2> QED BY <2>1, <2>2
<1> QED BY <1>1, <1>2, <1>3, Invariance, PTL DEF Spec
=============================================================================
