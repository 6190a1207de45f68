--------------------------- MODULE AccountsProofs ---------------------------
(***************************************************************************)
(* Proofs about Accounts, for any number of requests, emails, documents    *)
(* and passwords, with the unique index present, absent, built or dropped. *)
(*                                                                         *)
(* Serving says what a request carries from one command to the next, and   *)
(* CheckHolds what is left of register()'s check by the time it inserts:   *)
(* the email is still free, or a rival has been seen taking it.            *)
(***************************************************************************)
EXTENDS Accounts, TLAPS

(* A document never changes its email or password, and is never removed.   *)
ServingBy(p) ==
    /\ pc[p] # "idle" => req[p].email \in Emails /\ req[p].password \in Passwords
    /\ pc[p] \in {"verify", "touch", "sign"} =>
          req[p].user \in Ids /\ users[req[p].user].email = req[p].email
    /\ pc[p] \in {"touch", "sign"} =>
          users[req[p].user].password = req[p].password

Serving == \A p \in Procs : ServingBy(p)

CheckHolds ==
    \A p \in Procs :
        pc[p] = "create" /\ ~req[p].taken => Owners(req[p].email) = {}

IndInv ==
    /\ TypeOK
    /\ Serving
    /\ CheckHolds
    /\ ActiveEmailUnique
    /\ SharedOnlyByRace
    /\ RefusedOnlyByRace
    /\ TokensEarned

-----------------------------------------------------------------------------
(* Lemmas on the data. *)

LEMMA IdleType == Idle \in Requests
BY DEF Idle, Requests, Statuses

LEMMA Existing ==
    ASSUME TypeOK, NEW i \in Ids
    PROVE  /\ users[i].email \in Emails => users[i] \in Documents
           /\ users[i] # Absent => users[i] \in Documents
           /\ users[i] \in Documents => users[i] # Absent
BY NoneApart DEF TypeOK, Documents, Absent

(* The requests a step may begin with are well formed. *)
LEMMA BegunType ==
    ASSUME NEW e \in Emails, NEW w \in Passwords, NEW i \in Ids
    PROVE  /\ [Idle EXCEPT !.email = e, !.password = w] \in Requests
           /\ [Idle EXCEPT !.email = e, !.password = w, !.user = i] \in Requests
           /\ [Idle EXCEPT !.email = e, !.password = w, !.status = "conflict"]
                 \in Requests
           /\ [Idle EXCEPT !.email = e, !.password = w, !.status = "unauthorized"]
                 \in Requests
BY DEF Idle, Requests, Statuses

(* Insertion adds one document with the email and password of its request, *)
(* and marks the rivals.                                                   *)
LEMMA CreateEffect ==
    ASSUME TypeOK, Serving, NEW p \in Procs, NEW i \in Ids, Create(p, i)
    PROVE  /\ users'[i] = [email |-> req[p].email, password |-> req[p].password]
           /\ users'[i] \in Documents
           /\ users'[i].email = req[p].email
           /\ users'[i].password = req[p].password
           /\ \A j \in Ids \ {i} : users'[j] = users[j]
           /\ i \notin active
           /\ \A j \in Ids : users[j] # Absent => j # i
           /\ users' \in [Ids -> Documents \cup {Absent}]
<1>1. req[p].email \in Emails /\ req[p].password \in Passwords
  BY DEF Create, Serving, ServingBy
<1>2. users'[i] = [email |-> req[p].email, password |-> req[p].password]
  BY DEF Create, TypeOK
<1>3. /\ users'[i] \in Documents
      /\ users'[i].email = req[p].email
      /\ users'[i].password = req[p].password
  BY <1>1, <1>2 DEF Documents
<1>4. users[i] = Absent
  BY DEF Create, Fresh
<1>5. \A j \in Ids \ {i} : users'[j] = users[j]
  BY DEF Create, TypeOK
<1>6. i \notin active
  BY <1>4 DEF TypeOK
<1>7. users' \in [Ids -> Documents \cup {Absent}]
  <2>1. [email |-> req[p].email, password |-> req[p].password] \in Documents
    BY <1>1 DEF Documents
  <2> QED BY <2>1 DEF Create, TypeOK
<1> QED BY <1>2, <1>3, <1>4, <1>5, <1>6, <1>7

(* What insertion does to the requests. *)
LEMMA CreateRequests ==
    ASSUME TypeOK, NEW p \in Procs, NEW i \in Ids, Create(p, i), NEW q \in Procs
    PROVE  /\ req'[q] \in Requests
           /\ req'[q].email = req[q].email
           /\ req'[q].password = req[q].password
           /\ req'[q].status = req[q].status
           /\ req[q].taken => req'[q].taken
           /\ q = p => req'[q].user = i
           /\ q # p => req'[q].user = req[q].user
           /\ q # p /\ pc[q] = "create" /\ req[q].email = req[p].email => req'[q].taken
<1>1. req[q] \in Requests
  BY DEF TypeOK
<1>2. CASE q = p
  <2>1. req'[q] = [req[p] EXCEPT !.user = i]
    BY <1>2 DEF Create, Inserted
  <2> QED BY <1>1, <1>2, <2>1 DEF Requests
<1>3. CASE q # p /\ q \in Rivals(p)
  <2>1. req'[q] = [req[q] EXCEPT !.taken = TRUE]
    BY <1>3 DEF Create
  <2> QED BY <1>1, <1>3, <2>1 DEF Requests
<1>4. CASE q # p /\ q \notin Rivals(p)
  <2>1. req'[q] = req[q]
    BY <1>4 DEF Create
  <2> QED BY <1>1, <1>4, <2>1 DEF Rivals
<1> QED BY <1>2, <1>3, <1>4

-----------------------------------------------------------------------------
(* Type correctness. *)

LEMMA TypeInit == Init => TypeOK
BY IdleType DEF Init, TypeOK

LEMMA AnswerType ==
    ASSUME TypeOK, NEW p \in Procs, NEW status \in Statuses, Answer(p, status)
    PROVE  /\ pc' \in [Procs -> {"idle", "create", "verify", "touch", "sign", "answer"}]
           /\ req' \in [Procs -> Requests]
<1>1. [req[p] EXCEPT !.status = status] \in Requests
  BY DEF TypeOK, Requests
<1> QED BY <1>1 DEF Answer, TypeOK

LEMMA CreateType ==
    ASSUME TypeOK, Serving, NEW p \in Procs, NEW i \in Ids, Create(p, i)
    PROVE  TypeOK'
<1>1. users' \in [Ids -> Documents \cup {Absent}]
  BY CreateEffect
<1>2. users'[i] # Absent /\ \A j \in Ids : users[j] # Absent => users'[j] # Absent
  <2>1. users'[i].email \in Emails
    BY CreateEffect DEF Documents
  <2>2. users'[i] # Absent
    BY <2>1, NoneApart DEF Absent
  <2> QED BY <2>2, CreateEffect
<1>3. active' \subseteq {j \in Ids : users'[j] # Absent}
  BY <1>2 DEF Create, TypeOK
<1>4. loggedIn' \subseteq {j \in Ids : users'[j] # Absent}
  BY <1>2 DEF Create, TypeOK
<1>5. req' \in [Procs -> Requests]
  <2>1. \A q \in Procs : req'[q] \in Requests
    BY CreateRequests
  <2>2. req' = [q \in Procs |-> req'[q]]
    BY DEF Create
  <2> QED BY <2>1, <2>2
<1>6. pc' \in [Procs -> {"idle", "create", "verify", "touch", "sign", "answer"}]
  BY DEF Create, TypeOK
<1>7. racy' \subseteq Ids /\ indexed' \in BOOLEAN /\ tokens' \subseteq Tokens
  BY DEF Create, TypeOK
<1> QED BY <1>1, <1>3, <1>4, <1>5, <1>6, <1>7 DEF TypeOK

LEMMA BeginType ==
    ASSUME TypeOK, NEW p \in Procs, NEW e \in Emails, NEW w \in Passwords, Begin(p, e, w)
    PROVE  TypeOK'
<1> USE DEF TypeOK
<1>1. CASE Register(p, e, w)
  <2>1. [Idle EXCEPT !.email = e, !.password = w] \in Requests
    BY DEF Idle, Requests, Statuses
  <2> QED BY <1>1, <2>1 DEF Register
<1>2. CASE RegisterConflict(p, e, w)
  <2>1. [Idle EXCEPT !.email = e, !.password = w, !.status = "conflict"] \in Requests
    BY DEF Idle, Requests, Statuses
  <2> QED BY <1>2, <2>1 DEF RegisterConflict
<1>3. ASSUME NEW i \in Ids, Login(p, e, w, i) PROVE TypeOK'
  <2>1. [Idle EXCEPT !.email = e, !.password = w, !.user = i] \in Requests
    BY BegunType
  <2> QED BY <1>3, <2>1 DEF Login
<1>4. CASE LoginUnknown(p, e, w)
  <2>1. [Idle EXCEPT !.email = e, !.password = w, !.status = "unauthorized"] \in Requests
    BY DEF Idle, Requests, Statuses
  <2> QED BY <1>4, <2>1 DEF LoginUnknown
<1> QED BY <1>1, <1>2, <1>3, <1>4 DEF Begin

LEMMA ContinueType ==
    ASSUME TypeOK, Serving, NEW p \in Procs, Continue(p)
    PROVE  TypeOK'
<1>1. ASSUME NEW i \in Ids, Create(p, i) PROVE TypeOK'
  BY <1>1, CreateType
<1>2. CASE CreateRefused(p)
  <2>1. "duplicate" \in Statuses
    BY DEF Statuses
  <2> QED BY <1>2, <2>1, AnswerType DEF CreateRefused, TypeOK
<1>3. CASE Verify(p)
  BY <1>3 DEF Verify, TypeOK
<1>4. CASE VerifyFails(p)
  <2>1. "unauthorized" \in Statuses
    BY DEF Statuses
  <2> QED BY <1>4, <2>1, AnswerType DEF VerifyFails, TypeOK
<1>5. CASE TouchLastLogin(p)
  <2>1. req[p].user \in Ids /\ users[req[p].user].email \in Emails
    BY <1>5 DEF TouchLastLogin, Serving, ServingBy
  <2>2. users[req[p].user] # Absent
    BY <2>1, Existing
  <2> QED BY <1>5, <2>1, <2>2 DEF TouchLastLogin, TypeOK
<1>6. CASE GenerateTokenPair(p)
  <2>1. "ok" \in Statuses
    BY DEF Statuses
  <2>2. /\ req[p].user \in Ids
        /\ req[p].email \in Emails
        /\ req[p].password \in Passwords
    BY <1>6 DEF GenerateTokenPair, Serving, ServingBy
  <2>3. tokens' \subseteq Tokens
    BY <1>6, <2>2 DEF GenerateTokenPair, Subjects, Tokens, TypeOK
  <2> QED BY <1>6, <2>1, <2>3, AnswerType DEF GenerateTokenPair, TypeOK
<1>7. CASE Finish(p)
  BY <1>7, IdleType DEF Finish, TypeOK
<1> QED BY <1>1, <1>2, <1>3, <1>4, <1>5, <1>6, <1>7 DEF Continue

LEMMA TypeStep ==
    ASSUME TypeOK, Serving, [Next]_vars
    PROVE  TypeOK'
<1>1. ASSUME NEW p \in Procs, NEW e \in Emails, NEW w \in Passwords, Begin(p, e, w)
      PROVE  TypeOK'
  BY <1>1, BeginType
<1>2. ASSUME NEW p \in Procs, Continue(p) PROVE TypeOK'
  BY <1>2, ContinueType
<1>3. ASSUME NEW t \in tokens, SoftDelete(t) PROVE TypeOK'
  BY <1>3 DEF SoftDelete, TypeOK
<1>4. CASE BuildIndex
  BY <1>4 DEF BuildIndex, TypeOK
<1>5. CASE DropIndex
  BY <1>5 DEF DropIndex, TypeOK
<1>6. CASE UNCHANGED vars
  BY <1>6 DEF vars, TypeOK
<1> QED BY <1>1, <1>2, <1>3, <1>4, <1>5, <1>6 DEF Next

-----------------------------------------------------------------------------
(* What a request carries stays true of its document. *)

(* Documents are inserted and never changed. *)
Kept == \A i \in Ids : users[i] # Absent => users'[i] = users[i]

LEMMA ServedKept ==
    ASSUME TypeOK, Kept, NEW q \in Procs, ServingBy(q),
           pc'[q] = pc[q],
           req'[q].email = req[q].email,
           req'[q].password = req[q].password,
           req'[q].user = req[q].user
    PROVE  ServingBy(q)'
<1>1. CASE pc[q] \in {"verify", "touch", "sign"}
  <2>1. req[q].user \in Ids /\ users[req[q].user].email \in Emails
    BY <1>1 DEF ServingBy
  <2>2. users'[req[q].user] = users[req[q].user]
    BY <2>1, Existing DEF Kept
  <2> QED BY <1>1, <2>2 DEF ServingBy
<1>2. CASE pc[q] \notin {"verify", "touch", "sign"}
  BY <1>2 DEF ServingBy
<1> QED BY <1>1, <1>2

LEMMA ServingBegin ==
    ASSUME TypeOK, Serving, NEW p \in Procs, NEW e \in Emails, NEW w \in Passwords,
           Begin(p, e, w)
    PROVE  Serving'
<1> USE DEF Serving, TypeOK
<1>1. UNCHANGED users
  BY DEF Begin, Register, RegisterConflict, Login, LoginUnknown
<1>2. \A q \in Procs \ {p} : pc'[q] = pc[q] /\ req'[q] = req[q]
  BY DEF Begin, Register, RegisterConflict, Login, LoginUnknown
<1>3. \A q \in Procs \ {p} : ServingBy(q)'
  BY <1>1, <1>2 DEF ServingBy
<1>4. ServingBy(p)'
  <2>1. CASE Register(p, e, w)
    BY <2>1 DEF Register, ServingBy, Idle
  <2>2. CASE RegisterConflict(p, e, w)
    BY <2>2 DEF RegisterConflict, ServingBy, Idle
  <2>3. ASSUME NEW i \in Ids, Login(p, e, w, i) PROVE ServingBy(p)'
    <3>1. users[i].email = e
      BY <2>3 DEF Login, Owners
    <3> QED BY <2>3, <3>1 DEF Login, ServingBy, Idle
  <2>4. CASE LoginUnknown(p, e, w)
    BY <2>4 DEF LoginUnknown, ServingBy, Idle
  <2> QED BY <2>1, <2>2, <2>3, <2>4 DEF Begin
<1> QED BY <1>3, <1>4

LEMMA ServingCreate ==
    ASSUME TypeOK, Serving, NEW p \in Procs, NEW i \in Ids, Create(p, i)
    PROVE  Serving'
<1>1. Kept
  BY CreateEffect DEF Kept
<1>2. \A q \in Procs \ {p} : ServingBy(q)'
  <2> TAKE q \in Procs \ {p}
  <2>1. pc'[q] = pc[q]
    BY DEF Create, TypeOK
  <2> QED BY <1>1, <2>1, CreateRequests, ServedKept DEF Serving
<1>3. ServingBy(p)'
  <2>1. pc'[p] = "sign"
    BY DEF Create, TypeOK
  <2>2. req[p].email \in Emails /\ req[p].password \in Passwords
    BY DEF Create, Serving, ServingBy
  <2>3. users'[i].email = req[p].email /\ users'[i].password = req[p].password
    BY CreateEffect
  <2>4. /\ req'[p].email = req[p].email
        /\ req'[p].password = req[p].password
        /\ req'[p].user = i
    BY CreateRequests
  <2> QED BY <2>1, <2>2, <2>3, <2>4 DEF ServingBy
<1> QED BY <1>2, <1>3 DEF Serving

LEMMA ServingContinue ==
    ASSUME TypeOK, Serving, NEW p \in Procs, Continue(p)
    PROVE  Serving'
<1>1. ASSUME NEW i \in Ids, Create(p, i) PROVE Serving'
  BY <1>1, ServingCreate
<1>2. CASE CreateRefused(p)
  BY <1>2 DEF CreateRefused, Answer, Serving, ServingBy, TypeOK
<1>3. CASE Verify(p)
  BY <1>3 DEF Verify, Serving, ServingBy, TypeOK
<1>4. CASE VerifyFails(p)
  BY <1>4 DEF VerifyFails, Answer, Serving, ServingBy, TypeOK
<1>5. CASE TouchLastLogin(p)
  BY <1>5 DEF TouchLastLogin, Serving, ServingBy, TypeOK
<1>6. CASE GenerateTokenPair(p)
  BY <1>6 DEF GenerateTokenPair, Answer, Serving, ServingBy, TypeOK
<1>7. CASE Finish(p)
  BY <1>7 DEF Finish, Serving, ServingBy, TypeOK
<1> QED BY <1>1, <1>2, <1>3, <1>4, <1>5, <1>6, <1>7 DEF Continue

LEMMA ServingStep ==
    ASSUME TypeOK, Serving, [Next]_vars
    PROVE  Serving'
<1>1. ASSUME NEW p \in Procs, NEW e \in Emails, NEW w \in Passwords, Begin(p, e, w)
      PROVE  Serving'
  BY <1>1, ServingBegin
<1>2. ASSUME NEW p \in Procs, Continue(p) PROVE Serving'
  BY <1>2, ServingContinue
<1>3. ASSUME NEW t \in tokens, SoftDelete(t) PROVE Serving'
  BY <1>3 DEF SoftDelete, Serving, ServingBy
<1>4. CASE BuildIndex
  BY <1>4 DEF BuildIndex, Serving, ServingBy
<1>5. CASE DropIndex
  BY <1>5 DEF DropIndex, Serving, ServingBy
<1>6. CASE UNCHANGED vars
  BY <1>6 DEF vars, Serving, ServingBy
<1> QED BY <1>1, <1>2, <1>3, <1>4, <1>5, <1>6 DEF Next

-----------------------------------------------------------------------------
(* Owners of an email. *)

(* Insertion makes the new document an owner of its email, and no other.   *)
LEMMA CreateOwners ==
    ASSUME TypeOK, Serving, NEW p \in Procs, NEW i \in Ids, Create(p, i), NEW e
    PROVE  Owners(e)' = IF e = req[p].email THEN Owners(e) \cup {i} ELSE Owners(e)
<1>1. active' = active \cup {i}
  BY DEF Create
<1>2. users'[i].email = req[p].email
  BY CreateEffect
<1>3. \A j \in active : users'[j] = users[j] /\ j # i
  BY CreateEffect DEF TypeOK
<1> QED BY <1>1, <1>2, <1>3 DEF Owners

LEMMA CheckBegin ==
    ASSUME TypeOK, CheckHolds, NEW p \in Procs, NEW e \in Emails, NEW w \in Passwords,
           Begin(p, e, w)
    PROVE  CheckHolds'
<1>1. UNCHANGED <<users, active>>
  BY DEF Begin, Register, RegisterConflict, Login, LoginUnknown
<1>2. \A q \in Procs \ {p} : pc'[q] = pc[q] /\ req'[q] = req[q]
  BY DEF Begin, Register, RegisterConflict, Login, LoginUnknown, TypeOK
<1>3. pc'[p] = "create" => Owners(req'[p].email) = {}
  BY DEF Begin, Register, RegisterConflict, Login, LoginUnknown, TypeOK, Exists, Idle
<1> QED BY <1>1, <1>2, <1>3 DEF CheckHolds, Owners

LEMMA CheckCreate ==
    ASSUME TypeOK, Serving, CheckHolds, NEW p \in Procs, NEW i \in Ids, Create(p, i)
    PROVE  CheckHolds'
<1> SUFFICES ASSUME NEW q \in Procs, pc'[q] = "create", ~req'[q].taken
             PROVE  {j \in active' : users'[j].email = req'[q].email} = {}
  BY DEF CheckHolds, Owners
<1>1. q # p /\ pc[q] = "create"
  BY DEF Create, TypeOK
<1>2. req'[q].email = req[q].email /\ ~req[q].taken /\ req[q].email # req[p].email
  BY <1>1, CreateRequests DEF TypeOK
<1>3. Owners(req[q].email) = {}
  BY <1>1, <1>2 DEF CheckHolds
<1>4. active' = active \cup {i} /\ users'[i].email # req[q].email
  BY <1>2, CreateEffect DEF Create
<1>5. \A j \in active : users'[j] = users[j]
  BY CreateEffect DEF TypeOK
<1> QED BY <1>2, <1>3, <1>4, <1>5 DEF Owners

LEMMA CheckContinue ==
    ASSUME TypeOK, Serving, CheckHolds, NEW p \in Procs, Continue(p)
    PROVE  CheckHolds'
<1>1. ASSUME NEW i \in Ids, Create(p, i) PROVE CheckHolds'
  BY <1>1, CheckCreate
<1>2. ASSUME ~ \E i \in Ids : Create(p, i) PROVE CheckHolds'
  <2>1. UNCHANGED <<users, active>>
    BY <1>2 DEF Continue, CreateRefused, Verify, VerifyFails, TouchLastLogin,
                GenerateTokenPair, Finish
  <2>2. \A q \in Procs : pc'[q] = "create" => pc[q] = "create" /\ req'[q] = req[q]
    BY <1>2 DEF Continue, CreateRefused, Verify, VerifyFails, TouchLastLogin,
                GenerateTokenPair, Finish, Answer, TypeOK
  <2> QED BY <2>1, <2>2 DEF CheckHolds, Owners
<1> QED BY <1>1, <1>2

LEMMA CheckStep ==
    ASSUME TypeOK, Serving, CheckHolds, [Next]_vars
    PROVE  CheckHolds'
<1>1. ASSUME NEW p \in Procs, NEW e \in Emails, NEW w \in Passwords, Begin(p, e, w)
      PROVE  CheckHolds'
  BY <1>1, CheckBegin
<1>2. ASSUME NEW p \in Procs, Continue(p) PROVE CheckHolds'
  BY <1>2, CheckContinue
<1>3. ASSUME NEW t \in tokens, SoftDelete(t) PROVE CheckHolds'
  BY <1>3 DEF SoftDelete, CheckHolds, Owners
<1>4. CASE BuildIndex
  BY <1>4 DEF BuildIndex, CheckHolds, Owners
<1>5. CASE DropIndex
  BY <1>5 DEF DropIndex, CheckHolds, Owners
<1>6. CASE UNCHANGED vars
  BY <1>6 DEF vars, CheckHolds, Owners
<1> QED BY <1>1, <1>2, <1>3, <1>4, <1>5, <1>6 DEF Next

-----------------------------------------------------------------------------
(* The other parts of the invariant.  Only insertion adds documents, and   *)
(* only SoftDelete else changes which are active.                          *)

LEMMA DocumentsStep ==
    ASSUME [Next]_vars
    PROVE  \/ \E p \in Procs, i \in Ids : Create(p, i)
           \/ UNCHANGED <<users, racy>> /\ active' \subseteq active
<1> SUFFICES ASSUME ~ \E p \in Procs, i \in Ids : Create(p, i)
             PROVE  UNCHANGED <<users, racy>> /\ active' \subseteq active
  OBVIOUS
<1>1. ASSUME NEW p \in Procs, NEW e \in Emails, NEW w \in Passwords, Begin(p, e, w)
      PROVE  UNCHANGED <<users, racy, active>>
  BY <1>1 DEF Begin, Register, RegisterConflict, Login, LoginUnknown
<1>2. ASSUME NEW p \in Procs, Continue(p) PROVE UNCHANGED <<users, racy, active>>
  BY <1>2 DEF Continue, CreateRefused, Verify, VerifyFails, TouchLastLogin,
              GenerateTokenPair, Finish
<1>3. ASSUME NEW t \in tokens, SoftDelete(t)
      PROVE  UNCHANGED <<users, racy>> /\ active' \subseteq active
  BY <1>3 DEF SoftDelete
<1> QED BY <1>1, <1>2, <1>3 DEF Next, BuildIndex, DropIndex, vars

(* An email shared after an insertion was shared before, or is the email   *)
(* of the new document and had an owner.                                   *)
LEMMA CreateShares ==
    ASSUME TypeOK, Serving, NEW p \in Procs, NEW i \in Ids, Create(p, i),
           NEW j \in active', NEW k \in active', j # k,
           users'[j].email = users'[k].email
    PROVE  \/ j \in active /\ k \in active /\ users[j].email = users[k].email
           \/ i \in {j, k} /\ Owners(req[p].email) # {}
<1>1. active' = active \cup {i} /\ users'[i].email = req[p].email
  BY CreateEffect DEF Create
<1>2. \A l \in active : users'[l] = users[l] /\ l # i
  BY CreateEffect DEF TypeOK
<1> QED BY <1>1, <1>2 DEF Owners

LEMMA UniqueStep ==
    ASSUME TypeOK, Serving, ActiveEmailUnique, [Next]_vars
    PROVE  ActiveEmailUnique'
<1>1. ASSUME NEW p \in Procs, NEW i \in Ids, Create(p, i) PROVE ActiveEmailUnique'
  <2>1. indexed' = indexed /\ (indexed => Owners(req[p].email) = {})
    BY <1>1 DEF Create, Admits
  <2> QED BY <1>1, <2>1, CreateShares DEF ActiveEmailUnique
<1>2. ASSUME UNCHANGED <<users, racy>>, active' \subseteq active
      PROVE  ActiveEmailUnique'
  <2>1. \/ indexed' = indexed \/ ~indexed'
        \/ \A i, j \in active : users[i].email = users[j].email => i = j
    BY DEF Next, Begin, Register, RegisterConflict, Login, LoginUnknown, Continue,
           Create, CreateRefused, Verify, VerifyFails, TouchLastLogin,
           GenerateTokenPair, Finish, SoftDelete, BuildIndex, DropIndex, vars
  <2> QED BY <1>2, <2>1 DEF ActiveEmailUnique
<1> QED BY <1>1, <1>2, DocumentsStep

LEMMA SharedStep ==
    ASSUME TypeOK, Serving, CheckHolds, SharedOnlyByRace, [Next]_vars
    PROVE  SharedOnlyByRace'
<1>1. ASSUME NEW p \in Procs, NEW i \in Ids, Create(p, i) PROVE SharedOnlyByRace'
  <2>1. Owners(req[p].email) # {} => i \in racy'
    BY <1>1 DEF Create, CheckHolds
  <2>2. racy \subseteq racy'
    BY <1>1 DEF Create
  <2> QED BY <1>1, <2>1, <2>2, CreateShares DEF SharedOnlyByRace
<1>2. ASSUME UNCHANGED <<users, racy>>, active' \subseteq active
      PROVE  SharedOnlyByRace'
  BY <1>2 DEF SharedOnlyByRace
<1> QED BY <1>1, <1>2, DocumentsStep

LEMMA AnswerEffect ==
    ASSUME TypeOK, NEW p \in Procs, NEW status, Answer(p, status)
    PROVE  /\ req'[p].status = status
           /\ req'[p].taken = req[p].taken
           /\ \A q \in Procs \ {p} : req'[q] = req[q]
BY DEF TypeOK, Answer, Requests

LEMMA RefusedStep ==
    ASSUME TypeOK, CheckHolds, RefusedOnlyByRace, [Next]_vars
    PROVE  RefusedOnlyByRace'
<1> USE DEF RefusedOnlyByRace, TypeOK
<1>1. ASSUME NEW p \in Procs, NEW e \in Emails, NEW w \in Passwords, Begin(p, e, w)
      PROVE  RefusedOnlyByRace'
  <2>1. \A q \in Procs \ {p} : req'[q] = req[q]
    BY <1>1 DEF Begin, Register, RegisterConflict, Login, LoginUnknown
  <2>2. req'[p].status # "duplicate"
    <3>1. CASE Register(p, e, w)
      BY <3>1 DEF Register, Idle
    <3>2. CASE RegisterConflict(p, e, w)
      BY <3>2 DEF RegisterConflict, Idle
    <3>3. ASSUME NEW i \in Ids, Login(p, e, w, i) PROVE req'[p].status # "duplicate"
      BY <3>3 DEF Login, Idle
    <3>4. CASE LoginUnknown(p, e, w)
      BY <3>4 DEF LoginUnknown, Idle
    <3> QED BY <1>1, <3>1, <3>2, <3>3, <3>4 DEF Begin
  <2> QED BY <2>1, <2>2
<1>2. ASSUME NEW p \in Procs, NEW i \in Ids, Create(p, i) PROVE RefusedOnlyByRace'
  BY <1>2, CreateRequests
<1>3. ASSUME NEW p \in Procs, CreateRefused(p) PROVE RefusedOnlyByRace'
  <2>1. req[p].taken
    BY <1>3 DEF CreateRefused, Admits, CheckHolds, Requests
  <2> QED BY <1>3, <2>1, AnswerEffect DEF CreateRefused
<1>4. ASSUME NEW p \in Procs, Finish(p) PROVE RefusedOnlyByRace'
  BY <1>4 DEF Finish, Idle
<1>5. ASSUME NEW p \in Procs, VerifyFails(p) \/ GenerateTokenPair(p)
      PROVE  RefusedOnlyByRace'
  BY <1>5, AnswerEffect DEF VerifyFails, GenerateTokenPair
<1>6. ASSUME UNCHANGED req PROVE RefusedOnlyByRace'
  BY <1>6
<1>7. ASSUME NEW p \in Procs, Continue(p) PROVE RefusedOnlyByRace'
  BY <1>2, <1>3, <1>4, <1>5, <1>6, <1>7 DEF Continue, Verify, TouchLastLogin
<1> QED BY <1>1, <1>6, <1>7 DEF Next, SoftDelete, BuildIndex, DropIndex, vars

LEMMA EarnedStep ==
    ASSUME TypeOK, Serving, TokensEarned, [Next]_vars
    PROVE  TokensEarned'
<1>1. ASSUME NEW p \in Procs, NEW i \in Ids, Create(p, i) PROVE TokensEarned'
  <2>1. tokens' = tokens
    BY <1>1 DEF Create
  <2>2. \A j \in Ids : users[j] # Absent => users'[j] = users[j]
    BY <1>1, CreateEffect
  <2>3. \A j \in Ids : users[j].email \in Emails => users[j] # Absent
    BY Existing
  <2>4. ASSUME NEW t \in tokens
        PROVE  users'[t.sub] = [email |-> t.email, password |-> t.shown]
    <3>1. t.sub \in Ids /\ t.email \in Emails
      BY DEF TypeOK, Tokens
    <3>2. users[t.sub] = [email |-> t.email, password |-> t.shown]
      BY DEF TokensEarned
    <3>3. users[t.sub].email = t.email
      BY <3>2
    <3> QED BY <2>2, <2>3, <3>1, <3>2, <3>3
  <2> QED BY <2>1, <2>4 DEF TokensEarned
<1>2. ASSUME NEW p \in Procs, GenerateTokenPair(p) PROVE TokensEarned'
  <2>1. /\ req[p].user \in Ids
        /\ users[req[p].user].email = req[p].email
        /\ users[req[p].user].password = req[p].password
        /\ req[p].email \in Emails
    BY <1>2 DEF GenerateTokenPair, Serving, ServingBy
  <2>2. users[req[p].user] \in Documents
    BY <2>1, Existing
  <2>3. users[req[p].user] = [email |-> req[p].email, password |-> req[p].password]
    BY <2>1, <2>2 DEF Documents
  <2>4. users' = users
    BY <1>2 DEF GenerateTokenPair
  <2>5. ASSUME NEW t \in tokens', t \notin tokens
        PROVE  users[t.sub] = [email |-> t.email, password |-> t.shown]
    <3>1. t = [sub |-> req[p].user, email |-> req[p].email, shown |-> req[p].password]
      BY <1>2, <2>5 DEF GenerateTokenPair, Subjects
    <3>2. t.sub = req[p].user /\ t.email = req[p].email /\ t.shown = req[p].password
      BY <3>1
    <3> QED BY <2>3, <3>2
  <2> QED BY <2>4, <2>5 DEF TokensEarned
<1>3. ASSUME UNCHANGED <<users, tokens>> PROVE TokensEarned'
  BY <1>3 DEF TokensEarned
<1>4. ASSUME NEW p \in Procs, NEW e \in Emails, NEW w \in Passwords, Begin(p, e, w)
      PROVE  UNCHANGED <<users, tokens>>
  BY <1>4 DEF Begin, Register, RegisterConflict, Login, LoginUnknown
<1>5. ASSUME NEW p \in Procs, Continue(p) PROVE TokensEarned'
  BY <1>1, <1>2, <1>3, <1>5 DEF Continue, CreateRefused, Verify, VerifyFails,
                               TouchLastLogin, Finish
<1> QED BY <1>3, <1>4, <1>5 DEF Next, SoftDelete, BuildIndex, DropIndex, vars

-----------------------------------------------------------------------------
(* The theorems. *)

(* IndInv is an inductive invariant of Accounts. *)
THEOREM Invariance == Spec => []IndInv
<1>1. Init => IndInv
  <2> SUFFICES ASSUME Init PROVE IndInv
    OBVIOUS
  <2>1. Serving /\ CheckHolds /\ RefusedOnlyByRace
    BY DEF Init, Serving, ServingBy, CheckHolds, RefusedOnlyByRace, Idle
  <2>2. ActiveEmailUnique /\ SharedOnlyByRace /\ TokensEarned
    BY DEF Init, ActiveEmailUnique, SharedOnlyByRace, TokensEarned
  <2> QED BY <2>1, <2>2, TypeInit DEF IndInv
<1>2. IndInv /\ [Next]_vars => IndInv'
  BY TypeStep, ServingStep, CheckStep, UniqueStep, SharedStep, RefusedStep, EarnedStep
     DEF IndInv
<1> QED BY <1>1, <1>2, PTL DEF Spec

(* The collection, the requests and the tokens keep their types. *)
THEOREM TypeCorrect == Spec => []TypeOK
<1>1. IndInv => TypeOK
  BY DEF IndInv
<1> QED BY <1>1, Invariance, PTL

(* While the unique index exists, no two active accounts share an email.   *)
THEOREM Unique == Spec => []ActiveEmailUnique
<1>1. IndInv => ActiveEmailUnique
  BY DEF IndInv
<1> QED BY <1>1, Invariance, PTL

(* Without it two accounts share one only where registrations raced.       *)
THEOREM OnlyByRace == Spec => []SharedOnlyByRace
<1>1. IndInv => SharedOnlyByRace
  BY DEF IndInv
<1> QED BY <1>1, Invariance, PTL

(* The index refuses only a registration whose email another request took  *)
(* after the check of register().                                          *)
THEOREM RefusedByRace == Spec => []RefusedOnlyByRace
<1>1. IndInv => RefusedOnlyByRace
  BY DEF IndInv
<1> QED BY <1>1, Invariance, PTL

(* Every token is for the account whose password was shown. *)
THEOREM Earned == Spec => []TokensEarned
<1>1. IndInv => TokensEarned
  BY DEF IndInv
<1> QED BY <1>1, Invariance, PTL

-----------------------------------------------------------------------------
(* Accounts implements EmailRegistry. *)

OwnersByEmail == [e \in Emails |-> Owners(e)]

LEMMA RegistryInit == Init => Registry!Init
BY DEF Init, Registry!Init, Owners, Fresh

LEMMA RegistryClaim ==
    ASSUME TypeOK, Serving, NEW p \in Procs, NEW i \in Ids, Create(p, i)
    PROVE  Registry!Claim(req[p].email, i)
<1>1. req[p].email \in Emails
  BY DEF Create, Serving, ServingBy
<1>2. i \notin Ids \ Fresh
  BY DEF Create
<1>3. indexed => OwnersByEmail[req[p].email] = {}
  BY <1>1 DEF Create, Admits, OwnersByEmail
<1>4. OwnersByEmail' =
        [OwnersByEmail EXCEPT ![req[p].email] = @ \cup {i}]
  <2>1. \A e \in Emails : Owners(e)' = IF e = req[p].email THEN Owners(e) \cup {i}
                                       ELSE Owners(e)
    BY CreateOwners
  <2>2. OwnersByEmail' = [e \in Emails |-> Owners(e)']
    BY DEF OwnersByEmail
  <2> QED BY <1>1, <2>1, <2>2 DEF OwnersByEmail
<1>5. (Ids \ Fresh)' = (Ids \ Fresh) \cup {i}
  <2>1. users'[i].email = req[p].email
    BY CreateEffect
  <2>2. users'[i] # Absent
    BY <1>1, <2>1, NoneApart DEF Absent
  <2>3. \A j \in Ids \ {i} : users'[j] = users[j]
    BY CreateEffect
  <2>4. \A j \in Ids : j \in Fresh' <=> j \in Fresh /\ j # i
    BY <2>2, <2>3 DEF Fresh
  <2>5. Fresh \subseteq Ids /\ Fresh' \subseteq Ids
    BY DEF Fresh
  <2> QED BY <1>2, <2>4, <2>5
<1>6. indexed' = indexed
  BY DEF Create
<1> QED BY <1>2, <1>3, <1>4, <1>5, <1>6 DEF Registry!Claim, OwnersByEmail

LEMMA RegistryRelease ==
    ASSUME TypeOK, NEW t \in tokens, SoftDelete(t)
    PROVE  \/ \E e \in Emails, i \in Ids : Registry!Release(e, i)
           \/ UNCHANGED Registry!registry
<1>1. UNCHANGED <<users, indexed>> /\ active' = active \ {t.sub}
  BY DEF SoftDelete, Deactivated
<1>2. (Ids \ Fresh)' = Ids \ Fresh
  BY <1>1 DEF Fresh
<1>3. CASE t.sub \notin active
  BY <1>1, <1>2, <1>3 DEF Registry!registry, Owners
<1>4. CASE t.sub \in active
  <2>1. t.sub \in Ids
    BY DEF TypeOK, Tokens
  <2>2. users[t.sub].email \in Emails
    BY <1>4, <2>1, Existing DEF TypeOK, Documents
  <2> DEFINE e == users[t.sub].email
  <2>3. t.sub \in OwnersByEmail[e]
    BY <1>4, <2>2 DEF OwnersByEmail, Owners
  <2>4. OwnersByEmail' = [OwnersByEmail EXCEPT ![e] = @ \ {t.sub}]
    <3>1. \A f \in Emails : Owners(f)' = IF f = e THEN Owners(f) \ {t.sub} ELSE Owners(f)
      BY <1>1 DEF Owners
    <3>2. OwnersByEmail' = [f \in Emails |-> Owners(f)']
      BY DEF OwnersByEmail
    <3> QED BY <2>2, <3>1, <3>2 DEF OwnersByEmail
  <2>5. Registry!Release(e, t.sub)
    BY <1>1, <1>2, <2>3, <2>4 DEF Registry!Release, OwnersByEmail
  <2> QED BY <2>1, <2>2, <2>5
<1> QED BY <1>3, <1>4

LEMMA RegistryStep ==
    ASSUME TypeOK, Serving, [Next]_vars
    PROVE  [Registry!Next]_(Registry!registry)
<1>1. ASSUME NEW p \in Procs, NEW i \in Ids, Create(p, i) PROVE Registry!Next
  <2>1. req[p].email \in Emails
    BY <1>1 DEF Create, Serving, ServingBy
  <2> QED BY <1>1, <2>1, RegistryClaim DEF Registry!Next
<1>2. ASSUME UNCHANGED <<users, active, indexed>> PROVE UNCHANGED Registry!registry
  BY <1>2 DEF Registry!registry, Owners, Fresh
<1>3. ASSUME NEW p \in Procs, NEW e \in Emails, NEW w \in Passwords, Begin(p, e, w)
      PROVE  UNCHANGED <<users, active, indexed>>
  BY <1>3 DEF Begin, Register, RegisterConflict, Login, LoginUnknown
<1>4. ASSUME NEW p \in Procs, Continue(p), ~ \E i \in Ids : Create(p, i)
      PROVE  UNCHANGED <<users, active, indexed>>
  BY <1>4 DEF Continue, CreateRefused, Verify, VerifyFails, TouchLastLogin,
              GenerateTokenPair, Finish
<1>5. ASSUME NEW t \in tokens, SoftDelete(t) PROVE [Registry!Next]_(Registry!registry)
  BY <1>5, RegistryRelease DEF Registry!Next
<1>6. CASE BuildIndex
  <2>1. \A e \in Emails : \A i, j \in OwnersByEmail[e] : i = j
    BY <1>6 DEF BuildIndex, OwnersByEmail, Owners
  <2>2. UNCHANGED <<users, active>> /\ indexed' = TRUE
    BY <1>6 DEF BuildIndex
  <2>3. UNCHANGED <<OwnersByEmail, Ids \ Fresh>>
    BY <2>2 DEF OwnersByEmail, Owners, Fresh
  <2>4. Registry!Enforce
    BY <2>1, <2>2, <2>3 DEF Registry!Enforce, OwnersByEmail
  <2> QED BY <2>4 DEF Registry!Next
<1>7. CASE DropIndex
  <2>1. UNCHANGED <<users, active>> /\ indexed' = FALSE
    BY <1>7 DEF DropIndex
  <2>2. UNCHANGED <<OwnersByEmail, Ids \ Fresh>>
    BY <2>1 DEF OwnersByEmail, Owners, Fresh
  <2>3. Registry!Relax
    BY <2>1, <2>2 DEF Registry!Relax, OwnersByEmail
  <2> QED BY <2>3 DEF Registry!Next
<1>8. CASE UNCHANGED vars
  BY <1>2, <1>8 DEF vars
<1>9. CASE \E p \in Procs : Continue(p)
  BY <1>1, <1>2, <1>4, <1>9
<1> QED BY <1>2, <1>3, <1>5, <1>6, <1>7, <1>8, <1>9 DEF Next

(* Registration, login and deactivation keep the promises of the registry: *)
(* every step of Accounts claims or gives up one email for one account,    *)
(* turns enforcement on or off, or leaves the registry as it is.           *)
THEOREM Implements == Spec => ImplementsRegistry
<1>1. IndInv => TypeOK /\ Serving
  BY DEF IndInv
<1>2. TypeOK /\ Serving /\ [Next]_vars => [Registry!Next]_(Registry!registry)
  BY RegistryStep
<1> QED BY <1>1, <1>2, RegistryInit, Invariance, PTL
        DEF Spec, ImplementsRegistry, Registry!Spec
=============================================================================
