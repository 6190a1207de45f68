------------------------------ MODULE Accounts ------------------------------
(***************************************************************************)
(* Registration, login and soft deletion as commands on the users          *)
(* collection.                                                             *)
(*                                                                         *)
(* register() asks whether an active account has the email, hashes the     *)
(* password and only then inserts the document; login() reads a document,  *)
(* verifies the password against it, writes lastLoginAt and signs tokens.  *)
(* Between any two of these commands other requests run.  What finally     *)
(* keeps active emails unique is the partial index on { email } where      *)
(* isActive; it is built and dropped by migrations, and may be missing     *)
(* (see Migrations).                                                       *)
(*                                                                         *)
(* A token is what jwt.sign is given, with the password the caller had     *)
(* shown; its times are the matter of TokenRevocation.  Hashing is left    *)
(* out: argon2 verifies exactly the password that was hashed.              *)
(***************************************************************************)
EXTENDS Integers, FiniteSets

CONSTANTS
    Procs,      \* requests that may be in progress at once
    Emails,
    Ids,        \* ids of documents; their number bounds the registrations
    Passwords,
    None

VARIABLES
    users,      \* users[i]: the email and the password of document i
    active,     \* documents that say isActive: true
    loggedIn,   \* documents whose lastLoginAt is not null
    indexed,    \* whether the unique partial index exists
    tokens,     \* tokens signed so far
    pc,         \* pc[p]: the next step of request p
    req,        \* req[p]: the request p is serving
    racy        \* history: documents whose insertion lost a race (see Create)

vars == <<users, active, loggedIn, indexed, tokens, pc, req, racy>>

Documents == [email : Emails, password : Passwords]

Absent == [email |-> None, password |-> None]

ASSUME NoneApart == None \notin Emails \cup Passwords \cup Ids

Tokens == [sub : Ids, email : Emails, shown : Passwords]

Statuses == {"none", "ok", "unauthorized", "conflict", "duplicate"}

(* taken is history: since p asked for the email, another request inserted *)
(* a document with it.                                                     *)
Requests == [email : Emails \cup {None},
             password : Passwords \cup {None},
             user : Ids \cup {None},
             status : Statuses,
             taken : BOOLEAN]

Idle == [email |-> None, password |-> None, user |-> None,
         status |-> "none", taken |-> FALSE]

TypeOK ==
    /\ users \in [Ids -> Documents \cup {Absent}]
    /\ active \subseteq {i \in Ids : users[i] # Absent}
    /\ loggedIn \subseteq {i \in Ids : users[i] # Absent}
    /\ indexed \in BOOLEAN
    /\ tokens \subseteq Tokens
    /\ pc \in [Procs -> {"idle", "create", "verify", "touch", "sign", "answer"}]
    /\ req \in [Procs -> Requests]
    /\ racy \subseteq Ids

Init ==
    /\ users = [i \in Ids |-> Absent]
    /\ active = {}
    /\ loggedIn = {}
    /\ indexed \in BOOLEAN
    /\ tokens = {}
    /\ pc = [p \in Procs |-> "idle"]
    /\ req = [p \in Procs |-> Idle]
    /\ racy = {}

-----------------------------------------------------------------------------
(* Queries. *)

Fresh == {i \in Ids : users[i] = Absent}

(* buildEmailLookupFilter: { email, isActive: true }. *)
Owners(e) == {i \in active : users[i].email = e}

(* Mutants of Exists: the check is missing; it looks at the accounts that  *)
(* have been deactivated.                                                  *)
ExistsNever(e) == FALSE
ExistsInactive(e) == \E i \in Ids \ active : users[i].email = e

Exists(e) == Owners(e) # {}

(* Mutant of Admits: the index is not unique. *)
AdmitsAll(e) == TRUE

(* Whether the unique index lets an active document with e in. *)
Admits(e) == indexed => Owners(e) = {}

(* Once the ids not yet used are all spoken for, nobody registers. *)
MayRegister == Cardinality({p \in Procs : pc[p] = "create"}) < Cardinality(Fresh)

Answer(p, status) ==
    /\ pc' = [pc EXCEPT ![p] = "answer"]
    /\ req' = [req EXCEPT ![p].status = status]

-----------------------------------------------------------------------------
(* AuthService.register. *)

Register(p, e, w) ==
    /\ pc[p] = "idle"
    /\ MayRegister
    /\ ~Exists(e)
    /\ pc' = [pc EXCEPT ![p] = "create"]
    /\ req' = [req EXCEPT ![p] = [Idle EXCEPT !.email = e, !.password = w]]
    /\ UNCHANGED <<users, active, loggedIn, indexed, tokens, racy>>

(* 409 *)
RegisterConflict(p, e, w) ==
    /\ pc[p] = "idle"
    /\ Exists(e)
    /\ pc' = [pc EXCEPT ![p] = "answer"]
    /\ req' = [req EXCEPT ![p] = [Idle EXCEPT !.email = e, !.password = w,
                                              !.status = "conflict"]]
    /\ UNCHANGED <<users, active, loggedIn, indexed, tokens, racy>>

(* The other requests between check and insertion that ask for the email   *)
(* of p, whose check is out of date once p inserts.                        *)
Rivals(p) == {q \in Procs \ {p} : pc[q] = "create" /\ req[q].email = req[p].email}

(* Mutant of Inserted: the id of the new document is not taken over. *)
InsertedIdLost(p, i) == req[p]

Inserted(p, i) == [req[p] EXCEPT !.user = i]

Create(p, i) ==
    /\ pc[p] = "create"
    /\ i \in Fresh
    /\ Admits(req[p].email)
    /\ users' = [users EXCEPT ![i] = [email |-> req[p].email,
                                      password |-> req[p].password]]
    /\ active' = active \cup {i}
    /\ racy' = IF req[p].taken THEN racy \cup {i} ELSE racy
    /\ pc' = [pc EXCEPT ![p] = "sign"]
    /\ req' = [q \in Procs |->
                  IF q = p THEN Inserted(p, i)
                  ELSE IF q \in Rivals(p) THEN [req[q] EXCEPT !.taken = TRUE]
                  ELSE req[q]]
    /\ UNCHANGED <<loggedIn, indexed, tokens>>

(* E11000 is no AppError: the answer is 500. *)
CreateRefused(p) ==
    /\ pc[p] = "create"
    /\ ~Admits(req[p].email)
    /\ Answer(p, "duplicate")
    /\ UNCHANGED <<users, active, loggedIn, indexed, tokens, racy>>

-----------------------------------------------------------------------------
(* AuthService.login.  Should several active accounts share the email,     *)
(* findOne returns one of them.                                            *)

Login(p, e, w, i) ==
    /\ pc[p] = "idle"
    /\ i \in Owners(e)
    /\ pc' = [pc EXCEPT ![p] = "verify"]
    /\ req' = [req EXCEPT ![p] = [Idle EXCEPT !.email = e, !.password = w, !.user = i]]
    /\ UNCHANGED <<users, active, loggedIn, indexed, tokens, racy>>

LoginUnknown(p, e, w) ==
    /\ pc[p] = "idle"
    /\ Owners(e) = {}
    /\ pc' = [pc EXCEPT ![p] = "answer"]
    /\ req' = [req EXCEPT ![p] = [Idle EXCEPT !.email = e, !.password = w,
                                              !.status = "unauthorized"]]
    /\ UNCHANGED <<users, active, loggedIn, indexed, tokens, racy>>

Verify(p) ==
    /\ pc[p] = "verify"
    /\ users[req[p].user].password = req[p].password
    /\ pc' = [pc EXCEPT ![p] = "touch"]
    /\ UNCHANGED <<users, active, loggedIn, indexed, tokens, req, racy>>

VerifyFails(p) ==
    /\ pc[p] = "verify"
    /\ users[req[p].user].password # req[p].password
    /\ Answer(p, "unauthorized")
    /\ UNCHANGED <<users, active, loggedIn, indexed, tokens, racy>>

(* updateById does not ask whether the account is still active. *)
TouchLastLogin(p) ==
    /\ pc[p] = "touch"
    /\ loggedIn' = loggedIn \cup {req[p].user}
    /\ pc' = [pc EXCEPT ![p] = "sign"]
    /\ UNCHANGED <<users, active, indexed, tokens, req, racy>>

(* Mutant of Subjects: the tokens go to whoever owns the email by now. *)
SubjectsByEmail(p) == Owners(req[p].email)

(* The account the tokens of p are signed for. *)
Subjects(p) == {req[p].user}

GenerateTokenPair(p) ==
    /\ pc[p] = "sign"
    /\ tokens' = tokens \cup {[sub |-> i, email |-> req[p].email,
                               shown |-> req[p].password] : i \in Subjects(p)}
    /\ Answer(p, "ok")
    /\ UNCHANGED <<users, active, loggedIn, indexed, racy>>

-----------------------------------------------------------------------------
(* Any request may end before its next step: the process stops, or the     *)
(* database cannot be reached.  So does one that has been answered.        *)
Finish(p) ==
    /\ pc[p] # "idle"
    /\ pc' = [pc EXCEPT ![p] = "idle"]
    /\ req' = [req EXCEPT ![p] = Idle]
    /\ UNCHANGED <<users, active, loggedIn, indexed, tokens, racy>>

(* Mutant of Deactivated: the account is looked up by its email. *)
DeactivatedByEmail(i) == Owners(users[i].email)

Deactivated(i) == {i}

(* deleteUser, by the bearer of a token of the account; nothing is said    *)
(* about an account that is inactive already.                              *)
SoftDelete(t) ==
    /\ active' = active \ Deactivated(t.sub)
    /\ UNCHANGED <<users, loggedIn, indexed, tokens, pc, req, racy>>

(* createIndex of the unique partial index fails on duplicates. *)
BuildIndex ==
    /\ \A i, j \in active : users[i].email = users[j].email => i = j
    /\ indexed' = TRUE
    /\ UNCHANGED <<users, active, loggedIn, tokens, pc, req, racy>>

DropIndex ==
    /\ indexed' = FALSE
    /\ UNCHANGED <<users, active, loggedIn, tokens, pc, req, racy>>

Begin(p, e, w) ==
    \/ Register(p, e, w)
    \/ RegisterConflict(p, e, w)
    \/ \E i \in Ids : Login(p, e, w, i)
    \/ LoginUnknown(p, e, w)

Continue(p) ==
    \/ \E i \in Ids : Create(p, i)
    \/ CreateRefused(p)
    \/ Verify(p)
    \/ VerifyFails(p)
    \/ TouchLastLogin(p)
    \/ GenerateTokenPair(p)
    \/ Finish(p)

Next ==
    \/ \E p \in Procs :
          \/ \E e \in Emails, w \in Passwords : Begin(p, e, w)
          \/ Continue(p)
    \/ \E t \in tokens : SoftDelete(t)
    \/ BuildIndex
    \/ DropIndex

Spec == Init /\ [][Next]_vars

-----------------------------------------------------------------------------
(* Properties. *)

(* While the unique index exists no two active accounts share an email,    *)
(* whichever registrations had passed their check before.                  *)
ActiveEmailUnique ==
    indexed => \A i, j \in active : users[i].email = users[j].email => i = j

(* Without the index too, two active accounts share an email only if one   *)
(* of them was inserted after another registration had overtaken its       *)
(* check: the check suffices for registrations that follow one another.    *)
SharedOnlyByRace ==
    \A i, j \in active :
        i # j /\ users[i].email = users[j].email => i \in racy \/ j \in racy

(* Registering answers 500 for a duplicate only when another request took  *)
(* the email after the check; who comes later is told 409.                 *)
RefusedOnlyByRace ==
    \A p \in Procs : req[p].status = "duplicate" => req[p].taken

(* A token is signed for the account whose password its bearer has shown,  *)
(* even if the account is deactivated and its email registered anew, under *)
(* another password, while the login is in progress.                       *)
TokensEarned ==
    \A t \in tokens : users[t.sub] = [email |-> t.email, password |-> t.shown]

(* The accounts implement the registry of emails. *)
Registry == INSTANCE EmailRegistry WITH
    owners <- [e \in Emails |-> Owners(e)],
    spent <- Ids \ Fresh,
    enforced <- indexed

ImplementsRegistry == Registry!Spec
=============================================================================
