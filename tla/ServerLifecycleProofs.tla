------------------------ MODULE ServerLifecycleProofs ------------------------
(***************************************************************************)
(* Proofs about ServerLifecycle, for any number of requests, signals and   *)
(* retries.                                                                *)
(*                                                                         *)
(* No action is possible once the process has exited, so a step finds      *)
(* exit = "none", and an exit code needs a cause only in the step that     *)
(* sets it.                                                                *)
(***************************************************************************)
EXTENDS ServerLifecycle, TLAPS

(* bootstrap() opens the database before it listens, and installs the      *)
(* handlers when it does; a shutdown stops listening before all else.      *)
BootOrder ==
    /\ stage = "socket" => db = "open"
    /\ listening => stage = "up"
    /\ \A s \in Signals : sd[s] # "none" => stage = "up" /\ ~listening

(* The flag follows the connection, whatever client is. *)
FlagIsLink == connected <=> link \in {"ready", "quitting"}

(* QUIT is under way only while a shutdown waits for it; the converse is   *)
(* QuitUnderWay.                                                           *)
QuitAsked == link = "quitting" => \E s \in Signals : sd[s] = "redis"

IndInv ==
    /\ TypeOK
    /\ BootOrder
    /\ ListensOnlyWithDatabase
    /\ FlagIsLink
    /\ QuitAsked
    /\ QuitUnderWay
    /\ AbruptExitHasCause

-----------------------------------------------------------------------------
(* The steps, by what they leave alone. *)

(* Steps of the Redis client that are no part of a shutdown. *)
LEMMA RedisStep ==
    ASSUME IndInv,
           SkipRedis \/ ConnectRedis \/ Attempt \/ RedisBreaks
    PROVE  IndInv'
<1> USE DEF IndInv, ConnectRedisReturns, Alive, Boot
<1>0. retries' \in 0 .. MaxRetries + 1
  <2>1. retries \in 0 .. MaxRetries + 1 /\ MaxRetries \in Nat
    BY MaxRetriesNat DEF TypeOK, MaxRetriesNat
  <2>2. \/ retries' = retries
        \/ retries' = 0
        \/ retries <= MaxRetries /\ retries' = retries + 1
    BY DEF SkipRedis, ConnectRedis, Attempt, RedisReady, RedisRetry, MayRetry,
           Failures, RedisGivesUp, RedisBreaks
  <2> QED BY <2>1, <2>2
<1>1. TypeOK'
  <2>1. CASE SkipRedis \/ ConnectRedis
    BY <1>0, <2>1 DEF TypeOK, SkipRedis, ConnectRedis
  <2>2. CASE RedisReady \/ RedisRetry
    BY <1>0, <2>2 DEF TypeOK, RedisReady, RedisRetry
  <2>3. CASE RedisGivesUp \/ RedisBreaks
    BY <1>0, <2>3 DEF TypeOK, RedisGivesUp, RedisBreaks, OnError
  <2> QED BY <2>1, <2>2, <2>3 DEF Attempt
<1>2. /\ exit' = "none"
      /\ UNCHANGED <<db, listening, sd>>
      /\ stage' = stage \/ (stage = "redis" /\ stage' = "mongo")
      /\ link' # "quitting" \/ link' = link
  BY DEF TypeOK, SkipRedis, ConnectRedis, Attempt, RedisReady, RedisRetry,
         RedisGivesUp, RedisBreaks
<1>3. BootOrder' /\ ListensOnlyWithDatabase'
  BY <1>2 DEF BootOrder, ListensOnlyWithDatabase
<1>4. FlagIsLink'
  BY DEF TypeOK, FlagIsLink, SkipRedis, ConnectRedis, Attempt, RedisReady,
         RedisRetry, RedisGivesUp, RedisBreaks, OnError
<1>5. QuitAsked' /\ AbruptExitHasCause'
  BY <1>2 DEF QuitAsked, AbruptExitHasCause
<1>6. QuitUnderWay'
  <2>1. link # "quitting"
    BY DEF SkipRedis, ConnectRedis, Attempt, RedisReady, RedisRetry, RedisGivesUp,
           RedisBreaks
  <2>2. exit = "none"
    BY DEF SkipRedis, ConnectRedis, Attempt, RedisReady, RedisRetry, RedisGivesUp,
           RedisBreaks
  <2> QED BY <1>2, <2>1, <2>2 DEF QuitUnderWay
<1> QED BY <1>1, <1>3, <1>4, <1>5, <1>6

(* The steps of bootstrap() after Redis, and the signal that ends it. *)
LEMMA BootStep ==
    ASSUME IndInv,
           ConnectDatabase \/ Listen \/ BootFails \/ \E s \in Signals : SignalEarly(s)
    PROVE  IndInv'
<1> USE DEF IndInv, Alive, Boot, ConnectDatabase, Listen, BootFails, SignalEarly
<1>1. TypeOK'
  BY DEF TypeOK
<1>2. stage # "up" /\ UNCHANGED <<link, connected, sd>>
  BY DEF TypeOK
<1>3. \A s \in Signals : sd[s] = "none"
  BY <1>2 DEF BootOrder
<1>4. BootOrder' /\ ListensOnlyWithDatabase'
  BY <1>3 DEF TypeOK, BootOrder, ListensOnlyWithDatabase
<1>5. FlagIsLink' /\ QuitAsked'
  BY <1>2 DEF FlagIsLink, QuitAsked
<1>6. AbruptExitHasCause' /\ QuitUnderWay'
  BY <1>2, <1>3 DEF AbruptExitHasCause, QuitUnderWay
<1> QED BY <1>1, <1>4, <1>5, <1>6

LEMMA RequestStep ==
    ASSUME IndInv, NEW r \in Requests, Handle(r)
    PROVE  IndInv'
<1> USE DEF IndInv, Alive, Handle, Accept, Query, Respond
<1>1. TypeOK'
  BY DEF TypeOK
<1>2. UNCHANGED <<stage, exit, link, connected, retries, db, listening, sd, adapter, uncaught>>
  OBVIOUS
<1> QED
  BY <1>1, <1>2
  DEF BootOrder, ListensOnlyWithDatabase, FlagIsLink, QuitAsked, QuitUnderWay,
      AbruptExitHasCause

(* The sockets stir nothing else, but for the exit that a failure is. *)
LEMMA SocketStep ==
    ASSUME IndInv, Publish \/ Answered \/ AdapterFails \/ EventThrows
    PROVE  IndInv'
<1> USE DEF IndInv, Alive, Publish, Answered, AdapterFails, EventThrows, ExitUncaught
<1>1. TypeOK'
  BY DEF TypeOK
<1>2. UNCHANGED <<stage, link, connected, db, listening, sd>>
  OBVIOUS
<1>3. AbruptExitHasCause'
  BY DEF AbruptExitHasCause
<1> QED
  BY <1>1, <1>2, <1>3
  DEF BootOrder, ListensOnlyWithDatabase, FlagIsLink, QuitAsked, QuitUnderWay

LEMMA ShutdownStep ==
    ASSUME IndInv, NEW s \in Signals, Shutdown(s)
    PROVE  IndInv'
<1> USE DEF IndInv, Alive, Shutdown, CloseServers, CloseAdapter
<1>1. TypeOK'
  BY DEF TypeOK
<1>2. /\ stage' = "up"
      /\ listening' = FALSE
      /\ exit' = "none"
      /\ UNCHANGED <<link, connected, db>>
  OBVIOUS
<1>3. \A t \in Signals : sd[t] = "redis" <=> sd'[t] = "redis"
  BY DEF TypeOK
<1> QED
  BY <1>1, <1>2, <1>3
  DEF BootOrder, ListensOnlyWithDatabase, FlagIsLink, QuitAsked, QuitUnderWay,
      AbruptExitHasCause

(* A shutdown under way: the servers are closed already. *)
LEMMA DisconnectContext ==
    ASSUME IndInv, NEW s \in Signals, Disconnect(s)
    PROVE  /\ exit = "none" /\ sd[s] # "none"
           /\ stage = "up" /\ listening = FALSE
           /\ UNCHANGED <<stage, retries, listening, req>>
<1>1. /\ exit = "none" /\ sd[s] # "none"
      /\ UNCHANGED <<stage, retries, listening, req>>
  BY DEF Alive, Disconnect, DisconnectDatabase, DisconnectDatabaseFails,
         DisconnectRedis, DisconnectRedisFails
<1> QED BY <1>1 DEF IndInv, TypeOK, BootOrder

LEMMA DatabaseStep ==
    ASSUME IndInv, NEW s \in Signals, DisconnectDatabase(s)
    PROVE  IndInv'
<1>0. /\ exit = "none" /\ sd[s] = "database"
      /\ stage = "up" /\ listening = FALSE
      /\ UNCHANGED <<stage, retries, listening, req>>
  BY DisconnectContext DEF Disconnect, DisconnectDatabase
<1> USE DEF IndInv
<1>1. CASE ~Usable /\ exit' = "0" /\ UNCHANGED <<link, sd>>
  <2>1. TypeOK'
    BY <1>0, <1>1 DEF TypeOK, DisconnectDatabase
  <2> QED
    BY <1>0, <1>1, <2>1
    DEF BootOrder, ListensOnlyWithDatabase, FlagIsLink, QuitAsked, QuitUnderWay,
        AbruptExitHasCause, DisconnectDatabase
<1>2. CASE Usable /\ QuitRejects /\ exit' = "1" /\ UNCHANGED <<link, sd>>
  <2>1. TypeOK'
    BY <1>0, <1>2 DEF TypeOK, DisconnectDatabase
  <2>2. link = "quitting"
    BY <1>2 DEF FlagIsLink, Usable, QuitRejects
  <2>3. PICK t \in Signals : sd[t] = "redis"
    BY <2>2 DEF QuitAsked
  <2>4. t # s /\ sd'[t] # "none" /\ sd'[s] # "none"
    BY <1>0, <1>2, <2>3
  <2> QED
    BY <1>0, <1>2, <2>1, <2>4
    DEF BootOrder, ListensOnlyWithDatabase, FlagIsLink, QuitAsked, QuitUnderWay,
        AbruptExitHasCause, DisconnectDatabase
<1>3. CASE /\ Usable /\ ~QuitRejects
           /\ link' = IF link = "ready" THEN "quitting" ELSE link
           /\ sd' = [sd EXCEPT ![s] = "redis"]
           /\ UNCHANGED exit
  <2>1. link = "ready"
    BY <1>3 DEF FlagIsLink, Usable, QuitRejects
  <2>2. link' = "quitting" /\ connected' = connected
    BY <1>3, <2>1 DEF DisconnectDatabase
  <2>3. sd'[s] = "redis"
    BY <1>3 DEF TypeOK
  <2>4. TypeOK'
    BY <1>0, <1>3, <2>2 DEF TypeOK, DisconnectDatabase
  <2>5. QuitUnderWay'
    <3>1. \A t \in Signals : sd[t] # "redis"
      BY <1>0, <2>1 DEF QuitUnderWay, Alive
    <3>2. \A t \in Signals \ {s} : sd'[t] = sd[t]
      BY <1>3 DEF TypeOK
    <3> QED BY <2>2, <3>1, <3>2 DEF QuitUnderWay
  <2> QED
    BY <1>0, <1>3, <2>1, <2>2, <2>3, <2>4, <2>5
    DEF BootOrder, ListensOnlyWithDatabase, FlagIsLink, QuitAsked, AbruptExitHasCause
<1> QED BY <1>1, <1>2, <1>3 DEF DisconnectDatabase

(* The other steps of a shutdown end the process. *)
LEMMA LastStep ==
    ASSUME IndInv, NEW s \in Signals,
           \/ DisconnectDatabaseFails(s)
           \/ DisconnectRedis(s)
           \/ DisconnectRedisFails(s)
    PROVE  IndInv'
<1>0. /\ stage = "up" /\ listening = FALSE
      /\ UNCHANGED <<stage, retries, listening, req>>
  BY DisconnectContext DEF Disconnect
<1> USE <1>0
    DEF IndInv, DisconnectDatabaseFails, DisconnectRedis, DisconnectRedisFails
<1>1. TypeOK'
  BY DEF TypeOK
<1>2. BootOrder' /\ ListensOnlyWithDatabase'
  BY DEF BootOrder, ListensOnlyWithDatabase
<1>3. FlagIsLink' /\ QuitAsked'
  BY DEF FlagIsLink, QuitAsked
<1>4. AbruptExitHasCause' /\ QuitUnderWay'
  BY DEF AbruptExitHasCause, QuitUnderWay, Alive
<1> QED BY <1>1, <1>2, <1>3, <1>4

-----------------------------------------------------------------------------
(* The invariant is inductive. *)
THEOREM Invariance == Spec => []IndInv
<1>1. Init => IndInv
  <2> SUFFICES ASSUME Init
               PROVE  IndInv
    OBVIOUS
  <2>1. 0 \in 0 .. MaxRetries + 1
    BY MaxRetriesNat DEF MaxRetriesNat
  <2>2. TypeOK
    BY <2>1 DEF Init, TypeOK
  <2> QED
    BY <2>2
    DEF Init, IndInv, BootOrder, ListensOnlyWithDatabase, FlagIsLink, QuitAsked,
        QuitUnderWay, AbruptExitHasCause
<1>2. IndInv /\ [Next]_vars => IndInv'
  <2> SUFFICES ASSUME IndInv, [Next]_vars
               PROVE  IndInv'
    OBVIOUS
  <2>1. CASE Bootstrap
    BY <2>1, RedisStep, BootStep DEF Bootstrap
  <2>2. CASE Attempt \/ RedisBreaks
    BY <2>2, RedisStep
  <2>3. CASE \E r \in Requests : Handle(r)
    BY <2>3, RequestStep
  <2>4. CASE Publish \/ Answered \/ AdapterFails \/ EventThrows
    BY <2>4, SocketStep
  <2>5. CASE \E s \in Signals : SignalEarly(s)
    BY <2>5, BootStep
  <2>6. CASE \E s \in Signals : Shutdown(s)
    BY <2>6, ShutdownStep
  <2>7. CASE \E s \in Signals : Disconnect(s)
    BY <2>7, DatabaseStep, LastStep DEF Disconnect
  <2>8. CASE UNCHANGED vars
    BY <2>8
    DEF vars, IndInv, TypeOK, BootOrder, ListensOnlyWithDatabase, FlagIsLink,
        QuitAsked, QuitUnderWay, AbruptExitHasCause, Alive
  <2> QED BY <2>1, <2>2, <2>3, <2>4, <2>5, <2>6, <2>7, <2>8 DEF Next
<1> QED BY <1>1, <1>2, PTL DEF Spec

(* The lifecycle keeps its types; in particular retries never exceeds one  *)
(* more than the last attempt that reconnectStrategy retries.              *)
THEOREM TypeCorrect == Spec => []TypeOK
<1>1. IndInv => TypeOK
  BY DEF IndInv
<1> QED BY <1>1, Invariance, PTL

(* Requests are accepted only while the database is connected. *)
THEOREM ListensSafely == Spec => []ListensOnlyWithDatabase
<1>1. IndInv => ListensOnlyWithDatabase
  BY DEF IndInv
<1> QED BY <1>1, Invariance, PTL

(* getRedisClient() hands out a client exactly while it is connected, in   *)
(* spite of failed attempts, breaks and quits.                             *)
THEOREM FlagHolds == Spec => []FlagTruthful
<1>1. IndInv => FlagTruthful
  BY DEF IndInv, FlagIsLink, FlagTruthful, Usable
<1> QED BY <1>1, Invariance, PTL

(* Only two signals, a connection that fails to close, or a failure of the *)
(* adapter or of an event's handler, which nobody handles, end with 1 a    *)
(* process that has come up.                                               *)
THEOREM AbruptExitExplained == Spec => []AbruptExitHasCause
<1>1. IndInv => AbruptExitHasCause
  BY DEF IndInv
<1> QED BY <1>1, Invariance, PTL

(* While a shutdown waits for Redis its QUIT has been sent and not ended,  *)
(* and no other waits with it: the part of ShutdownEnds that is safety.    *)
THEOREM QuitAwaited == Spec => []QuitUnderWay
<1>1. IndInv => QuitUnderWay
  BY DEF IndInv
<1> QED BY <1>1, Invariance, PTL
=============================================================================
