-------------------------- MODULE ServerLifecycle --------------------------
(***************************************************************************)
(* One process of the service from bootstrap() to its exit: the connection *)
(* to Redis with its retries and the flag isConnected, the connection to   *)
(* MongoDB, the listening server, the requests in flight, the connections  *)
(* of the Socket.io adapter, and shutdown(), which every signal starts     *)
(* anew.                                                                   *)
(*                                                                         *)
(* A step is what runs between two awaits or in one event handler.  After  *)
(* process.exit nothing happens any more; a restarted process begins at    *)
(* Init.                                                                   *)
(***************************************************************************)
EXTENDS Naturals

CONSTANTS
    Requests,       \* HTTP requests that may be in flight at once
    Signals,        \* deliveries of SIGINT and SIGTERM to the process
    MaxRetries      \* the last attempt that reconnectStrategy retries: 10

ASSUME MaxRetriesNat == MaxRetries \in Nat

VARIABLES
    stage,      \* how far bootstrap() is
    exit,       \* the exit code, or "none" while the process is alive
    link,       \* the Redis client
    connected,  \* isConnected
    retries,    \* failed attempts since the connection was lost or asked for
    db,         \* the connection to MongoDB
    listening,  \* whether the HTTP server accepts requests
    req,        \* req[r]: what request r in flight has still to do
    sd,         \* sd[s]: what the shutdown started by signal s awaits
    adapter,    \* the Redis connections of the Socket.io adapter
    uncaught    \* history: a failure that nothing but the handlers of
                \* unhandledRejection and uncaughtException expects

vars == <<stage, exit, link, connected, retries, db, listening, req, sd, adapter, uncaught>>

(* link is "null" while the variable client is null, and "lost" after the  *)
(* connection broke before QUIT was answered.                              *)
(*                                                                         *)
(* adapter is "memory" without Redis, "wanted" until createSocketServer    *)
(* has tried, "half" when one connection was made and the other was not,   *)
(* and else says whether a command of the adapter, none of which anybody   *)
(* awaits, is still to be answered: "busy" or "idle".                      *)
TypeOK ==
    /\ stage \in {"redis", "mongo", "socket", "up"}
    /\ exit \in {"none", "0", "1", "killed"}
    /\ link \in {"null", "connecting", "ready", "broken", "quitting", "closed", "lost"}
    /\ connected \in BOOLEAN
    /\ retries \in 0 .. MaxRetries + 1
    /\ db \in {"off", "open", "closed", "failed"}
    /\ listening \in BOOLEAN
    /\ req \in [Requests -> {"none", "query", "respond"}]
    /\ sd \in [Signals -> {"none", "database", "redis"}]
    /\ adapter \in {"memory", "wanted", "half", "idle", "busy"}
    /\ uncaught \in BOOLEAN

Init ==
    /\ stage = "redis"
    /\ exit = "none"
    /\ link = "null"
    /\ connected = FALSE
    /\ retries = 0
    /\ db = "off"
    /\ listening = FALSE
    /\ req = [r \in Requests |-> "none"]
    /\ sd = [s \in Signals |-> "none"]
    /\ adapter = "memory"
    /\ uncaught = FALSE

Alive == exit = "none"

-----------------------------------------------------------------------------
(* The Redis client. *)

Boot(from, to) ==
    /\ stage = from
    /\ stage' = to

(* connectRedis without REDIS_URL; both configurations are admitted. *)
SkipRedis ==
    /\ Alive
    /\ link = "null"
    /\ Boot("redis", "mongo")
    /\ UNCHANGED <<exit, link, connected, retries, db, listening, req, sd, adapter, uncaught>>

ConnectRedis ==
    /\ Alive
    /\ stage = "redis" /\ link = "null"
    /\ link' = "connecting"
    /\ adapter' = "wanted"
    /\ UNCHANGED <<stage, exit, connected, retries, db, listening, req, sd, uncaught>>

(* connectRedis returns when the first connection is ready or given up. *)
ConnectRedisReturns ==
    stage' = IF stage = "redis" THEN "mongo" ELSE stage

RedisReady ==
    /\ Alive
    /\ link \in {"connecting", "broken"}
    /\ link' = "ready"
    /\ connected' = TRUE
    /\ retries' = 0
    /\ ConnectRedisReturns
    /\ UNCHANGED <<exit, db, listening, req, sd, adapter, uncaught>>

(* Mutant of MayRetry: one retry too many. *)
MayRetryOnceMore == retries <= MaxRetries + 1

(* reconnectStrategy answers a delay, not an error. *)
MayRetry == retries <= MaxRetries

(* Mutant of Failures: the count starts over instead of reaching the end. *)
FailuresStartOver == (retries + 1) % (MaxRetries + 1)

Failures == retries + 1

RedisRetry ==
    /\ Alive
    /\ link \in {"connecting", "broken"}
    /\ MayRetry
    /\ retries' = Failures
    /\ connected' = FALSE
    /\ UNCHANGED <<stage, exit, link, db, listening, req, sd, adapter, uncaught>>

(* While booting, connect() rejects and client becomes null for good. *)
RedisGivesUp ==
    /\ Alive
    /\ link \in {"connecting", "broken"}
    /\ ~MayRetry
    /\ link' = IF stage = "redis" THEN "null" ELSE "closed"
    /\ connected' = FALSE
    /\ ConnectRedisReturns
    /\ UNCHANGED <<exit, retries, db, listening, req, sd, adapter, uncaught>>

(* Mutant of OnError: the flag is left as it is. *)
OnErrorKeepsFlag == UNCHANGED connected

(* client.on('error') *)
OnError == connected' = FALSE

RedisBreaks ==
    /\ Alive
    /\ link = "ready"
    /\ link' = "broken"
    /\ OnError
    /\ retries' = 0
    /\ UNCHANGED <<stage, exit, db, listening, req, sd, adapter, uncaught>>

-----------------------------------------------------------------------------
(* The rest of bootstrap(). *)

ConnectDatabase ==
    /\ Alive
    /\ Boot("mongo", "socket")
    /\ db' = "open"
    /\ UNCHANGED <<exit, link, connected, retries, listening, req, sd, adapter, uncaught>>

(* createSocketServer falls back to the in-memory adapter on any error,    *)
(* and leaves open what it has connected; createAdapter subscribes without *)
(* awaiting it.  listen() and the signal handlers follow in one go.        *)
Listen ==
    /\ Alive
    /\ Boot("socket", "up")
    /\ listening' = TRUE
    /\ adapter' \in IF adapter = "wanted" THEN {"memory", "half", "busy"} ELSE {adapter}
    /\ UNCHANGED <<exit, link, connected, retries, db, req, sd, uncaught>>

(* No server is found, or the port is taken: exit(1). *)
BootFails ==
    /\ Alive
    /\ stage \in {"mongo", "socket"}
    /\ exit' = "1"
    /\ UNCHANGED <<stage, link, connected, retries, db, listening, req, sd, adapter, uncaught>>

(* A signal before the handlers are installed ends the process. *)
SignalEarly(s) ==
    /\ Alive
    /\ stage # "up"
    /\ exit' = "killed"
    /\ UNCHANGED <<stage, link, connected, retries, db, listening, req, sd, adapter, uncaught>>

-----------------------------------------------------------------------------
(* Requests: a query of the database, and then the answer.  What they ask  *)
(* of Redis never holds them up.                                           *)

Accept(r) ==
    /\ Alive
    /\ listening
    /\ req[r] = "none"
    /\ req' = [req EXCEPT ![r] = "query"]
    /\ UNCHANGED <<stage, exit, link, connected, retries, db, listening, sd, adapter, uncaught>>

(* Once the connection is closed Mongoose queues the query. *)
Query(r) ==
    /\ Alive
    /\ req[r] = "query"
    /\ db = "open"
    /\ req' = [req EXCEPT ![r] = "respond"]
    /\ UNCHANGED <<stage, exit, link, connected, retries, db, listening, sd, adapter, uncaught>>

Respond(r) ==
    /\ Alive
    /\ req[r] = "respond"
    /\ req' = [req EXCEPT ![r] = "none"]
    /\ UNCHANGED <<stage, exit, link, connected, retries, db, listening, sd, adapter, uncaught>>

-----------------------------------------------------------------------------
(* The adapter, which publishes every broadcast and awaits nothing.        *)

Publish ==
    /\ Alive
    /\ listening
    /\ adapter = "idle"
    /\ adapter' = "busy"
    /\ UNCHANGED <<stage, exit, link, connected, retries, db, listening, req, sd, uncaught>>

Answered ==
    /\ Alive
    /\ adapter = "busy"
    /\ adapter' = "idle"
    /\ UNCHANGED <<stage, exit, link, connected, retries, db, listening, req, sd, uncaught>>

ExitUncaught ==
    /\ Alive
    /\ exit' = "1"
    /\ uncaught' = TRUE
    /\ UNCHANGED <<stage, link, connected, retries, db, listening, req, sd, adapter>>

(* A command is rejected: unhandledRejection.  Or the one connection that  *)
(* was made breaks, and nobody listens to its errors: uncaughtException.   *)
AdapterFails == adapter \in {"busy", "half"} /\ ExitUncaught

(* The handler of an event of a socket throws: uncaughtException. *)
EventThrows == listening /\ ExitUncaught

-----------------------------------------------------------------------------
(* shutdown() *)

(* Mutant of CloseServers: they are closed after the connections. *)
CloseServersLast == UNCHANGED listening

(* io.close() and httpServer.close(), neither of them awaited. *)
CloseServers == listening' = FALSE

(* io.close() closes the adapter, too: commands to unsubscribe. *)
CloseAdapter == adapter' = IF adapter \in {"idle", "busy"} THEN "busy" ELSE adapter

Shutdown(s) ==
    /\ Alive
    /\ stage = "up"
    /\ sd[s] = "none"
    /\ CloseServers
    /\ CloseAdapter
    /\ sd' = [sd EXCEPT ![s] = "database"]
    /\ UNCHANGED <<stage, exit, link, connected, retries, db, req, uncaught>>

(* Mutant of Usable: the flag is not looked at. *)
NotNull == link # "null"

(* The condition of disconnectRedis and getRedisClient. *)
Usable == link # "null" /\ connected

(* quit() of a client that is not open, or was asked to quit before. *)
QuitRejects == link \in {"quitting", "closed"}

(* disconnectDatabase has returned, and disconnectRedis sends QUIT, which  *)
(* waits in a queue unless the client is ready.  If quit() rejects, nobody *)
(* but the handler of unhandledRejection notices: exit(1).                 *)
DisconnectDatabase(s) ==
    /\ Alive
    /\ sd[s] = "database"
    /\ db' = "closed"
    /\ \/ /\ ~Usable
          /\ exit' = "0"
          /\ UNCHANGED <<link, sd>>
       \/ /\ Usable /\ QuitRejects
          /\ exit' = "1"
          /\ UNCHANGED <<link, sd>>
       \/ /\ Usable /\ ~QuitRejects
          /\ link' = IF link = "ready" THEN "quitting" ELSE link
          /\ sd' = [sd EXCEPT ![s] = "redis"]
          /\ UNCHANGED exit
    /\ UNCHANGED <<stage, connected, retries, listening, req, adapter, uncaught>>

DisconnectDatabaseFails(s) ==
    /\ Alive
    /\ sd[s] = "database"
    /\ db' = "failed"
    /\ exit' = "1"
    /\ UNCHANGED <<stage, link, connected, retries, listening, req, sd, adapter, uncaught>>

(* The event 'end', and the rest of shutdown(). *)
DisconnectRedis(s) ==
    /\ Alive
    /\ sd[s] = "redis" /\ link = "quitting"
    /\ link' = "closed"
    /\ connected' = FALSE
    /\ exit' = "0"
    /\ UNCHANGED <<stage, retries, db, listening, req, sd, adapter, uncaught>>

(* The connection breaks first: quit() rejects. *)
DisconnectRedisFails(s) ==
    /\ Alive
    /\ sd[s] = "redis" /\ link = "quitting"
    /\ link' = "lost"
    /\ connected' = FALSE
    /\ exit' = "1"
    /\ UNCHANGED <<stage, retries, db, listening, req, sd, adapter, uncaught>>

-----------------------------------------------------------------------------
Attempt == RedisReady \/ RedisRetry \/ RedisGivesUp

Bootstrap ==
    \/ SkipRedis
    \/ ConnectRedis
    \/ ConnectDatabase
    \/ Listen
    \/ BootFails

Handle(r) == Accept(r) \/ Query(r) \/ Respond(r)

Disconnect(s) ==
    \/ DisconnectDatabase(s)
    \/ DisconnectDatabaseFails(s)
    \/ DisconnectRedis(s)
    \/ DisconnectRedisFails(s)

Next ==
    \/ Bootstrap
    \/ Attempt
    \/ RedisBreaks
    \/ \E r \in Requests : Handle(r)
    \/ Publish \/ Answered \/ AdapterFails \/ EventThrows
    \/ \E s \in Signals : SignalEarly(s) \/ Shutdown(s) \/ Disconnect(s)

(* What has a timeout ends: an attempt to connect to Redis (connectTimeout *)
(* 10 s), the search for a MongoDB server (serverSelectionTimeoutMS 5 s);  *)
(* and so do closing the pool, and QUIT, by its answer or by an error of   *)
(* the connection.  Requests, and Redis, owe nothing.                      *)
Fairness ==
    /\ WF_vars(Bootstrap)
    /\ WF_vars(Attempt)
    /\ \A s \in Signals : WF_vars(Disconnect(s))

Spec == Init /\ [][Next]_vars /\ Fairness

-----------------------------------------------------------------------------
(* Properties. *)

(* Requests are accepted only while the database is connected: from after  *)
(* it was connected until before the first shutdown closes it.             *)
ListensOnlyWithDatabase == listening => db = "open"

(* getRedisClient() hands out a client exactly while it is ready, or has   *)
(* been asked to quit and not ended: callers are spared a client that is   *)
(* reconnecting, which would queue their commands.                         *)
FlagTruthful == Usable <=> link \in {"ready", "quitting"}

(* A process that has come up exits with 1 only if two signals were        *)
(* handled, if closing a connection failed, or for a failure that nobody   *)
(* handles: of the adapter, at a command that nobody awaits or on a        *)
(* connection nobody listens to, or of the handler of an event.            *)
AbruptExitHasCause ==
    exit = "1" /\ stage = "up" =>
        \/ db = "failed"
        \/ link = "lost"
        \/ uncaught
        \/ \E s, t \in Signals : s # t /\ sd[s] # "none" /\ sd[t] # "none"

(* A shutdown that waits for QUIT waits for one that was sent and will be  *)
(* answered or fail, and alone: QUIT is never left in the queue of a       *)
(* client that is not ready, nor is it awaited after 'end'.                *)
QuitUnderWay ==
    \A s, t \in Signals :
        Alive /\ sd[s] = "redis" => link = "quitting" /\ (sd[t] = "redis" => s = t)

(* Redis is not critical: the process comes up, or fails for another       *)
(* reason, even if Redis is never reached.                                 *)
BootEnds == <>(stage = "up" \/ ~Alive)

(* A shutdown ends the process, whatever state Redis is in. *)
ShutdownEnds == (\E s \in Signals : sd[s] # "none") ~> ~Alive

(* "HTTP server - stop accepting new requests, finish in-flight ones":     *)
(* no request is in flight when the process exits with 0.                  *)
InFlightFinished == exit = "0" => \A r \in Requests : req[r] = "none"
=============================================================================
