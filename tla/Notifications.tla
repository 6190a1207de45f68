--------------------------- MODULE Notifications ---------------------------
(***************************************************************************)
(* The WebSocket side of the service: processes with sockets in rooms, and *)
(* the broadcasts of notifications from one socket to all in a room, in    *)
(* every process that the Redis adapter reaches.                           *)
(*                                                                         *)
(* A process attaches the adapter when it boots, or falls back to memory   *)
(* for good.  With the adapter a broadcast takes two hops: the process     *)
(* queues it for Redis, and Redis passes a copy to every process that is   *)
(* subscribed then.  log[s] is what the server has sent on the connection  *)
(* of socket s; a client that connects anew begins with an empty one.      *)
(***************************************************************************)
EXTENDS Naturals, Sequences, Functions

CONSTANTS
    Processes,
    Sockets,
    Channels,   \* the rooms clients subscribe to by name
    Home,       \* Home[s]: the room user:<id> of the user of socket s
    MaxMsgs,    \* bound: broadcasts
    None

Rooms == Channels \cup {Home[s] : s \in Sockets}

ASSUME HomeIsFunction == DOMAIN Home = Sockets
ASSUME MaxMsgsNat == MaxMsgs \in Nat
ASSUME NoneIsNoProcess == None \notin Processes

VARIABLES
    adapter,    \* adapter[p]: how process p reaches the others, or "down"
    at,         \* at[s]: the process socket s is connected to, or None
    rooms,      \* rooms[s]: the rooms socket s is in
    out,        \* out[p]: what pubClient of p has queued for Redis
    wire,       \* wire[p]: what Redis has sent to subClient of p
    log,        \* log[s]: the notifications sent to socket s
    sent,       \* number of broadcasts
    owed,       \* history: those made while socket s was in their room
    lost        \* history: <<n, p>> if broadcast n will not reach process p

vars == <<adapter, at, rooms, out, wire, log, sent, owed, lost>>

Messages == [n : 1 .. MaxMsgs, room : Rooms, by : Processes]

TypeOK ==
    /\ adapter \in [Processes -> {"down", "memory", "redis"}]
    /\ at \in [Sockets -> Processes \cup {None}]
    /\ rooms \in [Sockets -> SUBSET Rooms]
    /\ out \in [Processes -> Seq(Messages)]
    /\ wire \in [Processes -> Seq(Messages)]
    /\ log \in [Sockets -> Seq(Messages)]
    /\ sent \in 0 .. MaxMsgs
    /\ owed \in [Sockets -> SUBSET Messages]
    /\ lost \subseteq (1 .. MaxMsgs) \X Processes
    /\ \A s \in Sockets :
          IF at[s] = None THEN rooms[s] = {} ELSE adapter[at[s]] # "down"
    /\ \A p \in Processes : adapter[p] # "redis" => out[p] = <<>> /\ wire[p] = <<>>

Init ==
    /\ adapter = [p \in Processes |-> "down"]
    /\ at = [s \in Sockets |-> None]
    /\ rooms = [s \in Sockets |-> {}]
    /\ out = [p \in Processes |-> <<>>]
    /\ wire = [p \in Processes |-> <<>>]
    /\ log = [s \in Sockets |-> <<>>]
    /\ sent = 0
    /\ owed = [s \in Sockets |-> {}]
    /\ lost = {}

Others(p) == Processes \ {p}

-----------------------------------------------------------------------------
(* Processes. *)

(* createSocketServer: without REDIS_URL, and on any error while the two   *)
(* clients connect, the adapter in memory stays.                           *)
Boot(p, mode) ==
    /\ adapter[p] = "down"
    /\ adapter' = [adapter EXCEPT ![p] = mode]
    /\ UNCHANGED <<at, rooms, out, wire, log, sent, owed, lost>>

(* Mutant of LeaveAll: the rooms of a closed socket are kept. *)
LeaveAllLater(gone) == UNCHANGED rooms

(* Socket.io takes a closed socket out of all its rooms. *)
LeaveAll(gone) == rooms' = [s \in Sockets |-> IF s \in gone THEN {} ELSE rooms[s]]

Close(gone) ==
    /\ at' = [s \in Sockets |-> IF s \in gone THEN None ELSE at[s]]
    /\ LeaveAll(gone)
    /\ log' = [s \in Sockets |-> IF s \in gone THEN <<>> ELSE log[s]]
    /\ owed' = [s \in Sockets |-> IF s \in gone THEN {} ELSE owed[s]]

(* A crash, or io.close() and the end of a shutdown, which waits for no    *)
(* publication.                                                            *)
Stop(p) ==
    /\ adapter[p] # "down"
    /\ adapter' = [adapter EXCEPT ![p] = "down"]
    /\ Close({s \in Sockets : at[s] = p})
    /\ out' = [out EXCEPT ![p] = <<>>]
    /\ wire' = [wire EXCEPT ![p] = <<>>]
    /\ lost' = lost \cup {m.n : m \in Range(out[p])} \X Others(p)
    /\ UNCHANGED sent

-----------------------------------------------------------------------------
(* Sockets. *)

(* The connection handler. *)
Connect(s, p) ==
    /\ at[s] = None
    /\ adapter[p] # "down"
    /\ at' = [at EXCEPT ![s] = p]
    /\ rooms' = [rooms EXCEPT ![s] = {Home[s]}]
    /\ UNCHANGED <<adapter, out, wire, log, sent, owed, lost>>

Disconnect(s) ==
    /\ at[s] # None
    /\ Close({s})
    /\ UNCHANGED <<adapter, out, wire, sent, lost>>

Subscribe(s, room) ==
    /\ at[s] # None
    /\ rooms' = [rooms EXCEPT ![s] = @ \cup {room}]
    /\ UNCHANGED <<adapter, at, out, wire, log, sent, owed, lost>>

(* What is still on its way to the room will not be sent to s. *)
Unsubscribe(s, room) ==
    /\ at[s] # None
    /\ rooms' = [rooms EXCEPT ![s] = @ \ {room}]
    /\ owed' = [owed EXCEPT ![s] = {m \in @ : m.room # room}]
    /\ UNCHANGED <<adapter, at, out, wire, log, sent, lost>>

-----------------------------------------------------------------------------
(* Broadcasts. *)

(* The sockets of process p that are in the room of m. *)
Members(p, m) == {t \in Sockets : at[t] = p /\ m.room \in rooms[t]}

Deliver(members, m) ==
    log' = [t \in Sockets |-> IF t \in members THEN Append(log[t], m) ELSE log[t]]

(* Mutant of Emit: socket.to(channel), which leaves out the sender. *)
EmitToOthers(s, m) == Deliver(Members(at[s], m) \ {s}, m)

(* Mutant of Emit: and an echo to the sender. *)
EmitWithEcho(s, m) ==
    log' = [t \in Sockets |->
               (IF t \in Members(at[s], m) THEN Append(log[t], m) ELSE log[t])
                   \o (IF t = s THEN <<m>> ELSE <<>>)]

(* io.to(channel).emit() *)
Emit(s, m) == Deliver(Members(at[s], m), m)

Broadcast(s, room) ==
    LET p == at[s]
        m == [n |-> sent + 1, room |-> room, by |-> p]
    IN  /\ p # None
        /\ sent < MaxMsgs
        /\ sent' = m.n
        /\ Emit(s, m)
        /\ IF adapter[p] = "redis"
           THEN out' = [out EXCEPT ![p] = Append(@, m)] /\ UNCHANGED lost
           ELSE lost' = lost \cup {m.n} \X Others(p) /\ UNCHANGED out
        /\ owed' = [t \in Sockets |->
                       IF room \in rooms[t] THEN owed[t] \cup {m} ELSE owed[t]]
        /\ UNCHANGED <<adapter, at, rooms, wire>>

(* Mutant of Relay: the copy of its own is not ignored. *)
RelayToAll(p) ==
    /\ out[p] # <<>>
    /\ out' = [out EXCEPT ![p] = Tail(@)]
    /\ wire' = [q \in Processes |->
                   IF adapter[q] = "redis"
                   THEN Append(wire[q], Head(out[p])) ELSE wire[q]]
    /\ UNCHANGED <<adapter, at, rooms, log, sent, owed, lost>>

(* Redis takes a publication; p ignores the copy of its own. *)
Relay(p) ==
    /\ out[p] # <<>>
    /\ out' = [out EXCEPT ![p] = Tail(@)]
    /\ wire' = [q \in Processes |->
                   IF q # p /\ adapter[q] = "redis"
                   THEN Append(wire[q], Head(out[p])) ELSE wire[q]]
    /\ UNCHANGED <<adapter, at, rooms, log, sent, owed, lost>>

(* The connection breaks before PUBLISH is answered. *)
LosePublish(p) ==
    /\ out[p] # <<>>
    /\ out' = [out EXCEPT ![p] = Tail(@)]
    /\ lost' = lost \cup {Head(out[p]).n} \X Others(p)
    /\ UNCHANGED <<adapter, at, rooms, wire, log, sent, owed>>

Receive(q) ==
    /\ wire[q] # <<>>
    /\ wire' = [wire EXCEPT ![q] = Tail(@)]
    /\ Deliver(Members(q, Head(wire[q])), Head(wire[q]))
    /\ UNCHANGED <<adapter, at, rooms, out, sent, owed, lost>>

(* The connection of subClient breaks: nothing is sent again. *)
LoseCopy(q) ==
    /\ wire[q] # <<>>
    /\ wire' = [wire EXCEPT ![q] = Tail(@)]
    /\ lost' = lost \cup {<<Head(wire[q]).n, q>>}
    /\ UNCHANGED <<adapter, at, rooms, out, log, sent, owed>>

-----------------------------------------------------------------------------
Next ==
    \/ \E p \in Processes :
          \/ \E mode \in {"memory", "redis"} : Boot(p, mode)
          \/ Stop(p)
          \/ Relay(p)
          \/ LosePublish(p)
          \/ Receive(p)
          \/ LoseCopy(p)
    \/ \E s \in Sockets :
          \/ \E p \in Processes : Connect(s, p)
          \/ Disconnect(s)
          \/ \E room \in Rooms :
                Subscribe(s, room) \/ Unsubscribe(s, room) \/ Broadcast(s, room)

(* pubClient and subClient go on, by an answer or by an error. *)
Fairness ==
    \A p \in Processes :
        /\ WF_vars(Relay(p) \/ LosePublish(p))
        /\ WF_vars(Receive(p) \/ LoseCopy(p))

Spec == Init /\ [][Next]_vars /\ Fairness

-----------------------------------------------------------------------------
(* Properties. *)

(* On one connection the notifications from one process arrive in the      *)
(* order of their broadcasts, and none arrives twice.                      *)
InOrderOnce ==
    \A s \in Sockets : \A i, j \in DOMAIN log[s] :
        i < j /\ log[s][i].by = log[s][j].by => log[s][i].n < log[s][j].n

(* The reasons for which a notification does not reach a socket that was   *)
(* in its room all the time: the process of the sender, or its own, runs   *)
(* without the adapter, or Redis or the sender's process failed under way. *)
Excused(s, m) == <<m.n, at[s]>> \in lost \/ adapter[at[s]] # "redis"

Got(s, m) == m \in Range(log[s])

(* A notification goes to every socket that was in the room when it was    *)
(* broadcast, the sender's included, or is on its way, or is excused.      *)
DeliveredOrCause ==
    \A s \in Sockets : \A m \in owed[s] :
        \/ Got(s, m)
        \/ m \in Range(out[m.by]) \cup Range(wire[at[s]])
        \/ Excused(s, m)

(* Somebody has still to get broadcast n. *)
Pending(n) ==
    \E s \in Sockets : \E m \in owed[s] : m.n = n /\ ~Excused(s, m) /\ ~Got(s, m)

(* But not for ever: what is on its way gets there, unless the socket      *)
(* leaves.                                                                 *)
Delivered == \A n \in 1 .. MaxMsgs : []<>(~Pending(n))

-----------------------------------------------------------------------------
(* Queued by another process or on the wire: in the air to q. *)
Air == [q \in Processes |->
           Range(wire[q]) \cup UNION {Range(out[p]) : p \in Others(q)}]

Multicast == INSTANCE RoomMulticast WITH air <- Air

(* Two hops through Redis, processes that attach the adapter or stop       *)
(* between them, and connections that break at either hop come to the same *)
(* as one unreliable hop: whoever a broadcast reaches gets it as a member  *)
(* at that moment, once, in the sender's order, together with all other    *)
(* members there.                                                          *)
ImplementsMulticast == Multicast!Spec
=============================================================================
