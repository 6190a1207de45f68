--------------------------- MODULE RoomMulticast ---------------------------
(***************************************************************************)
(* What io.to(room).emit() promises, whatever carries it from process to   *)
(* process: a best-effort multicast.  A broadcast goes to the members at   *)
(* the sender's process at once.  It is then in the air to all the other   *)
(* processes or to none, may vanish there at any time, and where it        *)
(* arrives goes to all who are members at that moment, in one step.        *)
(*                                                                         *)
(* There are no queues here.  Of the broadcasts of one sender that are in  *)
(* the air to a process only the earliest can arrive; what arrives is in   *)
(* the air no longer, so nothing arrives twice, and nothing is made up.    *)
(***************************************************************************)
EXTENDS Naturals, Sequences

CONSTANTS Processes, Sockets, Rooms, None

VARIABLES
    at,         \* at[s]: the process socket s is connected to, or None
    rooms,      \* rooms[s]: the rooms socket s is in
    log,        \* log[s]: what was sent on the connection of s
    sent,       \* number of broadcasts
    air         \* air[p]: broadcasts that may still arrive at process p

multicast == <<at, rooms, log, sent, air>>

Init ==
    /\ at = [s \in Sockets |-> None]
    /\ rooms = [s \in Sockets |-> {}]
    /\ log = [s \in Sockets |-> <<>>]
    /\ sent = 0
    /\ air = [p \in Processes |-> {}]

-----------------------------------------------------------------------------
(* Connections and rooms. *)

(* A new connection starts with nothing sent and in one room. *)
Open(s, p, room) ==
    /\ at[s] = None
    /\ at' = [at EXCEPT ![s] = p]
    /\ rooms' = [rooms EXCEPT ![s] = {room}]
    /\ log' = [log EXCEPT ![s] = <<>>]
    /\ UNCHANGED air

(* What is in the air may vanish with the connections that end. *)
Close(gone) ==
    /\ at' = [s \in Sockets |-> IF s \in gone THEN None ELSE at[s]]
    /\ rooms' = [s \in Sockets |-> IF s \in gone THEN {} ELSE rooms[s]]
    /\ log' = [s \in Sockets |-> IF s \in gone THEN <<>> ELSE log[s]]
    /\ \A p \in Processes : air'[p] \subseteq air[p]

Enter(s, room) ==
    /\ at[s] # None
    /\ rooms' = [rooms EXCEPT ![s] = @ \cup {room}]

Exit(s, room) ==
    /\ at[s] # None
    /\ rooms' = [rooms EXCEPT ![s] = @ \ {room}]

Membership ==
    /\ UNCHANGED sent
    /\ \/ /\ UNCHANGED <<at, log>>
          /\ \E s \in Sockets, room \in Rooms : Enter(s, room) \/ Exit(s, room)
          /\ UNCHANGED air
       \/ \E gone \in SUBSET Sockets : Close(gone)
       \/ \E s \in Sockets, p \in Processes, room \in Rooms : Open(s, p, room)

-----------------------------------------------------------------------------
(* Broadcasts. *)

(* All members at p, and nobody else, are sent m. *)
Hand(p, m) ==
    log' = [s \in Sockets |-> IF at[s] = p /\ m.room \in rooms[s]
                              THEN Append(log[s], m) ELSE log[s]]

Publish(s, room, carried) ==
    LET m == [n |-> sent + 1, room |-> room, by |-> at[s]] IN
    /\ at[s] # None
    /\ Hand(at[s], m)
    /\ air' = [p \in Processes |->
                  IF carried /\ p # at[s] THEN air[p] \cup {m} ELSE air[p]]

Arrive(p, m) ==
    /\ m \in air[p]
    /\ \A k \in air[p] : k.by = m.by => m.n <= k.n
    /\ Hand(p, m)
    /\ air' = [air EXCEPT ![p] = @ \ {m}]

Vanish ==
    /\ UNCHANGED log
    /\ \A p \in Processes : air'[p] \subseteq air[p]

Traffic ==
    /\ UNCHANGED <<at, rooms>>
    /\ \/ /\ sent' = sent + 1
          /\ \E s \in Sockets, room \in Rooms, carried \in BOOLEAN :
                Publish(s, room, carried)
       \/ /\ UNCHANGED sent
          /\ Vanish \/ \E p \in Processes : \E m \in air[p] : Arrive(p, m)

-----------------------------------------------------------------------------
Next == Traffic \/ Membership

Spec == Init /\ [][Next]_multicast
=============================================================================
