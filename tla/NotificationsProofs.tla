------------------------ MODULE NotificationsProofs ------------------------
(***************************************************************************)
(* Proofs about Notifications, for any number of processes, sockets, rooms *)
(* and broadcasts.                                                         *)
(*                                                                         *)
(* A notification is in one place after another: queued by its process, on *)
(* the wire to another one, in the log of a socket.  That they are in      *)
(* order in each place and from place to place is what keeps them in order *)
(* in the end; and a step that takes one from its place puts it into the   *)
(* next, or into lost.                                                     *)
(***************************************************************************)
EXTENDS Notifications, TLAPS

(* In the order of their broadcasts, as far as they are of one process. *)
Before(k, m) == k.by = m.by => k.n < m.n

Increasing(seq) == \A i, j \in DOMAIN seq : i < j => Before(seq[i], seq[j])

Placed ==
    /\ \A p \in Processes : \A m \in Range(out[p]) : m.by = p /\ m.n <= sent
    /\ \A p \in Processes : \A m \in Range(wire[p]) : m.by # p /\ m.n <= sent
    /\ \A s \in Sockets : \A m \in Range(log[s]) : m.n <= sent

Ordered ==
    /\ \A p \in Processes : Increasing(out[p]) /\ Increasing(wire[p])
    /\ \A s \in Sockets : Increasing(log[s])

(* From place to place. *)
Following ==
    /\ \A p, q \in Processes : \A k \in Range(wire[q]), m \in Range(out[p]) : Before(k, m)
    /\ \A s \in Sockets, p \in Processes :
          at[s] # p => \A k \in Range(log[s]), m \in Range(out[p]) : Before(k, m)
    /\ \A s \in Sockets, p \in Processes :
          at[s] = p => \A k \in Range(log[s]), m \in Range(wire[p]) : Before(k, m)

(* What is owed to a socket is of its rooms; what its own process has      *)
(* broadcast it has got.                                                   *)
Owing ==
    /\ \A s \in Sockets : at[s] = None => log[s] = <<>>
    /\ \A s \in Sockets : \A m \in owed[s] :
          m.room \in rooms[s] /\ (m.by = at[s] => Got(s, m))

IInv == TypeOK /\ Placed /\ Ordered /\ Following /\ Owing /\ DeliveredOrCause

-----------------------------------------------------------------------------
(* Sequences, by what is in them. *)

LEMMA EmptyRange == Range(<<>>) = {}
BY DEF Range

LEMMA AppendRange ==
    ASSUME NEW S, NEW seq \in Seq(S), NEW m \in S
    PROVE  /\ Append(seq, m) \in Seq(S)
           /\ Range(Append(seq, m)) = Range(seq) \cup {m}
<1>1. /\ DOMAIN Append(seq, m) = 1 .. Len(seq) + 1
      /\ DOMAIN seq = 1 .. Len(seq)
      /\ Len(seq) \in Nat
      /\ \A i \in 1 .. Len(seq) : Append(seq, m)[i] = seq[i]
      /\ Append(seq, m)[Len(seq) + 1] = m
  OBVIOUS
<1>2. Range(Append(seq, m)) \subseteq Range(seq) \cup {m}
  BY <1>1 DEF Range
<1>3. Range(seq) \subseteq Range(Append(seq, m))
  BY <1>1 DEF Range
<1>4. m \in Range(Append(seq, m))
  BY <1>1 DEF Range
<1> QED BY <1>2, <1>3, <1>4

LEMMA TailRange ==
    ASSUME NEW S, NEW seq \in Seq(S), seq # <<>>
    PROVE  /\ Tail(seq) \in Seq(S)
           /\ Head(seq) \in S
           /\ Range(seq) = Range(Tail(seq)) \cup {Head(seq)}
<1>1. /\ DOMAIN Tail(seq) = 1 .. Len(seq) - 1
      /\ DOMAIN seq = 1 .. Len(seq)
      /\ Len(seq) \in Nat /\ Len(seq) >= 1
      /\ \A i \in 1 .. Len(seq) - 1 : Tail(seq)[i] = seq[i + 1]
      /\ Head(seq) = seq[1]
      /\ Tail(seq) \in Seq(S)
  OBVIOUS
<1>2. Range(Tail(seq)) \cup {Head(seq)} \subseteq Range(seq)
  BY <1>1 DEF Range
<1>3. ASSUME NEW i \in DOMAIN seq PROVE seq[i] \in Range(Tail(seq)) \cup {Head(seq)}
  <2>1. CASE i = 1
    BY <1>1, <2>1
  <2>2. CASE i # 1
    <3>1. i - 1 \in 1 .. Len(seq) - 1 /\ Tail(seq)[i - 1] = seq[i]
      BY <1>1, <2>2
    <3> QED BY <1>1, <3>1 DEF Range
  <2> QED BY <2>1, <2>2
<1>4. Head(seq) \in S
  BY <1>1
<1> QED BY <1>1, <1>2, <1>3, <1>4 DEF Range

LEMMA IncreasingEmpty == Increasing(<<>>)
BY DEF Increasing

LEMMA IncreasingAppend ==
    ASSUME NEW S, NEW seq \in Seq(S), NEW m \in S, Increasing(seq),
           \A k \in Range(seq) : Before(k, m)
    PROVE  Increasing(Append(seq, m))
<1>1. /\ DOMAIN Append(seq, m) = 1 .. Len(seq) + 1
      /\ DOMAIN seq = 1 .. Len(seq)
      /\ Len(seq) \in Nat
      /\ \A i \in 1 .. Len(seq) : Append(seq, m)[i] = seq[i]
      /\ Append(seq, m)[Len(seq) + 1] = m
  OBVIOUS
<1> SUFFICES ASSUME NEW i \in 1 .. Len(seq) + 1, NEW j \in 1 .. Len(seq) + 1, i < j
             PROVE  Before(Append(seq, m)[i], Append(seq, m)[j])
  BY <1>1 DEF Increasing
<1>2. i \in 1 .. Len(seq) /\ Append(seq, m)[i] = seq[i]
  BY <1>1
<1>3. CASE j = Len(seq) + 1
  <2>1. seq[i] \in Range(seq)
    BY <1>1, <1>2 DEF Range
  <2> QED BY <1>1, <1>2, <1>3, <2>1
<1>4. CASE j # Len(seq) + 1
  <2>1. j \in 1 .. Len(seq) /\ Append(seq, m)[j] = seq[j]
    BY <1>1, <1>4
  <2> QED BY <1>1, <1>2, <2>1 DEF Increasing
<1> QED BY <1>3, <1>4

LEMMA IncreasingTail ==
    ASSUME NEW S, NEW seq \in Seq(S), seq # <<>>, Increasing(seq)
    PROVE  /\ Increasing(Tail(seq))
           /\ \A m \in Range(Tail(seq)) : Before(Head(seq), m)
<1>1. /\ DOMAIN Tail(seq) = 1 .. Len(seq) - 1
      /\ DOMAIN seq = 1 .. Len(seq)
      /\ Len(seq) \in Nat /\ Len(seq) >= 1
      /\ \A i \in 1 .. Len(seq) - 1 : Tail(seq)[i] = seq[i + 1]
      /\ Head(seq) = seq[1]
  OBVIOUS
<1>2. ASSUME NEW i \in DOMAIN Tail(seq), NEW j \in DOMAIN Tail(seq), i < j
      PROVE  Before(Tail(seq)[i], Tail(seq)[j])
  <2>1. i + 1 \in DOMAIN seq /\ j + 1 \in DOMAIN seq /\ i + 1 < j + 1
    BY <1>1, <1>2
  <2>2. Before(seq[i + 1], seq[j + 1])
    BY <2>1 DEF Increasing
  <2> QED BY <1>1, <2>2
<1>3. ASSUME NEW i \in DOMAIN Tail(seq) PROVE Before(Head(seq), Tail(seq)[i])
  <2>1. 1 \in DOMAIN seq /\ i + 1 \in DOMAIN seq /\ 1 < i + 1
    BY <1>1
  <2>2. Before(seq[1], seq[i + 1])
    BY <2>1 DEF Increasing
  <2> QED BY <1>1, <2>2
<1> QED BY <1>2, <1>3 DEF Increasing, Range

-----------------------------------------------------------------------------
LEMMA InitIInv == Init => IInv
<1> SUFFICES ASSUME Init PROVE IInv
  OBVIOUS
<1>1. TypeOK
  <2>1. \A p \in Processes : out[p] = <<>> /\ wire[p] = <<>>
    BY DEF Init
  <2> QED BY <2>1, MaxMsgsNat DEF Init, TypeOK, MaxMsgsNat
<1>2. Placed /\ Ordered /\ Following
  BY EmptyRange, IncreasingEmpty DEF Init, Placed, Ordered, Following
<1>3. Owing /\ DeliveredOrCause
  BY DEF Init, Owing, DeliveredOrCause
<1> QED BY <1>1, <1>2, <1>3 DEF IInv

LEMMA BootIInv ==
    ASSUME IInv, NEW p \in Processes, NEW mode \in {"memory", "redis"}, Boot(p, mode)
    PROVE  IInv'
<1>0. TypeOK /\ UNCHANGED <<at, rooms, out, wire, log, sent, owed, lost>>
  BY DEF IInv, Boot
<1>1. TypeOK'
  <2>1. adapter' \in [Processes -> {"down", "memory", "redis"}]
    BY <1>0 DEF TypeOK, Boot
  <2>2. \A s \in Sockets :
           IF at'[s] = None THEN rooms'[s] = {} ELSE adapter'[at'[s]] # "down"
    BY <1>0 DEF TypeOK, Boot
  <2>3. \A q \in Processes : adapter'[q] # "redis" => out'[q] = <<>> /\ wire'[q] = <<>>
    BY <1>0 DEF TypeOK, Boot
  <2> QED BY <1>0, <2>1, <2>2, <2>3 DEF TypeOK
<1>2. Placed' /\ Ordered' /\ Following'
  BY <1>0 DEF IInv, Placed, Ordered, Following, Increasing
<1>3. Owing'
  BY <1>0 DEF IInv, Owing, Got
<1>4. DeliveredOrCause'
  <2> SUFFICES ASSUME NEW s \in Sockets, NEW m \in owed[s]
               PROVE  \/ Got(s, m)
                      \/ m \in Range(out[m.by]) \cup Range(wire[at[s]])
                      \/ Excused(s, m)'
    BY <1>0 DEF DeliveredOrCause, Got
  <2>1. at[s] \in Processes /\ adapter[at[s]] # "down"
    BY <1>0 DEF IInv, Owing, TypeOK
  <2>2. adapter'[at[s]] = adapter[at[s]]
    BY <1>0, <2>1 DEF Boot, TypeOK
  <2>3. Excused(s, m) => Excused(s, m)'
    BY <1>0, <2>2 DEF Excused
  <2> QED BY <2>3 DEF IInv, DeliveredOrCause
<1> QED BY <1>1, <1>2, <1>3, <1>4 DEF IInv

LEMMA OwedConnected ==
    ASSUME TypeOK, Owing, NEW s \in Sockets, NEW m \in owed[s]
    PROVE  at[s] \in Processes /\ adapter[at[s]] # "down" /\ m \in Messages
<1>1. rooms[s] # {}
  BY DEF Owing
<1>2. at[s] # None
  BY <1>1 DEF TypeOK
<1> QED BY <1>2 DEF TypeOK

(* Closed sockets lose what they had and are owed nothing. *)
LEMMA CloseKeeps ==
    ASSUME TypeOK, Owing, NEW gone \in SUBSET Sockets, Close(gone)
    PROVE  /\ at' \in [Sockets -> Processes \cup {None}]
           /\ rooms' \in [Sockets -> SUBSET Rooms]
           /\ log' \in [Sockets -> Seq(Messages)]
           /\ owed' \in [Sockets -> SUBSET Messages]
           /\ \A s \in gone :
                 at'[s] = None /\ rooms'[s] = {} /\ log'[s] = <<>> /\ owed'[s] = {}
           /\ \A s \in Sockets \ gone :
                 /\ at'[s] = at[s] /\ rooms'[s] = rooms[s]
                 /\ log'[s] = log[s] /\ owed'[s] = owed[s]
           /\ Owing'
<1>1. /\ \A s \in gone :
            at'[s] = None /\ rooms'[s] = {} /\ log'[s] = <<>> /\ owed'[s] = {}
      /\ \A s \in Sockets \ gone :
            /\ at'[s] = at[s] /\ rooms'[s] = rooms[s]
            /\ log'[s] = log[s] /\ owed'[s] = owed[s]
  BY DEF Close, LeaveAll
<1>2. at' \in [Sockets -> Processes \cup {None}] /\ rooms' \in [Sockets -> SUBSET Rooms]
  BY DEF Close, LeaveAll, TypeOK
<1>3. log' \in [Sockets -> Seq(Messages)]
  BY DEF Close, TypeOK
<1>4. owed' \in [Sockets -> SUBSET Messages]
  BY DEF Close, TypeOK
<1>5. Owing'
  BY <1>1 DEF Owing, Got
<1> QED BY <1>1, <1>2, <1>3, <1>4, <1>5

LEMMA DisconnectIInv ==
    ASSUME IInv, NEW s \in Sockets, Disconnect(s)
    PROVE  IInv'
<1>0. /\ TypeOK /\ Owing /\ Close({s})
      /\ UNCHANGED <<adapter, out, wire, sent, lost>>
  BY DEF IInv, Disconnect
<1>1. /\ at' \in [Sockets -> Processes \cup {None}]
      /\ rooms' \in [Sockets -> SUBSET Rooms]
      /\ log' \in [Sockets -> Seq(Messages)]
      /\ owed' \in [Sockets -> SUBSET Messages]
      /\ at'[s] = None /\ rooms'[s] = {} /\ log'[s] = <<>> /\ owed'[s] = {}
      /\ \A t \in Sockets \ {s} :
            /\ at'[t] = at[t] /\ rooms'[t] = rooms[t]
            /\ log'[t] = log[t] /\ owed'[t] = owed[t]
      /\ Owing'
  BY <1>0, CloseKeeps
<1>2. TypeOK'
  <2>1. \A t \in Sockets :
           IF at'[t] = None THEN rooms'[t] = {} ELSE adapter'[at'[t]] # "down"
    <3>1. adapter' = adapter
      BY <1>0
    <3>2. ASSUME NEW t \in Sockets, t # s
          PROVE  IF at'[t] = None THEN rooms'[t] = {} ELSE adapter'[at'[t]] # "down"
      <4>1. at'[t] = at[t] /\ rooms'[t] = rooms[t]
        BY <1>1, <3>2
      <4> QED BY <1>0, <3>1, <4>1 DEF TypeOK
    <3> QED BY <1>1, <3>2
  <2> QED BY <1>0, <1>1, <2>1 DEF TypeOK
<1>3. Placed'
  BY <1>0, <1>1, EmptyRange DEF IInv, Placed
<1>4. Ordered'
  BY <1>0, <1>1, IncreasingEmpty DEF IInv, Ordered, Increasing
<1>5. Following'
  BY <1>0, <1>1, EmptyRange DEF IInv, Following
<1>6. DeliveredOrCause'
  BY <1>0, <1>1 DEF IInv, DeliveredOrCause, Got, Excused
<1> QED BY <1>1, <1>2, <1>3, <1>4, <1>5, <1>6 DEF IInv

LEMMA StopIInv ==
    ASSUME IInv, NEW p \in Processes, Stop(p)
    PROVE  IInv'
<1> DEFINE gone == {s \in Sockets : at[s] = p}
           cut == {m.n : m \in Range(out[p])} \X Others(p)
<1>0. /\ TypeOK /\ Owing /\ Close(gone)
      /\ sent' = sent
      /\ lost' = lost \cup cut
      /\ adapter'[p] = "down" /\ out'[p] = <<>> /\ wire'[p] = <<>>
      /\ \A q \in Processes \ {p} :
            adapter'[q] = adapter[q] /\ out'[q] = out[q] /\ wire'[q] = wire[q]
      /\ adapter' \in [Processes -> {"down", "memory", "redis"}]
  BY DEF IInv, Stop, TypeOK
<1>a. gone \in SUBSET Sockets
  OBVIOUS
<1>1. /\ at' \in [Sockets -> Processes \cup {None}]
      /\ rooms' \in [Sockets -> SUBSET Rooms]
      /\ log' \in [Sockets -> Seq(Messages)]
      /\ owed' \in [Sockets -> SUBSET Messages]
      /\ \A s \in gone :
            at'[s] = None /\ rooms'[s] = {} /\ log'[s] = <<>> /\ owed'[s] = {}
      /\ \A s \in Sockets \ gone :
            /\ at'[s] = at[s] /\ rooms'[s] = rooms[s]
            /\ log'[s] = log[s] /\ owed'[s] = owed[s]
      /\ Owing'
  <2> HIDE DEF gone
  <2> QED BY <1>0, <1>a, CloseKeeps
<1>b. \A s \in Sockets : at'[s] # p
  BY <1>1, NoneIsNoProcess DEF NoneIsNoProcess
<1>2. TypeOK'
  <2>1. out' \in [Processes -> Seq(Messages)] /\ wire' \in [Processes -> Seq(Messages)]
    BY DEF Stop, IInv, TypeOK
  <2>2. lost' \subseteq (1 .. MaxMsgs) \X Processes
    <3>1. ASSUME NEW m \in Range(out[p]) PROVE m.n \in 1 .. MaxMsgs
      <4>1. m \in Messages
        BY <1>0 DEF TypeOK, Range
      <4> QED BY <4>1 DEF Messages
    <3> QED BY <1>0, <3>1 DEF TypeOK, Others
  <2>3. ASSUME NEW s \in Sockets
        PROVE  IF at'[s] = None THEN rooms'[s] = {} ELSE adapter'[at'[s]] # "down"
    <3>1. CASE s \in gone
      BY <1>1, <3>1
    <3>2. CASE s \notin gone
      <4>1. at'[s] = at[s] /\ rooms'[s] = rooms[s] /\ at[s] # p
        BY <1>1, <3>2
      <4>2. CASE at[s] = None
        BY <1>0, <4>1, <4>2 DEF TypeOK
      <4>3. CASE at[s] # None
        <5>1. at[s] \in Processes \ {p} /\ adapter[at[s]] # "down"
          BY <1>0, <4>1, <4>3 DEF TypeOK
        <5> QED BY <1>0, <4>1, <4>3, <5>1
      <4> QED BY <4>2, <4>3
    <3> QED BY <3>1, <3>2
  <2>4. \A q \in Processes : adapter'[q] # "redis" => out'[q] = <<>> /\ wire'[q] = <<>>
    BY <1>0 DEF TypeOK
  <2> HIDE DEF gone, cut
  <2> QED BY <1>0, <1>1, <2>1, <2>2, <2>3, <2>4 DEF TypeOK
<1>c. \A q \in Processes :
         Range(out'[q]) \subseteq Range(out[q]) /\ Range(wire'[q]) \subseteq Range(wire[q])
  BY <1>0, EmptyRange
<1>d. \A s \in Sockets :
         \/ log'[s] = <<>> /\ owed'[s] = {} /\ at'[s] = None
         \/ log'[s] = log[s] /\ owed'[s] = owed[s] /\ at'[s] = at[s]
  BY <1>1
<1>e. \A s \in Sockets : Range(log'[s]) \subseteq Range(log[s])
  BY <1>d, EmptyRange
<1> HIDE DEF gone, cut
<1>3. Placed'
  BY <1>0, <1>c, <1>e DEF IInv, Placed
<1>4. Ordered'
  <2>1. \A q \in Processes : Increasing(out'[q]) /\ Increasing(wire'[q])
    BY <1>0, IncreasingEmpty DEF IInv, Ordered
  <2>2. \A s \in Sockets : Increasing(log'[s])
    BY <1>d, IncreasingEmpty DEF IInv, Ordered
  <2> QED BY <2>1, <2>2 DEF Ordered, Increasing
<1>5. Following'
  <2>1. \A r, q \in Processes : \A k \in Range(wire'[q]), m \in Range(out'[r]) : Before(k, m)
    BY <1>c DEF IInv, Following
  <2>2. \A s \in Sockets, r \in Processes :
           at'[s] # r => \A k \in Range(log'[s]), m \in Range(out'[r]) : Before(k, m)
    BY <1>c, <1>d, EmptyRange DEF IInv, Following
  <2>3. \A s \in Sockets, r \in Processes :
           at'[s] = r => \A k \in Range(log'[s]), m \in Range(wire'[r]) : Before(k, m)
    BY <1>c, <1>d, EmptyRange DEF IInv, Following
  <2> QED BY <2>1, <2>2, <2>3 DEF Following, Before
<1>6. DeliveredOrCause'
  <2> SUFFICES ASSUME NEW s \in Sockets, NEW m \in owed'[s]
               PROVE  \/ Got(s, m)'
                      \/ m \in Range(out'[m.by]) \cup Range(wire'[at'[s]])
                      \/ Excused(s, m)'
    BY DEF DeliveredOrCause
  <2>1. /\ owed'[s] = owed[s] /\ log'[s] = log[s] /\ at'[s] = at[s]
        /\ at[s] \in Processes \ {p}
    <3>1. owed'[s] = owed[s] /\ log'[s] = log[s] /\ at'[s] = at[s]
      BY <1>d
    <3>2. at[s] \in Processes
      BY <1>0, <3>1, OwedConnected
    <3> QED BY <1>b, <3>1, <3>2
  <2>2. adapter'[at[s]] = adapter[at[s]] /\ wire'[at[s]] = wire[at[s]] /\ lost \subseteq lost'
    BY <1>0, <2>1
  <2>3. m \in Messages /\ m.by \in Processes
    BY <1>0, <2>1 DEF TypeOK, Messages
  <2>4. \/ Got(s, m)
        \/ m \in Range(out[m.by]) \cup Range(wire[at[s]])
        \/ Excused(s, m)
    BY <2>1 DEF IInv, DeliveredOrCause
  <2>5. CASE m.by = p /\ m \in Range(out[p])
    <3>1. <<m.n, at[s]>> \in cut
      BY <2>1, <2>5 DEF cut, Others
    <3> QED BY <1>0, <2>1, <3>1 DEF Excused
  <2>6. CASE m \in Range(out[m.by]) /\ m.by # p
    BY <1>0, <2>3, <2>6
  <2>7. CASE Got(s, m) \/ m \in Range(wire[at[s]]) \/ Excused(s, m)
    BY <2>1, <2>2, <2>7 DEF Got, Excused
  <2> QED BY <2>4, <2>5, <2>6, <2>7
<1> QED BY <1>1, <1>2, <1>3, <1>4, <1>5, <1>6 DEF IInv

-----------------------------------------------------------------------------
LEMMA ConnectIInv ==
    ASSUME IInv, NEW s \in Sockets, NEW p \in Processes, Connect(s, p)
    PROVE  IInv'
<1>0. /\ TypeOK /\ Owing
      /\ UNCHANGED <<adapter, out, wire, log, sent, owed, lost>>
      /\ at[s] = None /\ log[s] = <<>> /\ owed[s] = {}
      /\ at'[s] = p /\ adapter[p] # "down"
      /\ at' \in [Sockets -> Processes \cup {None}]
      /\ \A t \in Sockets \ {s} : at'[t] = at[t] /\ rooms'[t] = rooms[t]
  BY DEF IInv, Connect, TypeOK, Owing
<1>1. TypeOK'
  <2>1. rooms' \in [Sockets -> SUBSET Rooms]
    BY <1>0 DEF TypeOK, Connect, Rooms
  <2>2. \A t \in Sockets :
           IF at'[t] = None THEN rooms'[t] = {} ELSE adapter'[at'[t]] # "down"
    <3>1. adapter' = adapter
      BY <1>0
    <3>2. ASSUME NEW t \in Sockets, t # s
          PROVE  IF at'[t] = None THEN rooms'[t] = {} ELSE adapter'[at'[t]] # "down"
      <4>1. at'[t] = at[t] /\ rooms'[t] = rooms[t]
        BY <1>0, <3>2
      <4> QED BY <1>0, <3>1, <4>1 DEF TypeOK
    <3> QED BY <1>0, <3>1, <3>2, NoneIsNoProcess DEF NoneIsNoProcess
  <2> QED BY <1>0, <2>1, <2>2 DEF TypeOK
<1>2. Placed' /\ Ordered'
  BY <1>0 DEF IInv, Placed, Ordered, Increasing
<1>3. Following'
  BY <1>0, EmptyRange DEF IInv, Following
<1>4. Owing'
  BY <1>0, NoneIsNoProcess DEF Owing, Got, NoneIsNoProcess
<1>5. DeliveredOrCause'
  BY <1>0 DEF IInv, DeliveredOrCause, Got, Excused
<1> QED BY <1>1, <1>2, <1>3, <1>4, <1>5 DEF IInv

LEMMA SubscribeIInv ==
    ASSUME IInv, NEW s \in Sockets, NEW room \in Rooms, Subscribe(s, room)
    PROVE  IInv'
<1>0. /\ TypeOK /\ Owing
      /\ UNCHANGED <<adapter, at, out, wire, log, sent, owed, lost>>
      /\ at[s] # None
      /\ \A t \in Sockets \ {s} : rooms'[t] = rooms[t]
      /\ rooms'[s] = rooms[s] \cup {room}
  BY DEF IInv, Subscribe, TypeOK
<1>1. TypeOK'
  <2>1. rooms' \in [Sockets -> SUBSET Rooms]
    BY <1>0 DEF TypeOK, Subscribe
  <2> QED BY <1>0, <2>1 DEF TypeOK
<1>2. Placed' /\ Ordered' /\ Following'
  BY <1>0 DEF IInv, Placed, Ordered, Increasing, Following
<1>3. Owing'
  BY <1>0 DEF Owing, Got
<1>4. DeliveredOrCause'
  BY <1>0 DEF IInv, DeliveredOrCause, Got, Excused
<1> QED BY <1>1, <1>2, <1>3, <1>4 DEF IInv

LEMMA UnsubscribeIInv ==
    ASSUME IInv, NEW s \in Sockets, NEW room \in Rooms, Unsubscribe(s, room)
    PROVE  IInv'
<1>0. /\ TypeOK /\ Owing
      /\ UNCHANGED <<adapter, at, out, wire, log, sent, lost>>
      /\ at[s] # None
      /\ \A t \in Sockets \ {s} : rooms'[t] = rooms[t] /\ owed'[t] = owed[t]
      /\ rooms'[s] = rooms[s] \ {room}
      /\ owed'[s] = {m \in owed[s] : m.room # room}
  BY DEF IInv, Unsubscribe, TypeOK
<1>1. TypeOK'
  <2>1. rooms' \in [Sockets -> SUBSET Rooms] /\ owed' \in [Sockets -> SUBSET Messages]
    BY <1>0 DEF TypeOK, Unsubscribe
  <2> QED BY <1>0, <2>1 DEF TypeOK
<1>2. Placed' /\ Ordered' /\ Following'
  BY <1>0 DEF IInv, Placed, Ordered, Increasing, Following
<1>3. Owing'
  BY <1>0 DEF Owing, Got
<1>4. DeliveredOrCause'
  BY <1>0 DEF IInv, DeliveredOrCause, Got, Excused
<1> QED BY <1>1, <1>2, <1>3, <1>4 DEF IInv

-----------------------------------------------------------------------------
(* Redis fails: what is taken from the queue goes into lost. *)
LEMMA LosePublishIInv ==
    ASSUME IInv, NEW p \in Processes, LosePublish(p)
    PROVE  IInv'
<1> DEFINE m0 == Head(out[p])
           cut == {m0.n} \X Others(p)
<1>0. /\ TypeOK /\ Owing
      /\ UNCHANGED <<adapter, at, rooms, wire, log, sent, owed>>
      /\ lost' = lost \cup cut
      /\ out[p] # <<>> /\ out[p] \in Seq(Messages)
      /\ out'[p] = Tail(out[p])
      /\ \A q \in Processes \ {p} : out'[q] = out[q]
  BY DEF IInv, LosePublish, TypeOK
<1>1. /\ Tail(out[p]) \in Seq(Messages)
      /\ m0 \in Messages
      /\ Range(out[p]) = Range(out'[p]) \cup {m0}
      /\ Increasing(out'[p])
  BY <1>0, TailRange, IncreasingTail DEF IInv, Ordered
<1>2. TypeOK'
  <2>1. out' \in [Processes -> Seq(Messages)]
    BY <1>0, <1>1 DEF TypeOK, LosePublish
  <2>2. lost' \subseteq (1 .. MaxMsgs) \X Processes
    <3>1. m0.n \in 1 .. MaxMsgs
      BY <1>1 DEF Messages
    <3> QED BY <1>0, <3>1 DEF TypeOK, Others
  <2>3. adapter[p] = "redis"
    BY <1>0 DEF TypeOK
  <2>4. \A q \in Processes : adapter[q] # "redis" => out'[q] = <<>> /\ wire[q] = <<>>
    BY <1>0, <2>3 DEF TypeOK
  <2> HIDE DEF cut
  <2> QED BY <1>0, <2>1, <2>2, <2>4 DEF TypeOK
<1>a. \A q \in Processes : Range(out'[q]) \subseteq Range(out[q])
  BY <1>0, <1>1
<1> HIDE DEF cut
<1>3. Placed'
  BY <1>0, <1>a DEF IInv, Placed
<1>4. Ordered'
  <2>1. \A q \in Processes : Increasing(out'[q]) /\ Increasing(wire'[q])
    BY <1>0, <1>1 DEF IInv, Ordered
  <2> QED BY <1>0, <2>1 DEF IInv, Ordered, Increasing
<1>5. Following'
  BY <1>0, <1>a DEF IInv, Following
<1>6. Owing'
  BY <1>0 DEF Owing, Got
<1>7. DeliveredOrCause'
  <2> SUFFICES ASSUME NEW s \in Sockets, NEW m \in owed[s]
               PROVE  \/ Got(s, m)'
                      \/ m \in Range(out'[m.by]) \cup Range(wire'[at'[s]])
                      \/ Excused(s, m)'
    BY <1>0 DEF DeliveredOrCause
  <2>1. /\ at[s] \in Processes /\ m \in Messages /\ m.by \in Processes
        /\ m.by = at[s] => Got(s, m)
    BY <1>0, OwedConnected DEF Owing, Messages
  <2>2. \/ Got(s, m)
        \/ m \in Range(out[m.by]) \cup Range(wire[at[s]])
        \/ Excused(s, m)
    BY DEF IInv, DeliveredOrCause
  <2>3. CASE m = m0 /\ m.by = p /\ m.by # at[s]
    <3>1. <<m.n, at[s]>> \in cut
      BY <2>1, <2>3 DEF cut, Others
    <3> QED BY <1>0, <3>1 DEF Excused
  <2>4. CASE m \in Range(out[m.by]) /\ ~(m = m0 /\ m.by = p)
    BY <1>0, <1>1, <2>1, <2>4
  <2>5. CASE Got(s, m) \/ m \in Range(wire[at[s]]) \/ Excused(s, m)
    BY <1>0, <2>5 DEF Got, Excused
  <2> QED BY <2>1, <2>2, <2>3, <2>4, <2>5
<1> QED BY <1>2, <1>3, <1>4, <1>5, <1>6, <1>7 DEF IInv

LEMMA LoseCopyIInv ==
    ASSUME IInv, NEW q \in Processes, LoseCopy(q)
    PROVE  IInv'
<1> DEFINE m0 == Head(wire[q])
<1>0. /\ TypeOK /\ Owing
      /\ UNCHANGED <<adapter, at, rooms, out, log, sent, owed>>
      /\ lost' = lost \cup {<<m0.n, q>>}
      /\ wire[q] # <<>> /\ wire[q] \in Seq(Messages)
      /\ wire'[q] = Tail(wire[q])
      /\ \A r \in Processes \ {q} : wire'[r] = wire[r]
  BY DEF IInv, LoseCopy, TypeOK
<1>1. /\ Tail(wire[q]) \in Seq(Messages)
      /\ m0 \in Messages
      /\ Range(wire[q]) = Range(wire'[q]) \cup {m0}
      /\ Increasing(wire'[q])
  BY <1>0, TailRange, IncreasingTail DEF IInv, Ordered
<1>2. TypeOK'
  <2>1. wire' \in [Processes -> Seq(Messages)]
    BY <1>0, <1>1 DEF TypeOK, LoseCopy
  <2>2. lost' \subseteq (1 .. MaxMsgs) \X Processes
    <3>1. m0.n \in 1 .. MaxMsgs
      BY <1>1 DEF Messages
    <3> QED BY <1>0, <3>1 DEF TypeOK
  <2>3. adapter[q] = "redis"
    BY <1>0 DEF TypeOK
  <2>4. \A r \in Processes : adapter[r] # "redis" => out[r] = <<>> /\ wire'[r] = <<>>
    BY <1>0, <2>3 DEF TypeOK
  <2> QED BY <1>0, <2>1, <2>2, <2>4 DEF TypeOK
<1>a. \A r \in Processes : Range(wire'[r]) \subseteq Range(wire[r])
  BY <1>0, <1>1
<1>3. Placed'
  BY <1>0, <1>a DEF IInv, Placed
<1>4. Ordered'
  <2>1. \A r \in Processes : Increasing(out'[r]) /\ Increasing(wire'[r])
    BY <1>0, <1>1 DEF IInv, Ordered
  <2> QED BY <1>0, <2>1 DEF IInv, Ordered, Increasing
<1>5. Following'
  BY <1>0, <1>a DEF IInv, Following
<1>6. Owing'
  BY <1>0 DEF Owing, Got
<1>7. DeliveredOrCause'
  <2> SUFFICES ASSUME NEW s \in Sockets, NEW m \in owed[s]
               PROVE  \/ Got(s, m)'
                      \/ m \in Range(out'[m.by]) \cup Range(wire'[at'[s]])
                      \/ Excused(s, m)'
    BY <1>0 DEF DeliveredOrCause
  <2>1. at[s] \in Processes
    BY <1>0, OwedConnected
  <2>2. \/ Got(s, m)
        \/ m \in Range(out[m.by]) \cup Range(wire[at[s]])
        \/ Excused(s, m)
    BY DEF IInv, DeliveredOrCause
  <2>3. CASE m = m0 /\ at[s] = q
    BY <1>0, <2>3 DEF Excused
  <2>4. CASE m \in Range(wire[at[s]]) /\ ~(m = m0 /\ at[s] = q)
    BY <1>0, <1>1, <2>1, <2>4
  <2>5. CASE Got(s, m) \/ m \in Range(out[m.by]) \/ Excused(s, m)
    BY <1>0, <2>5 DEF Got, Excused
  <2> QED BY <2>2, <2>3, <2>4, <2>5
<1> QED BY <1>2, <1>3, <1>4, <1>5, <1>6, <1>7 DEF IInv

-----------------------------------------------------------------------------
(* From the queue of p to the wires of the others. *)
LEMMA RelayIInv ==
    ASSUME IInv, NEW p \in Processes, Relay(p)
    PROVE  IInv'
<1> DEFINE m0 == Head(out[p])
<1>0. /\ TypeOK /\ Owing /\ Placed /\ Following
      /\ UNCHANGED <<adapter, at, rooms, log, sent, owed, lost>>
      /\ out[p] # <<>> /\ out[p] \in Seq(Messages)
      /\ out'[p] = Tail(out[p])
      /\ \A q \in Processes \ {p} : out'[q] = out[q]
      /\ \A q \in Processes :
            wire'[q] = IF q # p /\ adapter[q] = "redis"
                       THEN Append(wire[q], m0) ELSE wire[q]
  BY DEF IInv, Relay, TypeOK
<1>1. /\ Tail(out[p]) \in Seq(Messages)
      /\ m0 \in Messages
      /\ Range(out[p]) = Range(out'[p]) \cup {m0}
      /\ Increasing(out'[p])
      /\ \A m \in Range(out'[p]) : Before(m0, m)
  BY <1>0, TailRange, IncreasingTail DEF IInv, Ordered
<1>2. m0.by = p /\ m0.n <= sent
  BY <1>0, <1>1 DEF Placed
<1>3. \A q \in Processes : wire[q] \in Seq(Messages)
  BY <1>0 DEF TypeOK
<1>4. ASSUME NEW q \in Processes
      PROVE  /\ wire'[q] \in Seq(Messages)
             /\ Range(wire'[q]) =
                   IF q # p /\ adapter[q] = "redis"
                   THEN Range(wire[q]) \cup {m0} ELSE Range(wire[q])
             /\ Increasing(wire'[q])
  <2>1. /\ Append(wire[q], m0) \in Seq(Messages)
        /\ Range(Append(wire[q], m0)) = Range(wire[q]) \cup {m0}
    BY <1>1, <1>3, AppendRange
  <2>2. \A k \in Range(wire[q]) : Before(k, m0)
    BY <1>0, <1>1 DEF Following
  <2>3. Increasing(wire[q])
    BY DEF IInv, Ordered
  <2>4. Increasing(Append(wire[q], m0))
    <3> HIDE DEF m0
    <3> QED BY <1>1, <1>3, <2>2, <2>3, IncreasingAppend
  <2> QED BY <1>0, <1>3, <2>1, <2>3, <2>4
<1>a. \A q \in Processes : Range(out'[q]) \subseteq Range(out[q])
  BY <1>0, <1>1
<1> HIDE DEF m0
<1>5. TypeOK'
  <2>1. out' \in [Processes -> Seq(Messages)]
    BY <1>0, <1>1 DEF TypeOK, Relay
  <2>2. wire' \in [Processes -> Seq(Messages)]
    BY <1>4 DEF Relay
  <2>3. adapter[p] = "redis"
    BY <1>0 DEF TypeOK
  <2>4. \A q \in Processes : adapter[q] # "redis" => out'[q] = <<>> /\ wire'[q] = <<>>
    BY <1>0, <2>3 DEF TypeOK
  <2> QED BY <1>0, <2>1, <2>2, <2>4 DEF TypeOK
<1>6. Placed'
  <2>1. \A q \in Processes : \A m \in Range(out'[q]) : m.by = q /\ m.n <= sent
    BY <1>0, <1>a DEF Placed
  <2>2. ASSUME NEW q \in Processes, NEW m \in Range(wire'[q])
        PROVE  m.by # q /\ m.n <= sent
    <3>1. m \in Range(wire[q]) \/ (m = m0 /\ q # p)
      BY <1>4
    <3> QED BY <1>0, <1>2, <3>1 DEF Placed
  <2> QED BY <1>0, <2>1, <2>2 DEF Placed
<1>7. Ordered'
  <2>1. \A q \in Processes : Increasing(out'[q]) /\ Increasing(wire'[q])
    BY <1>0, <1>1, <1>4 DEF IInv, Ordered
  <2> QED BY <1>0, <2>1 DEF IInv, Ordered, Increasing
<1>8. Following'
  <2>1. ASSUME NEW r \in Processes, NEW q \in Processes,
               NEW k \in Range(wire'[q]), NEW m \in Range(out'[r])
        PROVE  Before(k, m)
    <3>1. CASE k \in Range(wire[q])
      BY <1>0, <1>a, <3>1 DEF Following
    <3>2. CASE k = m0 /\ r = p
      BY <1>1, <3>2
    <3>3. CASE k = m0 /\ r # p
      BY <1>0, <1>2, <3>3 DEF Placed, Before
    <3> QED BY <1>4, <3>1, <3>2, <3>3
  <2>2. ASSUME NEW s \in Sockets, NEW r \in Processes, at[s] # r,
               NEW k \in Range(log[s]), NEW m \in Range(out'[r])
        PROVE  Before(k, m)
    BY <1>0, <1>a, <2>2 DEF Following
  <2>3. ASSUME NEW s \in Sockets, NEW r \in Processes, at[s] = r,
               NEW k \in Range(log[s]), NEW m \in Range(wire'[r])
        PROVE  Before(k, m)
    <3>1. CASE m \in Range(wire[r])
      BY <1>0, <2>3, <3>1 DEF Following
    <3>2. CASE m = m0 /\ r # p
      BY <1>0, <1>1, <2>3, <3>2 DEF Following
    <3> QED BY <1>4, <3>1, <3>2
  <2> QED BY <1>0, <2>1, <2>2, <2>3 DEF Following, Before
<1>9. Owing'
  BY <1>0 DEF Owing, Got
<1>10. DeliveredOrCause'
  <2> SUFFICES ASSUME NEW s \in Sockets, NEW m \in owed[s]
               PROVE  \/ Got(s, m)'
                      \/ m \in Range(out'[m.by]) \cup Range(wire'[at'[s]])
                      \/ Excused(s, m)'
    BY <1>0 DEF DeliveredOrCause
  <2>1. /\ at[s] \in Processes /\ m \in Messages /\ m.by \in Processes
        /\ m.by = at[s] => Got(s, m)
    BY <1>0, OwedConnected DEF Owing, Messages
  <2>2. \/ Got(s, m)
        \/ m \in Range(out[m.by]) \cup Range(wire[at[s]])
        \/ Excused(s, m)
    BY DEF IInv, DeliveredOrCause
  <2>3. CASE m = m0 /\ at[s] # p /\ adapter[at[s]] = "redis"
    BY <1>0, <1>4, <2>1, <2>3
  <2>4. CASE adapter[at[s]] # "redis"
    BY <1>0, <2>4 DEF Excused
  <2>5. CASE m \in Range(out[m.by]) /\ m # m0
    BY <1>0, <1>1, <2>1, <2>5
  <2>6. CASE Got(s, m) \/ m \in Range(wire[at[s]]) \/ Excused(s, m)
    BY <1>0, <1>4, <2>1, <2>6 DEF Got, Excused
  <2> QED BY <1>2, <2>1, <2>2, <2>3, <2>4, <2>5, <2>6
<1> QED BY <1>5, <1>6, <1>7, <1>8, <1>9, <1>10 DEF IInv

(* From the wire to the logs of the members. *)
LEMMA ReceiveIInv ==
    ASSUME IInv, NEW q \in Processes, Receive(q)
    PROVE  IInv'
<1> DEFINE m0 == Head(wire[q])
<1>0. /\ TypeOK /\ Owing /\ Placed /\ Following
      /\ UNCHANGED <<adapter, at, rooms, out, sent, owed, lost>>
      /\ wire[q] # <<>> /\ wire[q] \in Seq(Messages)
      /\ wire'[q] = Tail(wire[q])
      /\ \A r \in Processes \ {q} : wire'[r] = wire[r]
      /\ \A t \in Sockets :
            log'[t] = IF t \in Members(q, m0) THEN Append(log[t], m0) ELSE log[t]
  BY DEF IInv, Receive, Deliver, TypeOK
<1>1. /\ Tail(wire[q]) \in Seq(Messages)
      /\ m0 \in Messages
      /\ Range(wire[q]) = Range(wire'[q]) \cup {m0}
      /\ Increasing(wire'[q])
      /\ \A m \in Range(wire'[q]) : Before(m0, m)
  BY <1>0, TailRange, IncreasingTail DEF IInv, Ordered
<1>2. m0.by # q /\ m0.n <= sent
  BY <1>0, <1>1 DEF Placed
<1>3. \A t \in Sockets : log[t] \in Seq(Messages)
  BY <1>0 DEF TypeOK
<1>4. \A t \in Members(q, m0) : at[t] = q
  BY DEF Members
<1>5. ASSUME NEW t \in Sockets
      PROVE  /\ log'[t] \in Seq(Messages)
             /\ Range(log'[t]) = IF t \in Members(q, m0)
                                 THEN Range(log[t]) \cup {m0} ELSE Range(log[t])
             /\ Increasing(log'[t])
  <2>1. /\ Append(log[t], m0) \in Seq(Messages)
        /\ Range(Append(log[t], m0)) = Range(log[t]) \cup {m0}
    BY <1>1, <1>3, AppendRange
  <2>2. t \in Members(q, m0) => \A k \in Range(log[t]) : Before(k, m0)
    BY <1>0, <1>1, <1>4 DEF Following
  <2>3. Increasing(log[t])
    BY DEF IInv, Ordered
  <2>4. t \in Members(q, m0) => Increasing(Append(log[t], m0))
    <3> HIDE DEF m0
    <3> QED BY <1>1, <1>3, <2>2, <2>3, IncreasingAppend
  <2> QED BY <1>0, <1>3, <2>1, <2>3, <2>4
<1>a. \A r \in Processes : Range(wire'[r]) \subseteq Range(wire[r])
  BY <1>0, <1>1
<1> HIDE DEF m0
<1>6. TypeOK'
  <2>1. wire' \in [Processes -> Seq(Messages)]
    BY <1>0, <1>1 DEF TypeOK, Receive
  <2>2. log' \in [Sockets -> Seq(Messages)]
    BY <1>5 DEF Receive, Deliver
  <2>3. adapter[q] = "redis"
    BY <1>0 DEF TypeOK
  <2>4. \A r \in Processes : adapter[r] # "redis" => out[r] = <<>> /\ wire'[r] = <<>>
    BY <1>0, <2>3 DEF TypeOK
  <2> QED BY <1>0, <2>1, <2>2, <2>4 DEF TypeOK
<1>7. Placed'
  <2>1. \A r \in Processes : \A m \in Range(wire'[r]) : m.by # r /\ m.n <= sent
    BY <1>0, <1>a DEF Placed
  <2>2. ASSUME NEW t \in Sockets, NEW m \in Range(log'[t])
        PROVE  m.n <= sent
    <3>1. m \in Range(log[t]) \/ m = m0
      BY <1>5
    <3> QED BY <1>0, <1>2, <3>1 DEF Placed
  <2> QED BY <1>0, <2>1, <2>2 DEF Placed
<1>8. Ordered'
  <2>1. \A r \in Processes : Increasing(out'[r]) /\ Increasing(wire'[r])
    BY <1>0, <1>1 DEF IInv, Ordered
  <2> QED BY <1>5, <2>1 DEF Ordered, Increasing
<1>9. Following'
  <2>1. ASSUME NEW p \in Processes, NEW r \in Processes,
               NEW k \in Range(wire'[r]), NEW m \in Range(out[p])
        PROVE  Before(k, m)
    BY <1>0, <1>a DEF Following
  <2>2. ASSUME NEW s \in Sockets, NEW p \in Processes, at[s] # p,
               NEW k \in Range(log'[s]), NEW m \in Range(out[p])
        PROVE  Before(k, m)
    <3>1. CASE k \in Range(log[s])
      BY <1>0, <2>2, <3>1 DEF Following
    <3>2. CASE k = m0
      BY <1>0, <1>1, <3>2 DEF Following
    <3> QED BY <1>5, <3>1, <3>2
  <2>3. ASSUME NEW s \in Sockets, NEW p \in Processes, at[s] = p,
               NEW k \in Range(log'[s]), NEW m \in Range(wire'[p])
        PROVE  Before(k, m)
    <3>1. CASE k \in Range(log[s])
      BY <1>0, <1>a, <2>3, <3>1 DEF Following
    <3>2. CASE k = m0 /\ s \in Members(q, m0)
      BY <1>1, <1>4, <2>3, <3>2
    <3> QED BY <1>5, <3>1, <3>2
  <2> QED BY <1>0, <2>1, <2>2, <2>3 DEF Following, Before
<1>10. Owing'
  <2>1. \A s \in Sockets : at[s] = None => log'[s] = <<>>
    BY <1>0, <1>4, NoneIsNoProcess DEF Owing, NoneIsNoProcess
  <2>2. \A s \in Sockets : \A m \in owed[s] : Got(s, m) => Got(s, m)'
    BY <1>5 DEF Got
  <2> QED BY <1>0, <2>1, <2>2 DEF Owing
<1>11. DeliveredOrCause'
  <2> SUFFICES ASSUME NEW s \in Sockets, NEW m \in owed[s]
               PROVE  \/ Got(s, m)'
                      \/ m \in Range(out'[m.by]) \cup Range(wire'[at'[s]])
                      \/ Excused(s, m)'
    BY <1>0 DEF DeliveredOrCause
  <2>1. at[s] \in Processes /\ m.room \in rooms[s]
    BY <1>0, OwedConnected DEF Owing
  <2>2. \/ Got(s, m)
        \/ m \in Range(out[m.by]) \cup Range(wire[at[s]])
        \/ Excused(s, m)
    BY DEF IInv, DeliveredOrCause
  <2>3. CASE m = m0 /\ at[s] = q
    <3>1. s \in Members(q, m0)
      BY <2>1, <2>3 DEF Members
    <3> QED BY <1>5, <2>3, <3>1 DEF Got
  <2>4. CASE m \in Range(wire[at[s]]) /\ ~(m = m0 /\ at[s] = q)
    BY <1>0, <1>1, <2>1, <2>4
  <2>5. CASE Got(s, m) \/ m \in Range(out[m.by]) \/ Excused(s, m)
    BY <1>0, <1>5, <2>5 DEF Got, Excused
  <2> QED BY <2>2, <2>3, <2>4, <2>5
<1> QED BY <1>6, <1>7, <1>8, <1>9, <1>10, <1>11 DEF IInv

(* Into the logs of the sender's process, and the queue of it or lost. *)
LEMMA BroadcastIInv ==
    ASSUME IInv, NEW s \in Sockets, NEW room \in Rooms, Broadcast(s, room)
    PROVE  IInv'
<1> DEFINE p == at[s]
           m0 == [n |-> sent + 1, room |-> room, by |-> p]
           cut == {m0.n} \X Others(p)
<1>0. /\ TypeOK /\ Owing /\ Placed /\ Following
      /\ UNCHANGED <<adapter, at, rooms, wire>>
      /\ p # None /\ sent < MaxMsgs /\ sent' = sent + 1
      /\ \A t \in Sockets :
            log'[t] = IF t \in Members(p, m0) THEN Append(log[t], m0) ELSE log[t]
      /\ \A t \in Sockets :
            owed'[t] = IF room \in rooms[t] THEN owed[t] \cup {m0} ELSE owed[t]
  BY DEF IInv, Broadcast, Emit, Deliver
<1>1. p \in Processes
  BY <1>0 DEF TypeOK
<1>2. m0 \in Messages /\ m0.by = p /\ m0.n = sent + 1 /\ m0.room = room /\ sent \in Nat
  <2>1. sent \in Nat /\ sent + 1 \in 1 .. MaxMsgs
    BY <1>0, MaxMsgsNat DEF TypeOK, MaxMsgsNat
  <2> QED BY <1>1, <2>1 DEF Messages
<1>3. /\ adapter[p] = "redis" => out'[p] = Append(out[p], m0) /\ lost' = lost
      /\ adapter[p] # "redis" => out' = out /\ lost' = lost \cup cut
      /\ \A q \in Processes \ {p} : out'[q] = out[q]
  BY <1>0, <1>1 DEF Broadcast, TypeOK
<1>a. /\ \A q \in Processes : out[q] \in Seq(Messages)
      /\ \A t \in Sockets : log[t] \in Seq(Messages)
  BY <1>0 DEF TypeOK
<1>b. \A q \in Processes : \A k \in Range(out[q]) \cup Range(wire[q]) : k \in Messages
  BY <1>0 DEF TypeOK, Range
<1>c. \A t \in Sockets : \A k \in Range(log[t]) : k \in Messages
  BY <1>0 DEF TypeOK, Range
<1> HIDE DEF m0, p, cut
<1>d. ASSUME NEW k \in Messages, k.n <= sent
      PROVE  Before(k, m0)
  BY <1>2, <1>d DEF Before, Messages
<1>4. ASSUME NEW t \in Sockets
      PROVE  /\ log'[t] \in Seq(Messages)
             /\ Range(log'[t]) = IF t \in Members(p, m0)
                                 THEN Range(log[t]) \cup {m0} ELSE Range(log[t])
             /\ Increasing(log'[t])
  <2>1. /\ Append(log[t], m0) \in Seq(Messages)
        /\ Range(Append(log[t], m0)) = Range(log[t]) \cup {m0}
    BY <1>2, <1>a, AppendRange
  <2>2. \A k \in Range(log[t]) : Before(k, m0)
    BY <1>0, <1>c, <1>d DEF Placed
  <2>3. Increasing(log[t])
    BY DEF IInv, Ordered
  <2>4. Increasing(Append(log[t], m0))
    BY <1>2, <1>a, <2>2, <2>3, IncreasingAppend
  <2> QED BY <1>0, <1>a, <2>1, <2>3, <2>4
<1>5. /\ Append(out[p], m0) \in Seq(Messages)
      /\ Range(Append(out[p], m0)) = Range(out[p]) \cup {m0}
  BY <1>1, <1>2, <1>a, AppendRange
<1>6. Increasing(Append(out[p], m0))
  <2>1. \A k \in Range(out[p]) : Before(k, m0)
    BY <1>0, <1>1, <1>b, <1>d DEF Placed
  <2>2. Increasing(out[p])
    BY <1>1 DEF IInv, Ordered
  <2> QED BY <1>1, <1>2, <1>a, <2>1, <2>2, IncreasingAppend
<1>7. \A q \in Processes :
         \/ out'[q] = out[q]
         \/ q = p /\ adapter[p] = "redis" /\ out'[q] = Append(out[p], m0)
  BY <1>1, <1>3
<1>8. \A q \in Processes :
         /\ Range(out[q]) \subseteq Range(out'[q])
         /\ \A m \in Range(out'[q]) : m \in Range(out[q]) \/ (m = m0 /\ q = p)
  BY <1>5, <1>7
<1>e. \A t \in Members(p, m0) : t \in Sockets /\ at[t] = p
  BY DEF Members
<1>f. \A t \in Sockets :
         /\ Range(log[t]) \subseteq Range(log'[t])
         /\ \A k \in Range(log'[t]) : k \in Range(log[t]) \/ (k = m0 /\ at[t] = p)
  BY <1>4, <1>e
<1>9. TypeOK'
  <2>1. out' \in [Processes -> Seq(Messages)]
    <3>1. CASE adapter[p] = "redis"
      <4>1. out' = [out EXCEPT ![p] = Append(@, m0)]
        BY <3>1 DEF Broadcast, p, m0
      <4> QED BY <1>0, <1>1, <1>5, <4>1 DEF TypeOK
    <3>2. CASE adapter[p] # "redis"
      BY <1>0, <1>3, <3>2 DEF TypeOK
    <3> QED BY <3>1, <3>2
  <2>2. log' \in [Sockets -> Seq(Messages)]
    BY <1>4 DEF Broadcast, Emit, Deliver
  <2>3. owed' \in [Sockets -> SUBSET Messages]
    <3>1. ASSUME NEW t \in Sockets PROVE owed'[t] \in SUBSET Messages
      <4>1. owed[t] \in SUBSET Messages
        BY <1>0 DEF TypeOK
      <4>2. owed'[t] = owed[t] \cup {m0} \/ owed'[t] = owed[t]
        BY <1>0
      <4> QED BY <1>2, <4>1, <4>2
    <3> QED BY <3>1 DEF Broadcast
  <2>4. lost' \subseteq (1 .. MaxMsgs) \X Processes
    <3>1. cut \subseteq (1 .. MaxMsgs) \X Processes
      BY <1>2 DEF cut, Others, Messages
    <3> QED BY <1>0, <1>3, <3>1 DEF TypeOK
  <2>5. sent' \in 0 .. MaxMsgs
    BY <1>0, <1>2, MaxMsgsNat DEF MaxMsgsNat
  <2>6. \A q \in Processes : adapter[q] # "redis" => out'[q] = <<>> /\ wire[q] = <<>>
    BY <1>0, <1>3, <1>7 DEF TypeOK
  <2> QED BY <1>0, <2>1, <2>2, <2>3, <2>4, <2>5, <2>6 DEF TypeOK
<1>10. Placed'
  <2>1. \A k \in Messages : k.n <= sent => k.n <= sent'
    BY <1>0, <1>2 DEF Messages
  <2>2. \A q \in Processes : \A m \in Range(out'[q]) : m.by = q /\ m.n <= sent'
    BY <1>0, <1>2, <1>8, <1>b, <2>1 DEF Placed
  <2>3. \A q \in Processes : \A m \in Range(wire[q]) : m.by # q /\ m.n <= sent'
    BY <1>0, <1>b, <2>1 DEF Placed
  <2>4. \A t \in Sockets : \A m \in Range(log'[t]) : m.n <= sent'
    BY <1>0, <1>2, <1>f, <1>c, <2>1 DEF Placed
  <2> QED BY <1>0, <2>2, <2>3, <2>4 DEF Placed
<1>11. Ordered'
  <2>1. \A q \in Processes : Increasing(out'[q]) /\ Increasing(wire[q])
    BY <1>6, <1>7 DEF IInv, Ordered
  <2> QED BY <1>0, <1>4, <2>1 DEF Ordered, Increasing
<1>12. Following'
  <2>1. ASSUME NEW r \in Processes, NEW q \in Processes,
               NEW k \in Range(wire[q]), NEW m \in Range(out'[r])
        PROVE  Before(k, m)
    BY <1>0, <1>8, <1>b, <1>d DEF Following, Placed
  <2>2. ASSUME NEW t \in Sockets, NEW r \in Processes, at[t] # r,
               NEW k \in Range(log'[t]), NEW m \in Range(out'[r])
        PROVE  Before(k, m)
    <3>1. CASE k \in Range(log[t]) /\ m \in Range(out[r])
      BY <1>0, <2>2, <3>1 DEF Following
    <3>2. CASE k \in Range(log[t]) /\ m = m0
      BY <1>0, <1>c, <1>d, <3>2 DEF Placed
    <3>3. CASE k = m0 /\ at[t] = p
      <4>1. m \in Range(out[r]) /\ m.by = r
        BY <1>0, <1>8, <2>2, <3>3 DEF Placed
      <4> QED BY <1>2, <2>2, <3>3, <4>1 DEF Before
    <3> QED BY <1>8, <1>f, <3>1, <3>2, <3>3
  <2>3. ASSUME NEW t \in Sockets, NEW r \in Processes, at[t] = r,
               NEW k \in Range(log'[t]), NEW m \in Range(wire[r])
        PROVE  Before(k, m)
    <3>1. CASE k \in Range(log[t])
      BY <1>0, <2>3, <3>1 DEF Following
    <3>2. CASE k = m0 /\ at[t] = p
      BY <1>0, <1>2, <2>3, <3>2 DEF Placed, Before
    <3> QED BY <1>f, <3>1, <3>2
  <2> QED BY <1>0, <2>1, <2>2, <2>3 DEF Following, Before
<1>g. ASSUME NEW t \in Sockets, room \in rooms[t], at[t] = p
      PROVE  m0 \in Range(log'[t])
  <2>1. t \in Members(p, m0)
    BY <1>2, <1>g DEF Members
  <2> QED BY <1>4, <2>1
<1>13. Owing'
  <2>1. ASSUME NEW t \in Sockets, at[t] = None PROVE log'[t] = <<>>
    BY <1>0, <1>e, <2>1 DEF Owing
  <2>2. ASSUME NEW t \in Sockets, NEW m \in owed'[t]
        PROVE  m.room \in rooms[t] /\ (m.by = at[t] => m \in Range(log'[t]))
    <3>1. CASE m \in owed[t]
      BY <1>0, <1>f, <3>1 DEF Owing, Got
    <3>2. CASE m = m0 /\ room \in rooms[t]
      BY <1>2, <1>g, <3>2
    <3> QED BY <1>0, <3>1, <3>2
  <2> QED BY <1>0, <2>1, <2>2 DEF Owing, Got
<1>14. DeliveredOrCause'
  <2> SUFFICES ASSUME NEW t \in Sockets, NEW m \in owed'[t]
               PROVE  \/ m \in Range(log'[t])
                      \/ m \in Range(out'[m.by]) \cup Range(wire[at[t]])
                      \/ <<m.n, at[t]>> \in lost' \/ adapter[at[t]] # "redis"
    BY <1>0 DEF DeliveredOrCause, Got, Excused
  <2>1. CASE m \in owed[t]
    <3>1. \/ m \in Range(log[t])
          \/ m \in Range(out[m.by]) \cup Range(wire[at[t]])
          \/ <<m.n, at[t]>> \in lost \/ adapter[at[t]] # "redis"
      BY <2>1 DEF IInv, DeliveredOrCause, Got, Excused
    <3>2. m.by \in Processes /\ lost \subseteq lost'
      BY <1>0, <1>3, <2>1, OwedConnected DEF Messages
    <3> QED BY <1>8, <1>f, <3>1, <3>2
  <2>2. CASE m = m0 /\ room \in rooms[t] /\ at[t] = p
    BY <1>g, <2>2
  <2>3. CASE m = m0 /\ room \in rooms[t] /\ at[t] # p /\ adapter[p] = "redis"
    BY <1>2, <1>3, <1>5, <2>3
  <2>4. CASE m = m0 /\ room \in rooms[t] /\ at[t] # p /\ adapter[p] # "redis"
    <3>1. at[t] \in Processes
      BY <1>0, <2>4 DEF TypeOK
    <3>2. <<m.n, at[t]>> \in cut
      BY <2>4, <3>1 DEF cut, Others
    <3> QED BY <1>3, <2>4, <3>2
  <2> QED BY <1>0, <2>1, <2>2, <2>3, <2>4
<1> QED BY <1>9, <1>10, <1>11, <1>12, <1>13, <1>14 DEF IInv

LEMMA StutterIInv ==
    ASSUME IInv, UNCHANGED vars
    PROVE  IInv'
<1>1. TypeOK' /\ Placed' /\ Ordered'
  BY DEF IInv, vars, TypeOK, Placed, Ordered, Increasing
<1>2. Following' /\ Owing' /\ DeliveredOrCause'
  BY DEF IInv, vars, Following, Owing, DeliveredOrCause, Got, Excused
<1> QED BY <1>1, <1>2 DEF IInv

LEMMA NextIInv == IInv /\ [Next]_vars => IInv'
<1> SUFFICES ASSUME IInv, [Next]_vars PROVE IInv'
  OBVIOUS
<1>1. ASSUME NEW p \in Processes, NEW mode \in {"memory", "redis"}, Boot(p, mode)
      PROVE  IInv'
  BY <1>1, BootIInv
<1>2. ASSUME NEW p \in Processes, Stop(p) PROVE IInv'
  BY <1>2, StopIInv
<1>3. ASSUME NEW p \in Processes, Relay(p) PROVE IInv'
  BY <1>3, RelayIInv
<1>4. ASSUME NEW p \in Processes, LosePublish(p) PROVE IInv'
  BY <1>4, LosePublishIInv
<1>5. ASSUME NEW p \in Processes, Receive(p) PROVE IInv'
  BY <1>5, ReceiveIInv
<1>6. ASSUME NEW p \in Processes, LoseCopy(p) PROVE IInv'
  BY <1>6, LoseCopyIInv
<1>7. ASSUME NEW s \in Sockets, NEW p \in Processes, Connect(s, p) PROVE IInv'
  BY <1>7, ConnectIInv
<1>8. ASSUME NEW s \in Sockets, Disconnect(s) PROVE IInv'
  BY <1>8, DisconnectIInv
<1>9. ASSUME NEW s \in Sockets, NEW room \in Rooms, Subscribe(s, room) PROVE IInv'
  BY <1>9, SubscribeIInv
<1>10. ASSUME NEW s \in Sockets, NEW room \in Rooms, Unsubscribe(s, room) PROVE IInv'
  BY <1>10, UnsubscribeIInv
<1>11. ASSUME NEW s \in Sockets, NEW room \in Rooms, Broadcast(s, room) PROVE IInv'
  BY <1>11, BroadcastIInv
<1>12. CASE UNCHANGED vars
  BY <1>12, StutterIInv
<1> QED BY <1>1, <1>2, <1>3, <1>4, <1>5, <1>6, <1>7, <1>8, <1>9, <1>10, <1>11, <1>12
        DEF Next

(* Everything the theorems below say, at once. *)
THEOREM Invariant == Spec => []IInv
<1>1. Init => IInv
  BY InitIInv
<1>2. IInv /\ [Next]_vars => IInv'
  BY NextIInv
<1> QED BY <1>1, <1>2, PTL DEF Spec

-----------------------------------------------------------------------------
(* Whatever processes, clients and Redis do, the variables have their      *)
(* types, only connected sockets are in rooms, and only processes with the *)
(* adapter queue publications or receive them.                             *)
THEOREM TypeCorrect == Spec => []TypeOK
<1>1. IInv => TypeOK
  BY DEF IInv
<1> QED BY <1>1, Invariant, PTL

(* On one connection the notifications that one process broadcast come     *)
(* once each, in the order in which handleBroadcast emitted them.          *)
THEOREM InOrder == Spec => []InOrderOnce
<1>1. IInv => InOrderOnce
  BY DEF IInv, Ordered, Increasing, Before, InOrderOnce
<1> QED BY <1>1, Invariant, PTL

(* A notification that a member of its room is owed has been sent to it,   *)
(* is on its way, or a process without the adapter or a failure of Redis   *)
(* or of the sender's process explains why not.                            *)
THEOREM Explained == Spec => []DeliveredOrCause
<1>1. IInv => DeliveredOrCause
  BY DEF IInv
<1> QED BY <1>1, Invariant, PTL

-----------------------------------------------------------------------------
(* The refinement: what is in the air to a process before and after a step *)
(* of the two hops.                                                        *)

LEMMA InAir ==
    ASSUME NEW q \in Processes, NEW m
    PROVE  /\ m \in Air[q] <=>
                 m \in Range(wire[q]) \/ \E p \in Processes : p # q /\ m \in Range(out[p])
           /\ m \in Air'[q] <=>
                 m \in Range(wire'[q]) \/ \E p \in Processes : p # q /\ m \in Range(out'[p])
BY DEF Air, Others

LEMMA AirShrinks ==
    ASSUME \A q \in Processes : /\ Range(out'[q]) \subseteq Range(out[q])
                                /\ Range(wire'[q]) \subseteq Range(wire[q])
    PROVE  \A q \in Processes : Air'[q] \subseteq Air[q]
<1> SUFFICES ASSUME NEW q \in Processes, NEW m, m \in Air'[q]
             PROVE  m \in Air[q]
  OBVIOUS
<1> QED BY InAir

LEMMA AirUnchanged ==
    ASSUME UNCHANGED <<out, wire>>
    PROVE  Air' = Air
BY DEF Air, Others

LEMMA StepConnect ==
    ASSUME IInv, NEW s \in Sockets, NEW p \in Processes, Connect(s, p)
    PROVE  Multicast!Next
<1>1. log' = [log EXCEPT ![s] = <<>>]
  BY DEF IInv, TypeOK, Owing, Connect
<1>2. Air' = Air
  BY AirUnchanged DEF Connect
<1>3. Multicast!Open(s, p, Home[s])
  BY <1>1, <1>2 DEF Connect, Multicast!Open
<1>4. Home[s] \in Rooms /\ sent' = sent
  BY DEF Rooms, Connect
<1> QED BY <1>3, <1>4 DEF Multicast!Membership, Multicast!Next

LEMMA StepDisconnect ==
    ASSUME NEW s \in Sockets, Disconnect(s)
    PROVE  Multicast!Next
<1>1. Air' = Air
  BY AirUnchanged DEF Disconnect
<1>2. Multicast!Close({s})
  BY <1>1 DEF Disconnect, Close, LeaveAll, Multicast!Close
<1> QED BY <1>2 DEF Disconnect, Multicast!Membership, Multicast!Next

(* A process ends with what it had queued, and is sent nothing more. *)
LEMMA StepStop ==
    ASSUME IInv, NEW p \in Processes, Stop(p)
    PROVE  Multicast!Next
<1> DEFINE gone == {s \in Sockets : at[s] = p}
<1>1. \A q \in Processes :
         \/ out'[q] = out[q] /\ wire'[q] = wire[q]
         \/ out'[q] = <<>> /\ wire'[q] = <<>>
  BY DEF IInv, TypeOK, Stop
<1>2. \A q \in Processes : Air'[q] \subseteq Air[q]
  <2>1. \A q \in Processes : /\ Range(out'[q]) \subseteq Range(out[q])
                             /\ Range(wire'[q]) \subseteq Range(wire[q])
    BY <1>1, EmptyRange
  <2> QED BY <2>1, AirShrinks
<1>3. Multicast!Close(gone)
  BY <1>2 DEF Stop, Close, LeaveAll, Multicast!Close
<1>4. gone \in SUBSET Sockets /\ sent' = sent
  BY DEF Stop
<1> HIDE DEF gone
<1> QED BY <1>3, <1>4 DEF Multicast!Membership, Multicast!Next

LEMMA StepRooms ==
    ASSUME NEW s \in Sockets, NEW room \in Rooms,
           Subscribe(s, room) \/ Unsubscribe(s, room)
    PROVE  Multicast!Next
<1>1. Air' = Air
  BY AirUnchanged DEF Subscribe, Unsubscribe
<1>2. Multicast!Enter(s, room) \/ Multicast!Exit(s, room)
  BY DEF Subscribe, Unsubscribe, Multicast!Enter, Multicast!Exit
<1>3. UNCHANGED <<at, log, sent>>
  BY DEF Subscribe, Unsubscribe
<1> QED BY <1>1, <1>2, <1>3 DEF Multicast!Membership, Multicast!Next

(* From one hop to the next, or lost: to the receivers it is the same, it  *)
(* was in the air and may or may not be so now.                            *)
LEMMA StepHop ==
    ASSUME IInv, NEW p \in Processes, Relay(p) \/ LosePublish(p) \/ LoseCopy(p)
    PROVE  Multicast!Next
<1>1. UNCHANGED <<at, rooms, log, sent>>
  BY DEF Relay, LosePublish, LoseCopy
<1>2. \A q \in Processes : Air'[q] \subseteq Air[q]
  <2>0. \A q \in Processes : out[q] \in Seq(Messages) /\ wire[q] \in Seq(Messages)
    BY DEF IInv, TypeOK
  <2>1. CASE Relay(p)
    <3>1. /\ Range(out[p]) = Range(Tail(out[p])) \cup {Head(out[p])}
          /\ Head(out[p]) \in Messages
      BY <2>0, <2>1, TailRange DEF Relay
    <3>2. \A q \in Processes : Range(out'[q]) \subseteq Range(out[q])
      BY <2>1, <3>1 DEF Relay, IInv, TypeOK
    <3>3. ASSUME NEW q \in Processes
          PROVE  \/ Range(wire'[q]) = Range(wire[q])
                 \/ q # p /\ Range(wire'[q]) = Range(wire[q]) \cup {Head(out[p])}
      <4>1. Range(Append(wire[q], Head(out[p]))) = Range(wire[q]) \cup {Head(out[p])}
        BY <2>0, <3>1, AppendRange
      <4>2. wire'[q] = wire[q] \/ (q # p /\ wire'[q] = Append(wire[q], Head(out[p])))
        BY <2>1 DEF Relay
      <4> QED BY <4>1, <4>2
    <3>4. SUFFICES ASSUME NEW q \in Processes, NEW m, m \in Air'[q]
                   PROVE  m \in Air[q]
      OBVIOUS
    <3>5. CASE m \in Range(wire'[q])
      BY <3>1, <3>3, <3>5, InAir
    <3>6. CASE \E r \in Processes : r # q /\ m \in Range(out'[r])
      BY <3>2, <3>6, InAir
    <3> QED BY <3>4, <3>5, <3>6, InAir
  <2>2. CASE LosePublish(p)
    <3>1. Range(Tail(out[p])) \subseteq Range(out[p])
      BY <2>0, <2>2, TailRange DEF LosePublish
    <3>2. \A q \in Processes : /\ Range(out'[q]) \subseteq Range(out[q])
                               /\ Range(wire'[q]) \subseteq Range(wire[q])
      BY <2>2, <3>1 DEF LosePublish, IInv, TypeOK
    <3> QED BY <3>2, AirShrinks
  <2>3. CASE LoseCopy(p)
    <3>1. Range(Tail(wire[p])) \subseteq Range(wire[p])
      BY <2>0, <2>3, TailRange DEF LoseCopy
    <3>2. \A q \in Processes : /\ Range(out'[q]) \subseteq Range(out[q])
                               /\ Range(wire'[q]) \subseteq Range(wire[q])
      BY <2>3, <3>1 DEF LoseCopy, IInv, TypeOK
    <3> QED BY <3>2, AirShrinks
  <2> QED BY <2>1, <2>2, <2>3
<1>3. Multicast!Vanish
  BY <1>1, <1>2 DEF Multicast!Vanish
<1> QED BY <1>1, <1>3 DEF Multicast!Traffic, Multicast!Next

(* The head of the wire is the earliest of its sender in the air, because  *)
(* what the sender has still queued is later, and it is there only once.   *)
LEMMA StepReceive ==
    ASSUME IInv, NEW q \in Processes, Receive(q)
    PROVE  Multicast!Next
<1> DEFINE m == Head(wire[q])
<1>1. /\ wire[q] \in Seq(Messages) /\ wire[q] # <<>>
      /\ \A r \in Processes \ {q} : wire'[r] = wire[r]
      /\ wire'[q] = Tail(wire[q])
      /\ UNCHANGED <<at, rooms, out, sent>>
  BY DEF IInv, TypeOK, Receive
<1>2. /\ m \in Messages
      /\ Range(wire[q]) = Range(Tail(wire[q])) \cup {m}
  BY <1>1, TailRange
<1>3. \A k \in Range(Tail(wire[q])) : Before(m, k)
  BY <1>1, IncreasingTail DEF IInv, Ordered
<1>4. m \in Air[q]
  BY <1>2, InAir
<1>5. m.n \in Nat
  BY <1>2 DEF Messages
<1>6. \A r \in Processes : \A k \in Range(out[r]) : Before(m, k)
  <2>1. m \in Range(wire[q])
    BY <1>2
  <2> HIDE DEF m
  <2> QED BY <2>1 DEF IInv, Following
<1> HIDE DEF m
<1>7. \A k \in Air[q] : k.by = m.by => m.n <= k.n
  <2> SUFFICES ASSUME NEW k, k \in Air[q], k.by = m.by
               PROVE  m.n <= k.n
    OBVIOUS
  <2>1. k = m \/ Before(m, k)
    BY <1>2, <1>3, <1>6, InAir
  <2>2. k \in Messages
    <3>1. \A r \in Processes : \A x \in Range(out[r]) \cup Range(wire[r]) : x \in Messages
      BY DEF IInv, TypeOK, Range
    <3> QED BY <3>1, InAir
  <2>3. k.n \in Nat
    BY <2>2 DEF Messages
  <2> QED BY <1>5, <2>1, <2>3 DEF Before
<1>8. m \notin Air'[q]
  <2>1. ~ Before(m, m)
    BY <1>5 DEF Before
  <2>2. m \notin Range(wire'[q])
    BY <1>1, <1>3, <2>1
  <2>3. \A r \in Processes : m \notin Range(out'[r])
    BY <1>1, <1>6, <2>1
  <2> QED BY <2>2, <2>3, InAir
<1>9. Air' = [Air EXCEPT ![q] = @ \ {m}]
  <2>1. ASSUME NEW r \in Processes, r # q PROVE Air'[r] = Air[r]
    BY <1>1, <2>1 DEF Air
  <2>2. Air'[q] = Air[q] \ {m}
    <3>1. ASSUME NEW k PROVE k \in Air'[q] <=> k \in Air[q] /\ k # m
      BY <1>1, <1>2, <1>8, InAir
    <3> QED BY <3>1
  <2>3. Air = [r \in Processes |-> Air[r]] /\ Air' = [r \in Processes |-> Air'[r]]
    BY DEF Air
  <2> QED BY <2>1, <2>2, <2>3
<1>10. Multicast!Hand(q, m)
  BY DEF Receive, Deliver, Members, Multicast!Hand, m
<1>11. Multicast!Arrive(q, m)
  BY <1>4, <1>7, <1>9, <1>10 DEF Multicast!Arrive
<1> QED BY <1>1, <1>4, <1>11 DEF Multicast!Traffic, Multicast!Next

(* Only with the adapter is it carried to the others, then to all. *)
LEMMA StepBroadcast ==
    ASSUME IInv, NEW s \in Sockets, NEW room \in Rooms, Broadcast(s, room)
    PROVE  Multicast!Next
<1> DEFINE p == at[s]
           m == [n |-> sent + 1, room |-> room, by |-> p]
           carried == adapter[p] = "redis"
<1>1. /\ p # None /\ p \in Processes
      /\ sent' = sent + 1
      /\ UNCHANGED <<at, rooms, wire>>
      /\ out \in [Processes -> Seq(Messages)]
      /\ out' = IF carried THEN [out EXCEPT ![p] = Append(@, m)] ELSE out
  BY DEF Broadcast, IInv, TypeOK
<1>2. m \in Messages
  <2>1. sent + 1 \in 1 .. MaxMsgs
    BY MaxMsgsNat DEF MaxMsgsNat, Broadcast, IInv, TypeOK
  <2> QED BY <1>1, <2>1 DEF Messages
<1>3. Multicast!Hand(p, m)
  BY DEF Broadcast, Emit, Deliver, Members, Multicast!Hand
<1>4. Range(Append(out[p], m)) = Range(out[p]) \cup {m}
  <2> HIDE DEF m
  <2> QED BY <1>1, <1>2, AppendRange
<1>5. \A q \in Processes :
         Range(out'[q]) = IF carried /\ q = p THEN Range(out[q]) \cup {m} ELSE Range(out[q])
  <2> HIDE DEF m, p
  <2> QED BY <1>1, <1>4
<1>6. ASSUME NEW q \in Processes
      PROVE  Air'[q] = IF carried /\ q # p THEN Air[q] \cup {m} ELSE Air[q]
  <2> HIDE DEF m, p, carried
  <2>1. ASSUME NEW k
        PROVE  k \in Air'[q] <=> k \in Air[q] \/ (carried /\ q # p /\ k = m)
    <3>1. \A r \in Processes :
             k \in Range(out'[r]) <=> k \in Range(out[r]) \/ (carried /\ r = p /\ k = m)
      BY <1>5
    <3>2. (\E r \in Processes : r # q /\ k \in Range(out'[r]))
            <=> \/ \E r \in Processes : r # q /\ k \in Range(out[r])
                \/ carried /\ q # p /\ k = m
      BY <1>1, <3>1
    <3>3. wire'[q] = wire[q]
      BY <1>1
    <3> QED BY <3>2, <3>3, InAir
  <2> QED BY <2>1
<1>7. Air' = [q \in Processes |-> IF carried /\ q # p THEN Air[q] \cup {m} ELSE Air[q]]
  <2> HIDE DEF m, p, carried
  <2>1. Air' = [q \in Processes |-> Air'[q]]
    BY DEF Air
  <2> QED BY <1>6, <2>1
<1>8. Multicast!Publish(s, room, carried)
  BY <1>1, <1>3, <1>7 DEF Multicast!Publish
<1>9. carried \in BOOLEAN
  OBVIOUS
<1> HIDE DEF carried
<1> QED BY <1>1, <1>8, <1>9 DEF Multicast!Traffic, Multicast!Next

LEMMA StepNone ==
    ASSUME \/ UNCHANGED vars
           \/ \E p \in Processes, mode \in {"memory", "redis"} : Boot(p, mode)
    PROVE  UNCHANGED Multicast!multicast
<1>1. UNCHANGED <<at, rooms, out, wire, log, sent>>
  BY DEF vars, Boot
<1> QED BY <1>1, AirUnchanged DEF Multicast!multicast

LEMMA MulticastInit == Init => Multicast!Init
<1> SUFFICES ASSUME Init PROVE Multicast!Init
  OBVIOUS
<1>1. Air = [q \in Processes |-> {}]
  BY EmptyRange DEF Init, Air, Others
<1> QED BY <1>1 DEF Init, Multicast!Init

LEMMA MulticastStep == IInv /\ [Next]_vars => [Multicast!Next]_(Multicast!multicast)
<1> SUFFICES ASSUME IInv, [Next]_vars
             PROVE  Multicast!Next \/ UNCHANGED Multicast!multicast
  OBVIOUS
<1>1. ASSUME NEW p \in Processes, Stop(p) PROVE Multicast!Next
  BY <1>1, StepStop
<1>2. ASSUME NEW p \in Processes, Relay(p) \/ LosePublish(p) \/ LoseCopy(p)
      PROVE  Multicast!Next
  BY <1>2, StepHop
<1>3. ASSUME NEW p \in Processes, Receive(p) PROVE Multicast!Next
  BY <1>3, StepReceive
<1>4. ASSUME NEW s \in Sockets, NEW p \in Processes, Connect(s, p) PROVE Multicast!Next
  BY <1>4, StepConnect
<1>5. ASSUME NEW s \in Sockets, Disconnect(s) PROVE Multicast!Next
  BY <1>5, StepDisconnect
<1>6. ASSUME NEW s \in Sockets, NEW room \in Rooms,
             Subscribe(s, room) \/ Unsubscribe(s, room)
      PROVE  Multicast!Next
  BY <1>6, StepRooms
<1>7. ASSUME NEW s \in Sockets, NEW room \in Rooms, Broadcast(s, room)
      PROVE  Multicast!Next
  BY <1>7, StepBroadcast
<1> QED BY <1>1, <1>2, <1>3, <1>4, <1>5, <1>6, <1>7, StepNone DEF Next

(* Every step of the two hops through Redis is a step of one unreliable    *)
(* hop, or none: whatever the adapter does, a broadcast that arrives       *)
(* arrives once, in its sender's order, at all who are members then.       *)
THEOREM Implements == Spec => ImplementsMulticast
<1>1. IInv /\ [Next]_vars => [Multicast!Next]_(Multicast!multicast)
  BY MulticastStep
<1> QED BY <1>1, MulticastInit, Invariant, PTL
        DEF Spec, ImplementsMulticast, Multicast!Spec
=============================================================================
