---------------------------- MODULE SystemProofs ----------------------------
(***************************************************************************)
(* Theorems about the system, for every value of its constants.            *)
(***************************************************************************)
EXTENDS System, SequenceTheorems, FiniteSetTheorems, WellFoundedInduction, TLAPS

-----------------------------------------------------------------------------
(* Lemmas about the operators on lists.                                    *)

\* A nonempty set of numbers has a least element, and Min is it.
LEMMA MinNat ==
    ASSUME NEW S \in SUBSET Nat, S # {}
    PROVE  Min(S) \in S /\ \A y \in S : Min(S) <= y
<1>1. PICK x \in S : \A y \in S : <<y, x>> \notin OpToRel(<, Nat)
    BY NatLessThanWellFounded, WFMin
<1>2. ASSUME NEW y \in S PROVE x <= y
    <2>1. OpToRel(<, Nat) = {ss \in Nat \X Nat : ss[1] < ss[2]}
        BY DEF OpToRel
    <2>2. <<y, x>> \in Nat \X Nat /\ <<y, x>> \notin {ss \in Nat \X Nat : ss[1] < ss[2]}
        BY <1>1, <2>1
    <2>3. ~ (<<y, x>>[1] < <<y, x>>[2])
        BY <2>2
    <2> QED
        BY <2>3
<1> QED
    BY <1>2 DEF Min

\* SelectInSeq gives the first index that passes the test, or 0.  (list_find)
LEMMA FindTokenProperties ==
    ASSUME NEW S, NEW list \in Seq(S), NEW t
    PROVE  /\ FindToken(list, t) \in 0 .. Len(list)
           /\ FindToken(list, t) # 0 => list[FindToken(list, t)].token = t
           /\ FindToken(list, t) = 0 => \A i \in 1 .. Len(list) : list[i].token # t
<1> DEFINE I == {i \in 1 .. Len(list) : list[i].token = t}
<1>1. Len(list) \in Nat
    OBVIOUS
<1>2. I # {} => Min(I) \in I
    <2>1. I \in SUBSET Nat
        BY <1>1
    <2> QED
        BY <2>1, MinNat
<1>3. FindToken(list, t) = IF I # {} THEN Min(I) ELSE 0
    BY DEF FindToken, SelectInSeq
<1> QED
    BY <1>1, <1>2, <1>3

\* ... and so for the descriptors of a room.
LEMMA FindFdProperties ==
    ASSUME NEW S, NEW room \in Seq(S), NEW fd
    PROVE  /\ FindFd(room, fd) \in 0 .. Len(room)
           /\ FindFd(room, fd) # 0 => room[FindFd(room, fd)] = fd
           /\ FindFd(room, fd) = 0 => \A i \in 1 .. Len(room) : room[i] # fd
<1> DEFINE I == {i \in 1 .. Len(room) : room[i] = fd}
<1>1. Len(room) \in Nat
    OBVIOUS
<1>2. I # {} => Min(I) \in I
    <2>1. I \in SUBSET Nat
        BY <1>1
    <2> QED
        BY <2>1, MinNat
<1>3. FindFd(room, fd) = IF I # {} THEN Min(I) ELSE 0
    BY DEF FindFd, SelectInSeq
<1> QED
    BY <1>1, <1>2, <1>3

\* list_delete: what comes after the deleted node moves up by one.
LEMMA RemoveAtProperties ==
    ASSUME NEW S, NEW s \in Seq(S), NEW i \in 1 .. Len(s)
    PROVE  /\ RemoveAt(s, i) \in Seq(S)
           /\ Len(RemoveAt(s, i)) = Len(s) - 1
           /\ \A j \in 1 .. Len(s) - 1 :
                 RemoveAt(s, i)[j] = IF j < i THEN s[j] ELSE s[j + 1]
<1> DEFINE a == SubSeq(s, 1, i - 1)
           b == SubSeq(s, i + 1, Len(s))
<1>1. /\ a \in Seq(S) /\ Len(a) = i - 1
      /\ \A j \in 1 .. i - 1 : a[j] = s[j]
    <2>1. \A j \in 1 .. i - 1 : s[j] \in S
        OBVIOUS
    <2> QED
        BY <2>1, SubSeqProperties
<1>2. /\ b \in Seq(S) /\ Len(b) = Len(s) - i
      /\ \A j \in 1 .. Len(s) - i : b[j] = s[i + j]
    <2>1. \A j \in i + 1 .. Len(s) : s[j] \in S
        OBVIOUS
    <2> QED
        BY <2>1, SubSeqProperties
<1>3. RemoveAt(s, i) = a \o b
    BY DEF RemoveAt
<1> HIDE DEF a, b
<1>4. /\ a \o b \in Seq(S)
      /\ Len(a \o b) = Len(a) + Len(b)
      /\ \A j \in 1 .. Len(a) + Len(b) :
            (a \o b)[j] = IF j <= Len(a) THEN a[j] ELSE b[j - Len(a)]
    BY <1>1, <1>2, ConcatProperties
<1> QED
    BY <1>1, <1>2, <1>3, <1>4

\* What the server's list operations return.
LEMMA DeleteTokenType ==
    ASSUME NEW S, NEW list \in Seq(S), NEW t
    PROVE  DeleteToken(list, t) \in Seq(S)
<1>1. FindToken(list, t) \in 0 .. Len(list)
    BY FindTokenProperties
<1>2. CASE FindToken(list, t) = 0
    BY <1>2 DEF DeleteToken
<1>3. CASE FindToken(list, t) \in 1 .. Len(list)
    BY <1>3, RemoveAtProperties DEF DeleteToken
<1> QED
    BY <1>1, <1>2, <1>3

\* A room stays one when a descriptor is deleted ...
LEMMA DeleteFdType ==
    ASSUME NEW S, NEW room \in Seq(S), NEW fd
    PROVE  DeleteFd(room, fd) \in Seq(S)
<1>1. FindFd(room, fd) \in 0 .. Len(room)
    BY FindFdProperties
<1>2. CASE FindFd(room, fd) = 0
    BY <1>2 DEF DeleteFd
<1>3. CASE FindFd(room, fd) \in 1 .. Len(room)
    BY <1>3, RemoveAtProperties DEF DeleteFd
<1> QED
    BY <1>1, <1>2, <1>3

\* ... or replaced.
LEMMA ReplaceFdType ==
    ASSUME NEW S, NEW room \in Seq(S), NEW fd, NEW new \in S
    PROVE  ReplaceFd(room, fd, new) \in Seq(S)
<1>1. FindFd(room, fd) \in 0 .. Len(room)
    BY FindFdProperties
<1>2. CASE FindFd(room, fd) = 0
    BY <1>2 DEF ReplaceFd
<1>3. CASE FindFd(room, fd) \in 1 .. Len(room)
    BY <1>3, ExceptSeq DEF ReplaceFd
<1> QED
    BY <1>1, <1>2, <1>3

-----------------------------------------------------------------------------
(* Lemmas about packets and sockets.                                       *)

\* A control packet with as many tokens as its type has is a packet.
LEMMA ControlType ==
    ASSUME NEW type \in MType, NEW payload \in Seq(Nat),
           Len(payload) >= Tokens[type]
    PROVE  Control(type, payload) \in Packet
<1>1. Control(type, payload) =
        [mtype |-> type, timestamp |-> 0, payload |-> payload,
         hash |-> <<type, 0, payload>>]
    BY DEF Control, gen_packet, MD5
<1>2. <<type, 0, payload>> \in MType \X Nat \X Seq(Nat)
    OBVIOUS
<1> QED
    BY <1>1, <1>2 DEF Packet

\* A socket holds packets, whether the write fits or not.
LEMMA PushType ==
    ASSUME NEW queue \in Seq(Packet), NEW pkts \in Seq(Packet)
    PROVE  Push(queue, pkts) \in Seq(Packet)
<1> DEFINE q == queue \o pkts
<1>1. /\ q \in Seq(Packet) /\ Len(q) = Len(queue) + Len(pkts)
      /\ Len(queue) \in Nat /\ Len(pkts) \in Nat /\ SndBuf \in Nat
    BY ConcatProperties, IpcAssumption
<1>2. CASE Len(queue) + Len(pkts) <= SndBuf
    BY <1>1, <1>2 DEF Push
<1>3. CASE ~(Len(queue) + Len(pkts) <= SndBuf)
    <2> HIDE DEF q
    <2>1. \A i \in 1 .. SndBuf : q[i] \in Packet
        BY <1>1, <1>3, ElementOfSeq
    <2>2. SubSeq(q, 1, SndBuf) \in Seq(Packet)
        BY <1>1, <2>1, SubSeqProperties
    <2> USE DEF q
    <2> QED
        BY <1>3, <2>2 DEF Push
<1> QED
    BY <1>2, <1>3

\* The sockets hold packets after a write to each client.
LEMMA WrittenType ==
    ASSUME IpcTypeOK, NEW out \in [Client -> Seq(Packet)]
    PROVE  Written(out) \in [Client -> Seq(Packet)]
<1>1. ASSUME NEW c \in Client
      PROVE  (IF c \in reset THEN down[c] ELSE Push(down[c], out[c])) \in Seq(Packet)
    BY PushType DEF IpcTypeOK
<1> QED
    BY <1>1 DEF Written

\* A write to one descriptor is a write to each client.
LEMMA ToType ==
    ASSUME NEW fd, NEW pkts \in Seq(Packet)
    PROVE  To(fd, pkts) \in [Client -> Seq(Packet)]
BY DEF To

\* The sockets hold packets after a read ...
LEMMA AfterReadType ==
    ASSUME IpcTypeOK, NEW fd
    PROVE  AfterRead(fd) \in [Client -> Seq(Packet)]
BY DEF AfterRead, IpcTypeOK

\* ... and after a close.
LEMMA DrainedType ==
    ASSUME NEW fd, NEW inq \in [Client -> Seq(Packet)]
    PROVE  Drained(fd, inq) \in [Client -> Seq(Packet)]
BY DEF Drained

\* A descriptor that is closed is nobody's, the others stay.
LEMMA ClosedType ==
    ASSUME IpcTypeOK, NEW fd
    PROVE  Closed(fd) \in [Fd -> Client \cup {NoClient}]
BY DEF Closed, IpcTypeOK

\* What the stack slot holds at first has the form of a packet.
LEMMA GarbageType == Garbage \in Packet
BY DEF Garbage, Packet, Tokens, MType, ZeroHash

\* Whatever a read returns is a packet.
LEMMA BufferedType ==
    ASSUME IpcTypeOK, packet \in Packet, NEW fd, NEW p \in Buffered(fd)
    PROVE  p \in Packet
<1>1. CASE up[At(fd)] # <<>> /\ At(fd) # NoClient
    <2>1. At(fd) \in Client
        BY <1>1 DEF At, IpcTypeOK
    <2>2. Head(up[At(fd)]) \in Packet
        BY <1>1, <2>1 DEF IpcTypeOK
    <2> QED
        BY <1>1, <2>2 DEF Buffered
<1>2. CASE ~(up[At(fd)] # <<>> /\ At(fd) # NoClient)
    BY <1>2, GarbageType DEF Buffered
<1> QED
    BY <1>1, <1>2

\* The tokens of a packet are numbers.
LEMMA PayloadType ==
    ASSUME NEW p \in Packet
    PROVE  /\ p.mtype \in MType /\ p.payload \in Seq(Nat)
           /\ p.mtype \in {"ACK", "CONN_ACCEPTED", "AUTH"} => p.payload[1] \in Nat
           /\ p.mtype = "AUTH" => p.payload[2] \in Nat
<1>1. p.mtype \in MType /\ p.payload \in Seq(Nat)
      /\ Len(p.payload) >= Tokens[p.mtype]
    BY DEF Packet
<1>2. Tokens["ACK"] = 1 /\ Tokens["CONN_ACCEPTED"] = 1 /\ Tokens["AUTH"] = 2
    BY DEF Tokens, MType
<1>3. Len(p.payload) \in Nat
    BY <1>1
<1> QED
    BY <1>1, <1>2, <1>3, ElementOfSeq

\* What the server does to a session keeps it one.
LEMMA ConnectionType ==
    ASSUME NEW conn \in Connection, NEW t \in Nat, NEW fd \in Fd \cup {BadFd}
    PROVE  /\ [conn EXCEPT !.timestamp = t] \in Connection
           /\ [conn EXCEPT !.sockfd = fd] \in Connection
           /\ [conn EXCEPT !.susc_counter = @ + 1, !.timestamp = t] \in Connection
           /\ [conn EXCEPT !.susc_counter = @ - 1, !.timestamp = t] \in Connection
<1>1. [conn EXCEPT !.timestamp = t] \in Connection
    BY DEF Connection
<1>2. [conn EXCEPT !.sockfd = fd] \in Connection
    BY DEF Connection
<1>3. conn.susc_counter + 1 \in Int /\ conn.susc_counter - 1 \in Int
    BY DEF Connection
<1>4. [conn EXCEPT !.susc_counter = @ + 1, !.timestamp = t] \in Connection
    BY <1>3 DEF Connection
<1>5. [conn EXCEPT !.susc_counter = @ - 1, !.timestamp = t] \in Connection
    BY <1>3 DEF Connection
<1> QED
    BY <1>1, <1>2, <1>4, <1>5

\* The control packets the processes build.
LEMMA ControlPackets ==
    /\ \A t \in Nat : Ack(t) \in Packet /\ Control("CONN_ACCEPTED", <<t>>) \in Packet
    /\ \A t, u \in Nat : Auth(t, u) \in Packet
    /\ \A type \in {"FIN", "CLI_ACCEPTED", "FT_SETUP"} : Control(type, <<>>) \in Packet
<1>1. /\ Tokens["ACK"] = 1 /\ Tokens["CONN_ACCEPTED"] = 1 /\ Tokens["AUTH"] = 2
      /\ \A type \in {"FIN", "CLI_ACCEPTED", "FT_SETUP"} : Tokens[type] = 0
    BY DEF Tokens, MType
<1>2. {"ACK", "CONN_ACCEPTED", "AUTH", "FIN", "CLI_ACCEPTED", "FT_SETUP"} \subseteq MType
    BY DEF MType
<1>3. ASSUME NEW t \in Nat
      PROVE  Ack(t) \in Packet /\ Control("CONN_ACCEPTED", <<t>>) \in Packet
    <2>1. <<t>> \in Seq(Nat) /\ Len(<<t>>) = 1
        OBVIOUS
    <2>2. ASSUME NEW type \in {"ACK", "CONN_ACCEPTED"}
          PROVE  Control(type, <<t>>) \in Packet
        <3>1. type \in MType /\ Len(<<t>>) >= Tokens[type]
            BY <1>1, <1>2, <2>1
        <3> QED
            BY <2>1, <3>1, ControlType
    <2> QED
        BY <2>2 DEF Ack
<1>4. ASSUME NEW t \in Nat, NEW u \in Nat
      PROVE  Auth(t, u) \in Packet
    <2>1. <<t, u>> \in Seq(Nat) /\ Len(<<t, u>>) = 2
        OBVIOUS
    <2>2. "AUTH" \in MType /\ Len(<<t, u>>) >= Tokens["AUTH"]
        BY <1>1, <1>2, <2>1
    <2>3. Control("AUTH", <<t, u>>) \in Packet
        BY <2>1, <2>2, ControlType
    <2> QED
        BY <2>3 DEF Auth
<1>5. ASSUME NEW type \in {"FIN", "CLI_ACCEPTED", "FT_SETUP"}
      PROVE  Control(type, <<>>) \in Packet
    <2>1. <<>> \in Seq(Nat) /\ Len(<<>>) = 0
        OBVIOUS
    <2>2. type \in MType /\ Len(<<>>) >= Tokens[type]
        BY <1>1, <1>2, <2>1
    <2> QED
        BY <2>1, <2>2, ControlType
<1> QED
    BY <1>3, <1>4, <1>5

\* A packet of data, whether or not its payload fits.
LEMMA DataPacketType ==
    ASSUME now \in Nat, NEW m \in Message, NEW fits \in BOOLEAN
    PROVE  DataPacket(m, fits) \in Packet
<1>1. m.id \in Nat /\ m.timestamp \in Nat /\ m.n \in Nat
    BY IpcAssumption DEF Message
<1>2. Tokens["DATA"] = 0 /\ "DATA" \in MType
    BY DEF Tokens, MType
<1>3. CASE fits
    <2>1. DataPacket(m, fits) =
            [mtype |-> "DATA", timestamp |-> m.timestamp,
             payload |-> <<m.id, m.n>>, hash |-> <<"DATA", now, <<m.id, m.n>>>>]
        BY <1>3 DEF DataPacket, gen_packet, MD5
    <2>2. <<m.id, m.n>> \in Seq(Nat) /\ Len(<<m.id, m.n>>) >= 0
        BY <1>1
    <2>3. <<"DATA", now, <<m.id, m.n>>>> \in MType \X Nat \X Seq(Nat)
        BY <1>2, <2>2
    <2> QED
        BY <1>1, <1>2, <2>1, <2>2, <2>3 DEF Packet
<1>4. CASE ~fits
    <2>1. DataPacket(m, fits) =
            [mtype |-> "DATA", timestamp |-> m.timestamp, payload |-> <<>>,
             hash |-> ZeroHash]
        BY <1>4 DEF DataPacket, gen_packet
    <2> QED
        BY <1>1, <1>2, <2>1 DEF Packet
<1> QED
    BY <1>3, <1>4

\* broadcast_room writes a finite number of packets to each client.
LEMMA BroadcastType ==
    ASSUME NEW S, NEW room \in Seq(S), NEW p \in Packet
    PROVE  Broadcast(room, p) \in [Client -> Seq(Packet)]
<1>1. ASSUME NEW c \in Client
      PROVE  [i \in 1 .. Cardinality({i \in DOMAIN room : At(room[i]) = c}) |-> p]
                \in Seq(Packet)
    <2> DEFINE I == {i \in DOMAIN room : At(room[i]) = c}
    <2>1. DOMAIN room = 1 .. Len(room) /\ Len(room) \in Nat
        OBVIOUS
    <2>2. IsFiniteSet(I)
        <3>1. IsFiniteSet(1 .. Len(room))
            BY <2>1, FS_Interval
        <3>2. I \subseteq 1 .. Len(room)
            BY <2>1
        <3> QED
            BY <3>1, <3>2, FS_Subset
    <2>3. Cardinality(I) \in Nat
        BY <2>2, FS_CardinalityType
    <2> HIDE DEF I
    <2>4. [i \in 1 .. Cardinality(I) |-> p] \in Seq(Packet)
        BY <2>3, SeqDef
    <2> QED
        BY <2>4 DEF I
<1> QED
    BY <1>1 DEF Broadcast

\* The producer the operator may name in vain is a number.
LEMMA NoRoomType == NoRoom \in Nat
<1>1. Cardinality(Room) \in Nat
    BY IpcAssumption, FS_CardinalityType
<1>2. \E r \in 0 .. Cardinality(Room) : r \notin Room
    <2> SUFFICES ASSUME 0 .. Cardinality(Room) \subseteq Room
                 PROVE  FALSE
        OBVIOUS
    <2>1. Cardinality(0 .. Cardinality(Room)) <= Cardinality(Room)
        BY IpcAssumption, FS_Subset
    <2>2. Cardinality(0 .. Cardinality(Room)) = Cardinality(Room) + 1
        BY <1>1, FS_Interval
    <2> QED
        BY <1>1, <2>1, <2>2
<1> QED
    BY <1>1, <1>2 DEF NoRoom

-----------------------------------------------------------------------------
(* Type correctness.                                                       *)

\* accept is only called for a connection that waits: epoll reported it, and
\* nobody but this loop takes connections out of the backlog.
ListenReady == Listen \in events => backlog # <<>>

\* The loop that sends packets again starts at the first node.
IterStarted == pc = "resend" => iter > 0

TypeInv == TypeOK /\ ListenReady /\ IterStarted

\* The initial values have their types.
LEMMA TypeInit == Init => TypeInv
BY GarbageType
   DEF Init, IpcInit, ClienteInit, ProductorInit, ServerInit, TypeInv, TypeOK,
       ListenReady, IterStarted, IpcTypeOK, ClienteTypeOK, ProductorTypeOK, ServerTypeOK

\* The steps of the clients.
LEMMA ClientsType == TypeInv /\ Clients => TypeInv'
<1> SUFFICES ASSUME TypeInv, Clients
             PROVE  TypeInv'
    OBVIOUS
<1> USE DEF TypeInv, TypeOK, ListenReady, IterStarted, IpcTypeOK, ClienteTypeOK,
            ProductorTypeOK, ServerTypeOK, server, productor
<1>1. ASSUME NEW c \in Client, NEW t \in PrintedTokens, Start(c, t),
             UNCHANGED <<productor, server, cmds>>
      PROVE  TypeInv'
    <2>1. t \in Nat
        BY DEF PrintedTokens
    <2>2. backlog' = Append(backlog, c)
        BY <1>1 DEF Start
    <2>3. backlog' \in Seq(Client) /\ backlog' # <<>>
        <3>1. backlog \in Seq(Client)
            OBVIOUS
        <3> QED
            BY ONLY <2>2, <3>1, c \in Client, AppendProperties
    <2> QED
        BY <1>1, <2>1, <2>3 DEF Start
<1>2. ASSUME NEW c \in Client, NEW p \in ToSet(down[c])
      PROVE  p \in Packet
    BY <1>2 DEF ToSet
<1>3. ASSUME NEW c \in Client, NEW p \in Packet, Recv(c, p)
      PROVE  down' \in [Client -> Seq(Packet)]
    BY <1>3 DEF Recv
<1>4. ASSUME NEW c \in Client, NEW pkts \in Seq(Packet), Answer(c, pkts)
      PROVE  up' \in [Client -> Seq(Packet)]
    BY <1>4 DEF Answer
<1>5. ASSUME NEW c \in Client, RecvConnAccepted(c),
             UNCHANGED <<productor, server, cmds>>
      PROVE  TypeInv'
    <2>1. PICK p \in ToSet(down[c]) :
            /\ Recv(c, p)
            /\ p.mtype = "CONN_ACCEPTED"
            /\ \/ /\ Answer(c, <<Auth(old[c], p.payload[1]), Ack(old[c])>>)
                  /\ UNCHANGED token
               \/ /\ Answer(c, <<Ack(p.payload[1])>>)
                  /\ token' = [token EXCEPT ![c] = p.payload[1]]
            /\ UNCHANGED <<old, peer>>
        BY <1>5 DEF RecvConnAccepted
    <2>2. p \in Packet /\ p.payload[1] \in Nat
        BY <1>2, <2>1, PayloadType
    <2>3. /\ <<Auth(old[c], p.payload[1]), Ack(old[c])>> \in Seq(Packet)
          /\ <<Ack(p.payload[1])>> \in Seq(Packet)
        <3>1. Auth(old[c], p.payload[1]) \in Packet /\ Ack(old[c]) \in Packet
              /\ Ack(p.payload[1]) \in Packet
            BY <2>2, ControlPackets
        <3> QED
            BY <3>1
    <2>4. /\ up' \in [Client -> Seq(Packet)]
          /\ token' \in [Client -> Nat]
        BY <1>4, <2>1, <2>2, <2>3
    <2>5. down' \in [Client -> Seq(Packet)]
        BY <1>3, <2>1, <2>2
    <2> QED
        BY <1>5, <2>1, <2>4, <2>5 DEF Recv
<1>6. ASSUME NEW c \in Client, RecvData(c),
             UNCHANGED <<productor, server, cmds>>
      PROVE  TypeInv'
    <2>1. PICK p \in ToSet(down[c]) :
            /\ Recv(c, p)
            /\ Answer(c, <<Ack(token[c])>>)
            /\ UNCHANGED <<old, token, peer>>
        BY <1>6 DEF RecvData
    <2>2. <<Ack(token[c])>> \in Seq(Packet)
        <3>1. Ack(token[c]) \in Packet
            BY ControlPackets
        <3> QED
            BY <3>1
    <2>3. up' \in [Client -> Seq(Packet)] /\ down' \in [Client -> Seq(Packet)]
        BY <1>2, <1>3, <1>4, <2>1, <2>2
    <2> QED
        BY <1>6, <2>1, <2>3 DEF Recv
<1>7. ASSUME NEW c \in Client, RecvFin(c) \/ RecvUnanswered(c),
             UNCHANGED <<productor, server, cmds>>
      PROVE  TypeInv'
    <2>1. PICK p \in ToSet(down[c]) :
            /\ Recv(c, p)
            /\ \/ peer' = [peer EXCEPT ![c] = "closed"]
               \/ UNCHANGED peer
            /\ UNCHANGED <<old, token, up>>
        BY <1>7 DEF RecvFin, RecvUnanswered
    <2>2. down' \in [Client -> Seq(Packet)]
        BY <1>2, <1>3, <2>1
    <2> QED
        BY <1>7, <2>1, <2>2 DEF Recv
<1>8. ASSUME NEW c \in Client, Kill(c), UNCHANGED <<productor, server, cmds>>
      PROVE  TypeInv'
    BY <1>8 DEF Kill
<1> QED
    BY <1>1, <1>5, <1>6, <1>7, <1>8 DEF Clients, ClientStep

\* A counter of numbers stays one.
LEMMA CountType ==
    ASSUME NEW S, NEW f \in [S -> Nat], NEW x \in S
    PROVE  [f EXCEPT ![x] = @ + 1] \in [S -> Nat]
OBVIOUS

\* The steps of the producers.
LEMMA ProducersType == TypeInv /\ Producers => TypeInv'
<1> SUFFICES ASSUME TypeInv, NEW r \in Room,
                    Stamp(r) \/ MqSend(r) \/ GiveUp(r),
                    UNCHANGED <<cliente, server, cmds>>
             PROVE  TypeInv'
    BY DEF Producers
<1> USE DEF TypeInv, TypeOK, ListenReady, IterStarted, IpcTypeOK, ClienteTypeOK,
            ProductorTypeOK, ServerTypeOK, server, cliente, ipc, tcp
<1>1. CASE Stamp(r)
    <2>1. now \in Nat /\ msg' = [msg EXCEPT ![r] = now]
          /\ count' = [count EXCEPT ![r] = @ + 1]
        BY <1>1 DEF Stamp
    <2>2. msg' \in [Room -> Nat \cup {-1}]
        BY <2>1
    <2>3. count' \in [Room -> Nat]
        BY <2>1, CountType
    <2> QED
        BY <1>1, <2>2, <2>3 DEF Stamp
<1>2. CASE MqSend(r)
    <2>1. [id |-> r, timestamp |-> msg[r], n |-> count[r]] \in Message
        BY <1>2 DEF MqSend, Message
    <2>2. mq' \in Seq(Message)
        BY <1>2, <2>1 DEF MqSend
    <2> QED
        BY <1>2, <2>2 DEF MqSend
<1>3. CASE GiveUp(r)
    BY <1>3 DEF GiveUp
<1> QED
    BY <1>1, <1>2, <1>3

\* The commands of the operator.
LEMMA OperatorsType == TypeInv /\ Operators => TypeInv'
<1> SUFFICES ASSUME TypeInv, NEW type \in Commands, NEW t \in 0 .. Len(owner),
                    NEW r \in Room \cup {NoRoom}, Operator(type, t, r)
             PROVE  TypeInv'
    BY DEF Operators
<1> USE DEF TypeInv, TypeOK, ListenReady, IterStarted, IpcTypeOK, ClienteTypeOK,
            ProductorTypeOK, ServerTypeOK, server, cliente, productor, tcp
<1>1. [type |-> type, socket |-> t, productor |-> r] \in Command
    BY SystemAssumption, IpcAssumption, NoRoomType DEF Command
<1>2. fifo' \in Seq(Command)
    BY <1>1 DEF Operator
<1>3. cmds' \in Nat
    BY DEF Operator
<1> QED
    BY <1>2, <1>3 DEF Operator

\* The file transfer threads, the kernel and the clock.
LEMMA ThreadType == TypeInv /\ Thread => TypeInv'
<1> SUFFICES ASSUME TypeInv, Thread
             PROVE  TypeInv'
    OBVIOUS
<1> USE DEF TypeInv, TypeOK, ListenReady, IterStarted, IpcTypeOK, ClienteTypeOK,
            ProductorTypeOK, ServerTypeOK, cliente, productor
<1>1. PICK i \in DOMAIN ft_threads :
        /\ \/ down' = Written(To(ft_threads[i], <<Control("FT_SETUP", <<>>)>>))
           \/ UNCHANGED down
        /\ ft_threads' = RemoveAt(ft_threads, i)
    BY DEF Thread, FtSetup
<1>2. ft_threads' \in Seq(Fd \cup {BadFd})
    <2>1. ft_threads \in Seq(Fd \cup {BadFd}) /\ i \in 1 .. Len(ft_threads)
        BY <1>1
    <2> QED
        BY ONLY <1>1, <2>1, RemoveAtProperties
<1>3. down' \in [Client -> Seq(Packet)]
    <2>1. Control("FT_SETUP", <<>>) \in Packet
        BY ControlPackets
    <2>2. <<Control("FT_SETUP", <<>>)>> \in Seq(Packet)
        BY <2>1
    <2>3. To(ft_threads[i], <<Control("FT_SETUP", <<>>)>>) \in [Client -> Seq(Packet)]
        BY ONLY <2>2, ToType
    <2>4. IpcTypeOK
        BY DEF TypeInv, TypeOK
    <2>5. Written(To(ft_threads[i], <<Control("FT_SETUP", <<>>)>>))
            \in [Client -> Seq(Packet)]
        BY ONLY <2>3, <2>4, WrittenType
    <2>6. down \in [Client -> Seq(Packet)]
        OBVIOUS
    <2> QED
        BY ONLY <1>1, <2>5, <2>6
<1> QED
    BY <1>2, <1>3 DEF Thread, FtSetup, resending

\* The step of the kernel.
LEMMA KernelType == TypeInv /\ Kernel => TypeInv'
<1> SUFFICES ASSUME TypeInv, NEW c \in Client, KernelReset(c),
                    UNCHANGED <<cliente, productor, server, cmds>>
             PROVE  TypeInv'
    BY DEF Kernel
<1> USE DEF TypeInv, TypeOK, ListenReady, IterStarted, IpcTypeOK, ClienteTypeOK,
            ProductorTypeOK, ServerTypeOK, cliente, productor, server
<1>1. down' \in [Client -> Seq(Packet)]
    BY DEF KernelReset
<1> QED
    BY <1>1 DEF KernelReset

\* The clock.
LEMMA TickType == TypeInv /\ Tick => TypeInv'
<1> SUFFICES ASSUME TypeInv, Tick
             PROVE  TypeInv'
    OBVIOUS
<1> USE DEF TypeInv, TypeOK, ListenReady, IterStarted, IpcTypeOK, ClienteTypeOK,
            ProductorTypeOK, ServerTypeOK, cliente, productor, server, tcp
<1>1. now' \in Nat
    BY DEF Tick
<1> QED
    BY <1>1 DEF Tick

-----------------------------------------------------------------------------
(* The steps of the server.                                                *)

\* epoll_wait.
LEMMA PollType ==
    TypeInv /\ Poll /\ UNCHANGED <<cliente, productor, cmds>> => TypeInv'
<1> SUFFICES ASSUME TypeInv, Poll, UNCHANGED <<cliente, productor, cmds>>
             PROVE  TypeInv'
    OBVIOUS
<1> USE DEF TypeInv, TypeOK, ListenReady, IterStarted, IpcTypeOK, ClienteTypeOK,
            ProductorTypeOK, ServerTypeOK, cliente, productor, ipc, tcp, resending
<1>1. Ready \subseteq Event
    <2>1. Listen \in Event /\ \A fd \in Fd : In(fd) \in Event /\ Hup(fd) \in Event
        BY ONLY TRUE DEF Event, Listen, In, Hup
    <2>2. epoll \subseteq Fd
        OBVIOUS
    <2> QED
        BY ONLY <2>1, <2>2 DEF Ready
<1>2. Listen \in Ready => backlog # <<>>
    BY DEF Ready, Listen, In, Hup
<1> QED
    BY <1>1, <1>2 DEF Poll

\* accept and the session of the new connection.
LEMMA AcceptType ==
    TypeInv /\ (Accept \/ AcceptFails) /\ UNCHANGED <<cliente, productor, cmds>>
        => TypeInv'
<1> SUFFICES ASSUME TypeInv, Accept \/ AcceptFails,
                    UNCHANGED <<cliente, productor, cmds>>
             PROVE  TypeInv'
    OBVIOUS
<1> USE DEF TypeInv, TypeOK, ListenReady, IterStarted, IpcTypeOK, ClienteTypeOK,
            ProductorTypeOK, ServerTypeOK, cliente, productor
<1>1. ASSUME NEW fd \in Fd \cup {BadFd}
      PROVE  Append(connections, NewConnection(fd)) \in Seq(Connection)
    <2>1. Len(owner) \in Nat
        OBVIOUS
    <2>2. NewConnection(fd) \in Connection
        BY <2>1 DEF NewConnection, Connection
    <2> QED
        BY <2>2
<1>2. CASE Accept
    <2> DEFINE connfd == Min(FreeFd)
               c      == Head(backlog)
               hello  == Control("CONN_ACCEPTED", <<Len(owner) + 1>>)
    <2>1. connfd \in Fd
        <3>1. FreeFd \subseteq Nat /\ FreeFd \subseteq Fd /\ FreeFd # {}
            <4>1. FreeFd # {}
                BY <1>2 DEF Accept
            <4>2. FreeFd \subseteq Fd
                BY DEF FreeFd
            <4>3. Fd \subseteq Nat
                BY ONLY IpcAssumption DEF Fd
            <4> QED
                BY ONLY <4>1, <4>2, <4>3
        <3>2. Min(FreeFd) \in FreeFd
            BY ONLY <3>1, MinNat
        <3> QED
            BY ONLY <3>1, <3>2
    <2>2. c \in Client /\ Tail(backlog) \in Seq(Client)
        <3>1. backlog # <<>> /\ backlog \in Seq(Client)
            BY <1>2 DEF Accept, Handling
        <3> QED
            BY ONLY <3>1, HeadTailProperties
    <2>3. <<hello>> \in Seq(Packet)
        <3>1. Len(owner) + 1 \in Nat
            OBVIOUS
        <3>2. hello \in Packet
            BY <3>1, ControlPackets
        <3> QED
            BY <3>2
    <2> HIDE DEF connfd, c, hello
    <2>4. /\ fdtab' = [fdtab EXCEPT ![connfd] = c]
          /\ epoll' = epoll \cup {connfd}
          /\ down' = [down EXCEPT ![c] = IF c \in reset THEN @
                                         ELSE Push(@, <<hello>>)]
          /\ owner' = Append(owner, c)
          /\ connections' = Append(connections, NewConnection(connfd))
          /\ backlog' = Tail(backlog)
          /\ events' = events \ {Listen}
          /\ pc' \in {"cli", "events"}
        BY <1>2 DEF Accept, Handled, connfd, c, hello
    <2>5. down' \in [Client -> Seq(Packet)]
        <3>1. Push(down[c], <<hello>>) \in Seq(Packet)
            BY <2>2, <2>3, PushType
        <3> QED
            BY <2>2, <2>4, <3>1
    <2>6. connections' \in Seq(Connection) /\ owner' \in Seq(Client \cup {NoClient})
        BY <1>1, <2>1, <2>2, <2>4
    <2>7. /\ fdtab' \in [Fd -> Client \cup {NoClient}]
          /\ epoll' \subseteq Fd /\ events' \subseteq Event
          /\ backlog' \in Seq(Client)
          /\ pc' \in {"cli", "events"}
        BY <2>1, <2>2, <2>4
    <2>8. Listen \notin events'
        BY <2>4
    <2> QED
        BY <1>2, <2>5, <2>6, <2>7, <2>8 DEF Accept, resending
<1>3. CASE AcceptFails
    <2>1. /\ connections' \in Seq(Connection)
          /\ owner' \in Seq(Client \cup {NoClient})
        BY <1>1, <1>3 DEF AcceptFails
    <2>2. events' \subseteq events /\ pc' \in {"cli", "events"}
        BY <1>3 DEF AcceptFails, Handled
    <2> QED
        BY <1>3, <2>1, <2>2 DEF AcceptFails, ipc, tcp, resending
<1> QED
    BY <1>2, <1>3

\* The events of one client that change no list but the connections.
LEMMA ReadType ==
    TypeInv /\ UNCHANGED <<cliente, productor, cmds>>
        /\ (\E fd \in Fd : \/ HangUp(fd) \/ ReadFails(fd) \/ ReadInvalid(fd)
                           \/ RecvAck(fd) \/ RecvUnknownAck(fd)
                           \/ RecvAuthRejected(fd))
        => TypeInv'
<1> SUFFICES ASSUME TypeInv, UNCHANGED <<cliente, productor, cmds>>,
                    NEW fd \in Fd,
                    \/ HangUp(fd) \/ ReadFails(fd) \/ ReadInvalid(fd)
                    \/ RecvAck(fd) \/ RecvUnknownAck(fd) \/ RecvAuthRejected(fd)
             PROVE  TypeInv'
    OBVIOUS
<1> USE DEF TypeInv, TypeOK, ListenReady, IterStarted, IpcTypeOK, ClienteTypeOK,
            ProductorTypeOK, ServerTypeOK, cliente, productor, ipc, tcp,
            resending
<1>1. AfterRead(fd) \in [Client -> Seq(Packet)]
    BY AfterReadType
<1>2. ASSUME NEW p \in Buffered(fd), Read(fd, p)
      PROVE  p \in Packet /\ packet' \in Packet
    BY <1>2, BufferedType, GarbageType DEF Read
<1>3. ASSUME NEW e, Handled(e)
      PROVE  /\ events' \subseteq events
             /\ pc' \in {"cli", "events"}
    BY <1>3 DEF Handled
<1>4. CASE HangUp(fd)
    <2>1. epoll' \subseteq Fd
        BY <1>4 DEF HangUp
    <2> QED
        BY <1>3, <1>4, <2>1 DEF HangUp
<1>5. CASE ReadFails(fd)
    BY <1>3, <1>5 DEF ReadFails
<1>6. CASE ReadInvalid(fd)
    <2>1. up' \in [Client -> Seq(Packet)] /\ packet' \in Packet
        BY <1>1, <1>2, <1>6 DEF ReadInvalid
    <2> QED
        BY <1>3, <1>6, <2>1 DEF ReadInvalid
<1>7. CASE RecvAck(fd)
    <2>1. PICK p \in Buffered(fd) :
            /\ Read(fd, p)
            /\ FindToken(connections, p.payload[1]) # 0
            /\ connections' =
                 [connections EXCEPT ![FindToken(connections, p.payload[1])].timestamp
                     = now]
            /\ up' = AfterRead(fd)
            /\ Handled(In(fd))
        BY <1>7 DEF RecvAck
    <2> DEFINE i == FindToken(connections, p.payload[1])
    <2>2. i \in 1 .. Len(connections) /\ connections \in Seq(Connection) /\ now \in Nat
        <3>1. i \in 0 .. Len(connections) /\ i # 0 /\ Len(connections) \in Nat
            BY <2>1, FindTokenProperties
        <3> QED
            BY <3>1
    <2> HIDE DEF i
    <2>3. [connections EXCEPT ![i].timestamp = now] \in Seq(Connection)
        <3>1. connections[i] \in Connection
            BY ONLY <2>2, ElementOfSeq
        <3>2. [connections[i] EXCEPT !.timestamp = now] \in Connection
            BY ONLY <2>2, <3>1, ConnectionType
        <3> QED
            BY ONLY <2>2, <3>2, ExceptSeq
    <2>4. connections' \in Seq(Connection)
        BY <2>1, <2>3 DEF i
    <2> QED
        BY <1>1, <1>2, <1>3, <1>7, <2>1, <2>4 DEF RecvAck
<1>8. CASE RecvUnknownAck(fd)
    <2>1. up' \in [Client -> Seq(Packet)] /\ packet' \in Packet
        BY <1>1, <1>2, <1>8 DEF RecvUnknownAck
    <2> QED
        BY <1>8, <2>1 DEF RecvUnknownAck
<1>9. CASE RecvAuthRejected(fd)
    <2>1. PICK p \in Buffered(fd) :
            /\ Read(fd, p)
            /\ connections' = DeleteToken(connections, p.payload[2])
            /\ up' = AfterRead(fd)
            /\ down' = Written(To(fd, <<Control("FIN", <<>>)>>))
            /\ Handled(In(fd))
        BY <1>9 DEF RecvAuthRejected
    <2>2. connections' \in Seq(Connection)
        BY <2>1, DeleteTokenType
    <2>3. down' \in [Client -> Seq(Packet)]
        <3>1. Control("FIN", <<>>) \in Packet
            BY ControlPackets
        <3>2. <<Control("FIN", <<>>)>> \in Seq(Packet)
            BY <3>1
        <3> QED
            BY <2>1, <3>2, ToType, WrittenType
    <2> QED
        BY <1>1, <1>2, <1>3, <1>9, <2>1, <2>2, <2>3 DEF RecvAuthRejected
<1> QED
    BY <1>4, <1>5, <1>6, <1>7, <1>8, <1>9

\* A reconnection and the packets it sends again.
LEMMA ResendType ==
    TypeInv /\ UNCHANGED <<cliente, productor, cmds>>
        /\ ((\E fd \in Fd : RecvAuthAccepted(fd)) \/ Resend \/ Resent)
        => TypeInv'
<1> SUFFICES ASSUME TypeInv, UNCHANGED <<cliente, productor, cmds>>,
                    (\E fd \in Fd : RecvAuthAccepted(fd)) \/ Resend \/ Resent
             PROVE  TypeInv'
    OBVIOUS
<1> USE DEF TypeInv, TypeOK, ListenReady, IterStarted, IpcTypeOK, ClienteTypeOK,
            ProductorTypeOK, ServerTypeOK, cliente, productor, ipc, tcp
<1>1. ASSUME NEW fd \in Fd, RecvAuthAccepted(fd)
      PROVE  TypeInv'
    <2>1. PICK p \in Buffered(fd) :
            /\ Read(fd, p)
            /\ LET rest == DeleteToken(connections, p.payload[2])
                   iOld == FindToken(rest, p.payload[1])
                   orig == rest[iOld]
               IN  /\ iOld # 0
                   /\ susc_room' =
                        [r \in Room |-> ReplaceFd(susc_room[r], orig.sockfd, fd)]
                   /\ fdtab' = Closed(orig.sockfd)
                   /\ epoll' = epoll \ {orig.sockfd}
                   /\ up' = Drained(orig.sockfd, AfterRead(fd))
                   /\ connections' = [rest EXCEPT ![iOld].sockfd = fd]
                   /\ orig_conn' = iOld
        BY <1>1 DEF RecvAuthAccepted
    <2> DEFINE rest == DeleteToken(connections, p.payload[2])
               iOld == FindToken(rest, p.payload[1])
               orig == rest[iOld]
    <2>2. rest \in Seq(Connection)
        BY DeleteTokenType
    <2>3. iOld \in 1 .. Len(rest)
        <3> HIDE DEF rest
        <3>1. iOld \in 0 .. Len(rest) /\ Len(rest) \in Nat
            BY <2>2, FindTokenProperties
        <3>2. iOld # 0
            BY <2>1 DEF rest
        <3> QED
            BY <3>1, <3>2
    <2>4. /\ susc_room' =
                [r \in Room |-> ReplaceFd(susc_room[r], orig.sockfd, fd)]
          /\ fdtab' = Closed(orig.sockfd)
          /\ epoll' = epoll \ {orig.sockfd}
          /\ up' = Drained(orig.sockfd, AfterRead(fd))
          /\ connections' = [rest EXCEPT ![iOld].sockfd = fd]
          /\ orig_conn' = iOld
        BY <2>1
    <2> HIDE DEF rest, iOld, orig
    <2>5. connections' \in Seq(Connection)
        <3>1. rest[iOld] \in Connection
            BY ONLY <2>2, <2>3, ElementOfSeq
        <3>2. [rest[iOld] EXCEPT !.sockfd = fd] \in Connection
            BY ONLY <3>1, fd \in Fd, 0 \in Nat, ConnectionType
        <3> QED
            BY ONLY <2>2, <2>3, <2>4, <3>2, ExceptSeq
    <2>6. susc_room' \in [Room -> Seq(Fd \cup {BadFd})]
        <3>1. ASSUME NEW r \in Room
              PROVE  ReplaceFd(susc_room[r], orig.sockfd, fd) \in Seq(Fd \cup {BadFd})
            BY ReplaceFdType
        <3> QED
            BY <2>4, <3>1
    <2>7. fdtab' \in [Fd -> Client \cup {NoClient}]
        BY <2>4, ClosedType
    <2>8. up' \in [Client -> Seq(Packet)]
        BY <2>4, AfterReadType, DrainedType
    <2>9. epoll' \subseteq Fd /\ orig_conn' \in Nat
        <3>1. Len(rest) \in Nat
            BY <2>2
        <3>2. orig_conn' \in Nat
            BY ONLY <2>3, <2>4, <3>1
        <3> QED
            BY <2>4, <3>2
    <2>10. packet' \in Packet
        BY <2>1, BufferedType, GarbageType DEF Read
    <2>11. /\ iter' = 1 /\ events' \subseteq events /\ pc' = "resend"
           /\ UNCHANGED <<backlog, down, peer, reset, fifo, mq, now,
                          buffer_packets, last_gc_time, owner, ft_threads>>
        BY <1>1 DEF RecvAuthAccepted
    <2>12. ListenReady' /\ IterStarted'
        BY <2>11
    <2>13. ServerTypeOK'
        <3>1. iter' \in Nat
            BY <2>11
        <3> QED
            BY <2>5, <2>6, <2>9, <2>10, <2>11, <3>1
    <2>14. IpcTypeOK'
        BY <2>7, <2>8, <2>11
    <2> QED
        BY <2>12, <2>13, <2>14
<1>2. CASE Resend
    <2> DEFINE p   == buffer_packets[iter]
               out == IF ToResend(connections[orig_conn], p) THEN <<p>> ELSE <<>>
    <2>1. down' = Written(To(connections[orig_conn].sockfd, out))
        BY <1>2 DEF Resend
    <2>2. p \in Packet
        <3>1. iter \in 1 .. Len(buffer_packets) /\ buffer_packets \in Seq(Packet)
            BY <1>2 DEF Resend
        <3> QED
            BY ONLY <3>1, ElementOfSeq
    <2>3. out \in Seq(Packet)
        <3> HIDE DEF p
        <3>1. <<p>> \in Seq(Packet) /\ <<>> \in Seq(Packet)
            BY <2>2
        <3> QED
            BY <3>1
    <2> HIDE DEF out
    <2>4. down' \in [Client -> Seq(Packet)]
        BY <2>1, <2>3, ToType, WrittenType
    <2>5. iter' \in Nat /\ iter' > 0
        <3>1. iter \in Nat /\ iter' = iter + 1
            BY <1>2 DEF Resend
        <3> QED
            BY ONLY <3>1
    <2> QED
        BY <1>2, <2>4, <2>5 DEF Resend
<1>3. CASE Resent
    BY <1>3 DEF Resent
<1> QED
    BY <1>1, <1>2, <1>3

\* The operator's commands.
LEMMA CliType ==
    TypeInv /\ CliEvent /\ UNCHANGED <<cliente, productor, cmds>> => TypeInv'
<1> SUFFICES ASSUME TypeInv, CliEvent, UNCHANGED <<cliente, productor, cmds>>
             PROVE  TypeInv'
    OBVIOUS
<1> USE DEF TypeInv, TypeOK, ListenReady, IterStarted, IpcTypeOK, ClienteTypeOK,
            ProductorTypeOK, ServerTypeOK, cliente, productor, ipc, tcp,
            resending
<1>1. ASSUME NEW cmd, NEW i, Commanded(cmd, i)
      PROVE  fifo' \in Seq(Command) /\ pc' = "mq"
    <2>1. fifo \in Seq(Command) /\ fifo # <<>> /\ fifo' = Tail(fifo)
        BY <1>1 DEF Commanded
    <2>2. fifo' \in Seq(Command)
        BY ONLY <2>1, HeadTailProperties
    <2> QED
        BY <1>1, <2>2 DEF Commanded
<1>2. ASSUME NEW i \in DOMAIN connections
      PROVE  /\ connections \in Seq(Connection) /\ i \in 1 .. Len(connections)
             /\ connections[i] \in Connection /\ now \in Nat
    BY <1>2
<1>3. CASE NoCommand
    BY <1>3 DEF NoCommand
<1>4. CASE RefuseCommand
    BY <1>1, <1>4 DEF RefuseCommand
<1>5. CASE CmdAdd
    <2>1. PICK cmd \in ToSet(fifo), i \in DOMAIN connections :
            /\ Commanded(cmd, i)
            /\ cmd.productor \in Room
            /\ susc_room' = [susc_room EXCEPT
                    ![cmd.productor] = Append(@, connections[i].sockfd)]
            /\ connections' = [connections EXCEPT ![i].susc_counter = @ + 1,
                                                  ![i].timestamp = now]
            /\ down' = Written(To(connections[i].sockfd,
                                  <<Control("CLI_ACCEPTED", <<>>)>>))
        BY <1>5 DEF CmdAdd
    <2>2. connections[i].sockfd \in Fd \cup {BadFd}
        BY <1>2 DEF Connection
    <2>3. susc_room' \in [Room -> Seq(Fd \cup {BadFd})]
        <3>1. Append(susc_room[cmd.productor], connections[i].sockfd)
                \in Seq(Fd \cup {BadFd})
            BY <2>1, <2>2
        <3> QED
            BY <2>1, <3>1
    <2>4. connections' \in Seq(Connection)
        <3> DEFINE conn == [connections[i] EXCEPT !.susc_counter = @ + 1,
                                                  !.timestamp = now]
        <3>1. BadFd \in Fd \cup {BadFd}
            OBVIOUS
        <3>2. conn \in Connection
            BY ONLY <1>2, <3>1, ConnectionType
        <3>3. connections' = [connections EXCEPT ![i] = conn]
            BY <1>2, <2>1 DEF Connection
        <3> HIDE DEF conn
        <3> QED
            BY ONLY <1>2, <3>2, <3>3, ExceptSeq
    <2>5. down' \in [Client -> Seq(Packet)]
        <3>1. Control("CLI_ACCEPTED", <<>>) \in Packet
            BY ControlPackets
        <3>2. <<Control("CLI_ACCEPTED", <<>>)>> \in Seq(Packet)
            BY <3>1
        <3> QED
            BY <2>1, <3>2, ToType, WrittenType
    <2>6. fifo' \in Seq(Command) /\ pc' = "mq"
        BY <1>1, <2>1
    <2> QED
        BY <1>5, <2>3, <2>4, <2>5, <2>6 DEF CmdAdd
<1>6. CASE CmdDel
    <2>1. PICK cmd \in ToSet(fifo), i \in DOMAIN connections :
            /\ Commanded(cmd, i)
            /\ cmd.productor \in Room
            /\ susc_room' = [susc_room EXCEPT
                    ![cmd.productor] = DeleteFd(@, connections[i].sockfd)]
            /\ connections' = [connections EXCEPT ![i].susc_counter = @ - 1,
                                                  ![i].timestamp = now]
        BY <1>6 DEF CmdDel
    <2>2. susc_room' \in [Room -> Seq(Fd \cup {BadFd})]
        <3>1. DeleteFd(susc_room[cmd.productor], connections[i].sockfd)
                \in Seq(Fd \cup {BadFd})
            BY <2>1, DeleteFdType
        <3> QED
            BY <2>1, <3>1
    <2>3. connections' \in Seq(Connection)
        <3> DEFINE conn == [connections[i] EXCEPT !.susc_counter = @ - 1,
                                                  !.timestamp = now]
        <3>1. BadFd \in Fd \cup {BadFd}
            OBVIOUS
        <3>2. conn \in Connection
            BY ONLY <1>2, <3>1, ConnectionType
        <3>3. connections' = [connections EXCEPT ![i] = conn]
            BY <1>2, <2>1 DEF Connection
        <3> HIDE DEF conn
        <3> QED
            BY ONLY <1>2, <3>2, <3>3, ExceptSeq
    <2>4. fifo' \in Seq(Command) /\ pc' = "mq"
        BY <1>1, <2>1
    <2> QED
        BY <1>6, <2>2, <2>3, <2>4 DEF CmdDel
<1>7. CASE CmdLog
    <2>1. PICK cmd \in ToSet(fifo), i \in DOMAIN connections :
            /\ Commanded(cmd, i)
            /\ ft_threads' = Append(ft_threads, connections[i].sockfd)
            /\ connections' = [connections EXCEPT ![i].timestamp = now]
        BY <1>7 DEF CmdLog
    <2>2. connections' \in Seq(Connection)
        <3>1. [connections[i] EXCEPT !.timestamp = now] \in Connection
            BY <1>2 DEF Connection
        <3> QED
            BY ONLY <1>2, <2>1, <3>1, ExceptSeq
    <2>3. ft_threads' \in Seq(Fd \cup {BadFd})
        <3>1. connections[i].sockfd \in Fd \cup {BadFd}
            BY <1>2 DEF Connection
        <3> QED
            BY <2>1, <3>1
    <2>4. fifo' \in Seq(Command) /\ pc' = "mq"
        BY <1>1, <2>1
    <2> QED
        BY <1>7, <2>2, <2>3, <2>4 DEF CmdLog
<1> QED
    BY <1>3, <1>4, <1>5, <1>6, <1>7 DEF CliEvent

\* The producers' messages.
LEMMA MqType ==
    TypeInv /\ (NoMessage \/ MqReceive) /\ UNCHANGED <<cliente, productor, cmds>>
        => TypeInv'
<1> SUFFICES ASSUME TypeInv, NoMessage \/ MqReceive,
                    UNCHANGED <<cliente, productor, cmds>>
             PROVE  TypeInv'
    OBVIOUS
<1> USE DEF TypeInv, TypeOK, ListenReady, IterStarted, IpcTypeOK, ClienteTypeOK,
            ProductorTypeOK, ServerTypeOK, cliente, productor, ipc, tcp,
            resending
<1>1. CASE NoMessage
    BY <1>1 DEF NoMessage
<1>2. CASE MqReceive
    <2> DEFINE m == Head(mq)
    <2>1. m \in Message /\ Tail(mq) \in Seq(Message)
        <3>1. mq \in Seq(Message) /\ mq # <<>>
            BY <1>2 DEF MqReceive
        <3> QED
            BY ONLY <3>1, HeadTailProperties
    <2>2. PICK fits \in BOOLEAN :
            /\ down' = Written(Broadcast(susc_room[m.id], DataPacket(m, fits)))
            /\ buffer_packets' = <<DataPacket(m, fits)>> \o buffer_packets
        BY <1>2 DEF MqReceive
    <2> HIDE DEF m
    <2>3. DataPacket(m, fits) \in Packet
        BY <2>1, DataPacketType
    <2>4. down' \in [Client -> Seq(Packet)]
        <3>1. susc_room[m.id] \in Seq(Fd \cup {BadFd})
            BY <2>1 DEF Message
        <3> QED
            BY <2>2, <2>3, <3>1, BroadcastType, WrittenType
    <2>5. buffer_packets' \in Seq(Packet)
        <3>1. <<DataPacket(m, fits)>> \in Seq(Packet) /\ buffer_packets \in Seq(Packet)
            BY <2>3
        <3> QED
            BY ONLY <2>2, <3>1, ConcatProperties
    <2> QED
        BY <1>2, <2>1, <2>4, <2>5 DEF MqReceive, m
<1> QED
    BY <1>1, <1>2

\* The collectors.
LEMMA CollectType ==
    TypeInv /\ UNCHANGED <<cliente, productor, cmds>>
        /\ (\/ CollectConnections \/ CollectConnection \/ ConnectionsCollected
            \/ CollectPackets \/ CollectPacket \/ PacketsCollected)
        => TypeInv'
<1> SUFFICES ASSUME TypeInv, UNCHANGED <<cliente, productor, cmds>>,
                    \/ CollectConnections \/ CollectConnection
                    \/ ConnectionsCollected
                    \/ CollectPackets \/ CollectPacket \/ PacketsCollected
             PROVE  TypeInv'
    OBVIOUS
<1> USE DEF TypeInv, TypeOK, ListenReady, IterStarted, IpcTypeOK, ClienteTypeOK,
            ProductorTypeOK, ServerTypeOK, cliente, productor, ipc, tcp,
            resending
<1>1. CASE CollectConnections
    BY <1>1 DEF CollectConnections
<1>2. CASE CollectConnection
    <2>1. PICK i \in DOMAIN connections :
            LET fd == connections[i].sockfd
            IN  /\ down' = Written(To(fd, <<Control("FIN", <<>>)>>))
                /\ epoll' = epoll \ {fd}
                /\ susc_room' = [r \in Room |-> DeleteFd(susc_room[r], fd)]
                /\ fdtab' = Closed(fd)
                /\ up' = Drained(fd, up)
                /\ connections' = RemoveAt(connections, i)
        BY <1>2 DEF CollectConnection
    <2> DEFINE fd == connections[i].sockfd
    <2>2. /\ down' = Written(To(fd, <<Control("FIN", <<>>)>>))
          /\ epoll' = epoll \ {fd}
          /\ susc_room' = [r \in Room |-> DeleteFd(susc_room[r], fd)]
          /\ fdtab' = Closed(fd)
          /\ up' = Drained(fd, up)
        BY <2>1
    <2>3. connections' \in Seq(Connection)
        <3>1. connections \in Seq(Connection) /\ i \in 1 .. Len(connections)
            BY <2>1
        <3> QED
            BY ONLY <2>1, <3>1, RemoveAtProperties
    <2> HIDE DEF fd
    <2>4. down' \in [Client -> Seq(Packet)]
        <3>1. Control("FIN", <<>>) \in Packet
            BY ControlPackets
        <3>2. <<Control("FIN", <<>>)>> \in Seq(Packet)
            BY <3>1
        <3> QED
            BY <2>2, <3>2, ToType, WrittenType
    <2>5. susc_room' \in [Room -> Seq(Fd \cup {BadFd})]
        BY <2>2, DeleteFdType
    <2>6. /\ fdtab' \in [Fd -> Client \cup {NoClient}]
          /\ up' \in [Client -> Seq(Packet)]
          /\ epoll' \subseteq Fd
        BY <2>2, ClosedType, DrainedType
    <2> QED
        BY <1>2, <2>3, <2>4, <2>5, <2>6 DEF CollectConnection
<1>3. CASE ConnectionsCollected
    BY <1>3 DEF ConnectionsCollected
<1>4. CASE CollectPackets
    BY <1>4 DEF CollectPackets
<1>5. CASE CollectPacket
    <2>1. PICK i \in DOMAIN buffer_packets :
            buffer_packets' = RemoveAt(buffer_packets, i)
        BY <1>5 DEF CollectPacket
    <2>2. buffer_packets' \in Seq(Packet)
        <3>1. buffer_packets \in Seq(Packet) /\ i \in 1 .. Len(buffer_packets)
            BY <2>1
        <3> QED
            BY ONLY <2>1, <3>1, RemoveAtProperties
    <2> QED
        BY <1>5, <2>2 DEF CollectPacket
<1>6. CASE PacketsCollected
    BY <1>6 DEF PacketsCollected
<1> QED
    BY <1>1, <1>2, <1>3, <1>4, <1>5, <1>6

\* All the steps of the server.
LEMMA ServerType == TypeInv /\ Server => TypeInv'
BY PollType, AcceptType, ReadType, ResendType, CliType, MqType, CollectType
   DEF Server, ServerStep, ClientEvent

\* Every step keeps the types.
LEMMA TypeStep == TypeInv /\ [Next]_vars => TypeInv'
<1>1. TypeInv /\ Next => TypeInv'
    BY ClientsType, ProducersType, OperatorsType, ServerType, ThreadType,
       KernelType, TickType DEF Next
<1>2. TypeInv /\ UNCHANGED vars => TypeInv'
    BY DEF TypeInv, TypeOK, ListenReady, IterStarted, IpcTypeOK,
           ClienteTypeOK, ProductorTypeOK, ServerTypeOK, vars, ipc, tcp,
           cliente, productor, server
<1> QED
    BY <1>1, <1>2

\* Every variable keeps its type: what a process reads from a socket, from the
\* queue or from the FIFO is what another one wrote there, every descriptor the
\* server uses is one accept returned, and accept is never called in vain.
THEOREM TypeCorrect == Spec => []TypeOK
<1>1. TypeInv => TypeOK
    BY DEF TypeInv
<1> QED
    BY <1>1, TypeInit, TypeStep, PTL DEF Spec
=============================================================================
