--------------------------- MODULE DeliveryProofs ---------------------------
(***************************************************************************)
(* What travels between the server and its clients: the order in which a   *)
(* connection carries its packets, and what their arrival says about the   *)
(* sessions. Then, from the same lemmas: the server implements PubSub;     *)
(* what it does keep of the promises it breaks; every turn of its loop     *)
(* ends.                                                                   *)
(***************************************************************************)
EXTENDS SessionProofs

-----------------------------------------------------------------------------
(* The sockets.                                                            *)

\* A write appends to what is in the socket, as far as there is room.
LEMMA PushIndices ==
    ASSUME NEW queue \in Seq(Packet), NEW pkts \in Seq(Packet)
    PROVE  /\ Push(queue, pkts) \in Seq(Packet)
           /\ \A i \in DOMAIN Push(queue, pkts) :
                \/ i \in DOMAIN queue /\ Push(queue, pkts)[i] = queue[i]
                \/ \E j \in DOMAIN pkts :
                      i = Len(queue) + j /\ Push(queue, pkts)[i] = pkts[j]
           /\ SndBuf # 0 /\ (queue # <<>> \/ pkts # <<>>) =>
                Push(queue, pkts) # <<>>
           /\ queue = <<>> /\ (SndBuf = 0 \/ pkts = <<>>) =>
                Push(queue, pkts) = <<>>
<1> DEFINE q == queue \o pkts
           m == Len(queue)
           n == Len(pkts)
<1>1. /\ q \in Seq(Packet) /\ Len(q) = m + n /\ m \in Nat /\ n \in Nat
      /\ SndBuf \in Nat
      /\ \A i \in 1 .. m + n : q[i] = IF i <= m THEN queue[i] ELSE pkts[i - m]
    BY ConcatProperties, IpcAssumption
<1>2. /\ DOMAIN queue = 1 .. m /\ DOMAIN pkts = 1 .. n
      /\ queue = <<>> <=> m = 0
      /\ pkts = <<>> <=> n = 0
    BY EmptySeq
<1> DEFINE r == Push(queue, pkts)
           k == IF m + n <= SndBuf THEN m + n ELSE SndBuf
<1>3. /\ r \in Seq(Packet) /\ Len(r) = k /\ k \in Nat /\ k <= m + n
      /\ \A i \in 1 .. k : r[i] = q[i]
    <2>1. CASE m + n <= SndBuf
        <3>1. r = q
            BY <2>1 DEF Push
        <3> HIDE DEF q, r, m, n
        <3> QED
            BY <1>1, <2>1, <3>1
    <2>2. CASE ~(m + n <= SndBuf)
        <3>1. r = SubSeq(q, 1, SndBuf)
            BY <2>2 DEF Push
        <3> HIDE DEF q, r, m, n
        <3>2. \A i \in 1 .. SndBuf : q[i] \in Packet
            BY <1>1, <2>2, ElementOfSeq
        <3>3. /\ r \in Seq(Packet) /\ Len(r) = SndBuf
              /\ \A i \in 1 .. SndBuf : r[i] = q[i]
            BY <1>1, <3>1, <3>2, SubSeqProperties
        <3> QED
            BY <1>1, <2>2, <3>3
    <2> QED
        BY <2>1, <2>2
<1>4. r = <<>> <=> k = 0
    BY <1>3, EmptySeq
<1>5. SndBuf # 0 /\ (m # 0 \/ n # 0) => k # 0
    BY <1>1
<1>6. m = 0 /\ (SndBuf = 0 \/ n = 0) => k = 0
    BY <1>1
<1> HIDE DEF q, r, m, n, k
<1>7. ASSUME NEW i \in DOMAIN r
      PROVE  \/ i \in DOMAIN queue /\ r[i] = queue[i]
             \/ \E j \in DOMAIN pkts : i = m + j /\ r[i] = pkts[j]
    <2>1. i \in 1 .. k /\ i \in 1 .. m + n
        BY <1>1, <1>3
    <2>2. CASE i <= m
        BY <1>1, <1>2, <1>3, <2>1, <2>2
    <2>3. CASE ~(i <= m)
        <3>1. i - m \in DOMAIN pkts /\ i = m + (i - m) /\ r[i] = pkts[i - m]
            BY <1>1, <1>2, <1>3, <2>1, <2>3
        <3> QED
            BY <3>1
    <2> QED
        BY <2>2, <2>3
<1> QED
    BY <1>2, <1>3, <1>4, <1>5, <1>6, <1>7 DEF m, r

\* ... which is all there is when the socket was empty.
LEMMA PushEmpty ==
    ASSUME NEW queue \in Seq(Packet), Len(queue) = 0, NEW pkts \in Seq(Packet)
    PROVE  /\ \A i \in DOMAIN Push(queue, pkts) :
                i \in DOMAIN pkts /\ Push(queue, pkts)[i] = pkts[i]
           /\ Len(pkts) = 0 => Push(queue, pkts) = <<>>
<1>1. DOMAIN queue = {} /\ \A j \in DOMAIN pkts : Len(queue) + j = j
    OBVIOUS
<1>2. \A i \in DOMAIN Push(queue, pkts) :
         \/ i \in DOMAIN queue
         \/ \E j \in DOMAIN pkts : i = Len(queue) + j /\ Push(queue, pkts)[i] = pkts[j]
    BY PushIndices
<1>3. Len(pkts) = 0 => Push(queue, pkts) = <<>>
    <2>1. queue = <<>> /\ (Len(pkts) = 0 => pkts = <<>>)
        BY EmptySeq
    <2> QED
        BY <2>1, PushIndices
<1> QED
    BY <1>1, <1>2, <1>3

\* A queue that is read loses its first packet.
LEMMA TailIndices ==
    ASSUME NEW queue \in Seq(Packet), queue # <<>>
    PROVE  /\ Head(queue) = queue[1] /\ 1 \in DOMAIN queue
           /\ Tail(queue) \in Seq(Packet)
           /\ \A i \in DOMAIN Tail(queue) :
                i \in Nat /\ i + 1 \in DOMAIN queue /\ Tail(queue)[i] = queue[i + 1]
                /\ i # 0
<1>1. /\ Head(queue) = queue[1] /\ Len(queue) > 0 /\ Len(queue) \in Nat
      /\ Tail(queue) \in Seq(Packet) /\ Len(Tail(queue)) = Len(queue) - 1
      /\ \A i \in 1 .. Len(Tail(queue)) : Tail(queue)[i] = queue[i + 1]
    BY HeadTailProperties, EmptySeq
<1>2. /\ DOMAIN queue = 1 .. Len(queue)
      /\ DOMAIN Tail(queue) = 1 .. Len(queue) - 1
    BY <1>1
<1> QED
    BY <1>1, <1>2

-----------------------------------------------------------------------------
(* What a step does to a connection.                                       *)

\* What the server writes to the client c behind the descriptor fd.
Outbox(fd, c, out) ==
    \/ RecvAuthRejected(fd) /\ out = <<Control("FIN", <<>>)>>
    \/ /\ CollectConnection /\ out = <<Control("FIN", <<>>)>>
       /\ \E a \in Entries \ Entries' : a.sockfd = fd
    \/ CmdAdd /\ out = <<Control("CLI_ACCEPTED", <<>>)>>
    \/ FtSetup /\ out = <<Control("FT_SETUP", <<>>)>>
    \/ /\ Resend /\ fd = connections[orig_conn].sockfd
       /\ \E p \in ToSet(buffer_packets) : out = <<p>>
    \/ /\ MqReceive
       /\ \E fits \in BOOLEAN :
             out = Broadcast(susc_room[Head(mq).id], DataPacket(Head(mq), fits))[c]

\* What a step does to the packets on their way to c.
DownStep(c) ==
    \/ down'[c] = down[c]
    \/ c \notin reset /\ down'[c] = Push(down[c], <<>>)
    \/ /\ c \notin reset
       /\ \E fd \in Fd, out \in Seq(Packet) :
             fdtab[fd] = c /\ Outbox(fd, c, out) /\ down'[c] = Push(down[c], out)
    \/ /\ Accept /\ c = Head(backlog) /\ c \notin reset
       /\ down'[c] = Push(down[c], <<Control("CONN_ACCEPTED", <<Len(owner) + 1>>)>>)
    \/ ClientStep(c) /\ down[c] # <<>> /\ down'[c] = Tail(down[c])
    \/ down'[c] = <<>> /\ c \in reset'

\* A write to one descriptor reaches the client behind it, or nobody.
LEMMA WriteTo ==
    ASSUME OwnedInv, NEW fd, NEW pkts, down' = Written(To(fd, pkts)), NEW c \in Client
    PROVE  \/ down'[c] = down[c]
           \/ c \notin reset /\ down'[c] = Push(down[c], <<>>)
           \/ /\ c \notin reset /\ fd \in Fd /\ fdtab[fd] = c
              /\ down'[c] = Push(down[c], pkts)
<1>1. down'[c] = IF c \in reset THEN down[c] ELSE Push(down[c], To(fd, pkts)[c])
    BY DEF Written
<1>2. To(fd, pkts)[c] = IF c = At(fd) THEN pkts ELSE <<>>
    BY DEF To
<1>3. c = At(fd) => fd \in Fd /\ fdtab[fd] = c
    BY OwnedTypes DEF At
<1> QED
    BY <1>1, <1>2, <1>3

\* ... which is a step of its connection.
LEMMA WriteOut ==
    ASSUME OwnedInv, NEW fd, NEW pkts \in Seq(Packet), NEW c \in Client,
           down' = Written(To(fd, pkts)),
           fd \in Fd => Outbox(fd, c, pkts)
    PROVE  DownStep(c)
BY WriteTo DEF DownStep

\* ... and so does a broadcast.
LEMMA WriteAll ==
    ASSUME OwnedInv, NEW r \in Room, NEW p \in Packet,
           down' = Written(Broadcast(susc_room[r], p)), NEW c \in Client
    PROVE  \/ down'[c] = down[c]
           \/ c \notin reset /\ down'[c] = Push(down[c], <<>>)
           \/ /\ c \notin reset /\ \E fd \in Fd : fdtab[fd] = c
              /\ Broadcast(susc_room[r], p)[c] \in Seq(Packet)
              /\ down'[c] = Push(down[c], Broadcast(susc_room[r], p)[c])
<1> DEFINE room   == susc_room[r]
           out    == Broadcast(room, p)
           copies == {i \in DOMAIN room : At(room[i]) = c}
<1>1. room \in Seq(Fd \cup {BadFd})
    BY RoomTypes
<1>2. out \in [Client -> Seq(Packet)]
    BY <1>1, BroadcastType
<1>3. down'[c] = IF c \in reset THEN down[c] ELSE Push(down[c], out[c])
    BY DEF Written
<1>4. out[c] = [i \in 1 .. Cardinality(copies) |-> p]
    BY DEF Broadcast
<1> HIDE DEF out
<1>5. CASE copies = {}
    <2>1. Cardinality(copies) = 0
        BY <1>5, FS_EmptySet
    <2>2. out[c] = <<>>
        <3> DEFINE o == out[c]
        <3>1. o \in Seq(Packet) /\ DOMAIN o = 1 .. 0
            BY <1>2, <1>4, <2>1
        <3> HIDE DEF o
        <3>2. Len(o) = 0
            BY <3>1
        <3>3. o = <<>>
            BY <3>1, <3>2, EmptySeq
        <3> QED
            BY <3>3 DEF o
    <2> QED
        BY <1>3, <2>2
<1>6. CASE copies # {}
    <2>1. PICK i \in DOMAIN room : At(room[i]) = c
        BY <1>6
    <2>2. room[i] \in Fd /\ fdtab[room[i]] = c
        BY <2>1, OwnedTypes DEF At
    <2> QED
        BY <1>2, <1>3, <2>2 DEF out
<1> QED
    BY <1>5, <1>6

\* Every step moves the packets of every connection in one of these ways.
LEMMA DownMoves ==
    ASSUME OwnedInv, [Next]_vars, NEW c \in Client
    PROVE  DownStep(c)
<1>1. CASE \/ Producers \/ Operators \/ Tick \/ UNCHANGED vars
           \/ \E d \in Client, t \in PrintedTokens : Start(d, t)
    BY <1>1 DEF Producers, Stamp, MqSend, GiveUp, Operators, Operator, Tick,
                vars, ipc, tcp, Start, DownStep
<1>2. CASE \E d \in Client : ClientStep(d) \/ Kill(d)
    <2>1. PICK d \in Client : ClientStep(d) \/ Kill(d)
        BY <1>2
    <2>2. CASE Kill(d)
        BY <2>2 DEF Kill, DownStep
    <2>3. CASE ClientStep(d)
        <3>1. down[d] # <<>> /\ down' = [down EXCEPT ![d] = Tail(@)]
            BY <2>3 DEF ClientStep, RecvConnAccepted, RecvData, RecvFin,
                        RecvUnanswered, Recv
        <3>2. down'[c] = IF c = d THEN Tail(down[c]) ELSE down[c]
            BY <3>1, OwnedTypes DEF IpcTypeOK
        <3> QED
            BY <2>3, <3>1, <3>2 DEF DownStep
    <2> QED
        BY <2>1, <2>2, <2>3
<1>3. CASE Thread
    <2>1. FtSetup
        BY <1>3 DEF Thread
    <2>2. \/ down' = down
          \/ \E fd : down' = Written(To(fd, <<Control("FT_SETUP", <<>>)>>))
        BY <2>1 DEF FtSetup
    <2> DEFINE out == <<Control("FT_SETUP", <<>>)>>
    <2>3. out \in Seq(Packet)
        BY ControlPackets
    <2>4. \A fd : Outbox(fd, c, out)
        BY <2>1 DEF Outbox
    <2>5. \/ down' = down
          \/ \E fd : down' = Written(To(fd, out))
        BY <2>2
    <2> HIDE DEF out
    <2> QED
        BY <2>3, <2>4, <2>5, WriteOut DEF DownStep
<1>4. CASE Kernel
    <2>1. PICK d \in Client : KernelReset(d)
        BY <1>4 DEF Kernel
    <2>2. /\ down' = [down EXCEPT ![d] = <<>>] /\ d \in reset'
          /\ down \in [Client -> Seq(Packet)]
        BY <2>1, OwnedTypes DEF KernelReset, IpcTypeOK
    <2> QED
        BY <2>2 DEF DownStep
<1>5. CASE \/ Poll \/ Resent \/ NoCommand \/ RefuseCommand \/ NoMessage
           \/ CmdDel \/ CmdLog \/ AcceptFails
           \/ CollectConnections \/ ConnectionsCollected
           \/ CollectPackets \/ CollectPacket \/ PacketsCollected
           \/ \E fd \in Fd : \/ HangUp(fd) \/ ReadFails(fd) \/ ReadInvalid(fd)
                             \/ RecvAck(fd) \/ RecvUnknownAck(fd)
                             \/ RecvAuthAccepted(fd)
    <2>1. CASE \/ Poll \/ Resent \/ NoCommand \/ RefuseCommand \/ NoMessage
               \/ CmdDel \/ CmdLog \/ AcceptFails
               \/ CollectConnections \/ ConnectionsCollected
               \/ CollectPackets \/ CollectPacket \/ PacketsCollected
        BY <2>1 DEF Poll, Resent, NoCommand, RefuseCommand, NoMessage, CmdDel,
                    CmdLog, AcceptFails, CollectConnections,
                    ConnectionsCollected, CollectPackets, CollectPacket,
                    PacketsCollected, ipc, tcp, DownStep
    <2>2. CASE \E fd \in Fd : \/ HangUp(fd) \/ ReadFails(fd) \/ ReadInvalid(fd)
                              \/ RecvAck(fd) \/ RecvUnknownAck(fd)
                              \/ RecvAuthAccepted(fd)
        BY <2>2 DEF HangUp, ReadFails, ReadInvalid, RecvAck, RecvUnknownAck,
                    RecvAuthAccepted, ipc, tcp, DownStep
    <2> QED
        BY <1>5, <2>1, <2>2
<1>6. CASE Accept
    <2> DEFINE hello == Control("CONN_ACCEPTED", <<Len(owner) + 1>>)
               d     == Head(backlog)
    <2>1. down' = [down EXCEPT ![d] = IF d \in reset THEN @ ELSE Push(@, <<hello>>)]
        BY <1>6 DEF Accept
    <2>2. down \in [Client -> Seq(Packet)]
        BY OwnedTypes DEF IpcTypeOK
    <2> HIDE DEF hello, d
    <2>3. down'[c] = IF c = d /\ c \notin reset THEN Push(down[c], <<hello>>)
                     ELSE down[c]
        BY <2>1, <2>2
    <2> QED
        BY <1>6, <2>3 DEF DownStep, d, hello
<1>7. CASE \E fd \in Fd : RecvAuthRejected(fd)
    <2>1. PICK fd \in Fd : RecvAuthRejected(fd)
        BY <1>7
    <2> DEFINE out == <<Control("FIN", <<>>)>>
    <2>2. down' = Written(To(fd, out))
        BY <2>1 DEF RecvAuthRejected
    <2>3. out \in Seq(Packet)
        BY ControlPackets
    <2>4. Outbox(fd, c, out)
        BY <2>1 DEF Outbox
    <2> HIDE DEF out
    <2> QED
        BY <2>2, <2>3, <2>4, WriteOut
<1>8. CASE CollectConnection
    <2>1. PICK i \in DOMAIN connections :
            /\ down' = Written(To(connections[i].sockfd, <<Control("FIN", <<>>)>>))
            /\ connections' = RemoveAt(connections, i)
        BY <1>8 DEF CollectConnection
    <2> DEFINE out == <<Control("FIN", <<>>)>>
               fd  == connections[i].sockfd
    <2>2. out \in Seq(Packet) /\ down' = Written(To(fd, out))
        BY <2>1, ControlPackets
    <2>3. connections[i] \in Entries \ Entries'
        BY <2>1, OwnedTypes, ElementsDef, RemoveEntry DEF OwnedInv, Entries
    <2>4. Outbox(fd, c, out)
        BY <1>8, <2>3 DEF Outbox
    <2> HIDE DEF out, fd
    <2> QED
        BY <2>2, <2>4, WriteOut
<1>9. CASE CmdAdd
    <2> DEFINE out == <<Control("CLI_ACCEPTED", <<>>)>>
    <2>1. \E fd : down' = Written(To(fd, out))
        BY <1>9 DEF CmdAdd
    <2>2. out \in Seq(Packet)
        BY ControlPackets
    <2>3. \A fd : Outbox(fd, c, out)
        BY <1>9 DEF Outbox
    <2> HIDE DEF out
    <2> QED
        BY <2>1, <2>2, <2>3, WriteOut
<1>10. CASE Resend
    <2> DEFINE p   == buffer_packets[iter]
               out == IF ToResend(connections[orig_conn], p) THEN <<p>> ELSE <<>>
               fd  == connections[orig_conn].sockfd
    <2>1. down' = Written(To(fd, out))
        BY <1>10 DEF Resend
    <2>2. buffer_packets \in Seq(Packet)
        BY DEF OwnedInv, TypeInv, TypeOK, ServerTypeOK
    <2>3. iter \in DOMAIN buffer_packets
        <3>1. iter \in Nat /\ iter > 0 /\ iter <= Len(buffer_packets)
            BY <1>10 DEF Resend, OwnedInv, TypeInv, TypeOK, ServerTypeOK, IterStarted
        <3> QED
            BY <2>2, <3>1
    <2>4. p \in ToSet(buffer_packets) /\ <<p>> \in Seq(Packet)
        BY <2>2, <2>3, ElementsDef
    <2>5. out = <<p>> \/ out = <<>>
        OBVIOUS
    <2>6. fd = connections[orig_conn].sockfd
        OBVIOUS
    <2> HIDE DEF p, out, fd
    <2>7. \/ down'[c] = down[c]
          \/ c \notin reset /\ down'[c] = Push(down[c], <<>>)
          \/ /\ c \notin reset /\ fd \in Fd /\ fdtab[fd] = c
             /\ down'[c] = Push(down[c], out)
        BY <2>1, WriteTo
    <2>8. fd \in Fd /\ out = <<p>> => Outbox(fd, c, out)
        BY <1>10, <2>4, <2>6 DEF Outbox
    <2> QED
        BY <2>4, <2>5, <2>7, <2>8 DEF DownStep
<1>11. CASE MqReceive
    <2> DEFINE m == Head(mq)
    <2>1. m \in Message
        <3>1. mq \in Seq(Message) /\ mq # <<>>
            BY <1>11 DEF MqReceive, OwnedInv, TypeInv, TypeOK, IpcTypeOK
        <3> QED
            BY ONLY <3>1, HeadTailProperties
    <2>2. PICK fits \in BOOLEAN :
            down' = Written(Broadcast(susc_room[m.id], DataPacket(m, fits)))
        BY <1>11 DEF MqReceive
    <2>3. DataPacket(m, fits) \in Packet /\ m.id \in Room
        <3>1. now \in Nat
            BY OwnedTypes DEF IpcTypeOK
        <3> HIDE DEF m
        <3> QED
            BY <2>1, <3>1, DataPacketType DEF Message
    <2> DEFINE out == Broadcast(susc_room[m.id], DataPacket(m, fits))[c]
    <2>4. \A fd \in Fd : Outbox(fd, c, out)
        BY <1>11 DEF Outbox
    <2>5. \/ down'[c] = down[c]
          \/ c \notin reset /\ down'[c] = Push(down[c], <<>>)
          \/ /\ c \notin reset /\ \E fd \in Fd : fdtab[fd] = c
             /\ out \in Seq(Packet) /\ down'[c] = Push(down[c], out)
        <3> HIDE DEF m
        <3> QED
            BY <2>2, <2>3, WriteAll
    <2> HIDE DEF out, m
    <2> QED
        BY <2>4, <2>5 DEF DownStep
<1> QED
    BY <1>1, <1>2, <1>3, <1>4, <1>5, <1>6, <1>7, <1>8, <1>9, <1>10, <1>11
       DEF Next, Clients, Server, ServerStep, ClientEvent, CliEvent

\* What the client c writes: an answer to the first packet it has not read.
Answered(c, out) ==
    \/ /\ RecvConnAccepted(c) /\ old[c] # 0
       /\ out = <<Auth(old[c], Head(down[c]).payload[1]), Ack(old[c])>>
    \/ /\ RecvConnAccepted(c) /\ old[c] = 0
       /\ out = <<Ack(Head(down[c]).payload[1])>>
    \/ RecvData(c) /\ out = <<Ack(token[c])>>

\* What a step does to the packets on their way from c.
UpStep(c) ==
    \/ up'[c] = up[c]
    \/ up'[c] = <<>>
    \/ up[c] # <<>> /\ up'[c] = Tail(up[c])
    \/ \E out \in Seq(Packet) : Answered(c, out) /\ up'[c] = up[c] \o out

\* The answers are packets.
LEMMA AnswerType ==
    ASSUME OwnedInv, NEW c \in Client, NEW out, Answered(c, out)
    PROVE  out \in Seq(Packet)
<1>1. old[c] \in Nat /\ token[c] \in Nat
    BY OwnedTypes
<1>2. CASE RecvData(c) /\ out = <<Ack(token[c])>>
    <2>1. Ack(token[c]) \in Packet
        BY <1>1, ControlPackets
    <2> DEFINE p == Ack(token[c])
    <2>2. p \in Packet /\ out = <<p>>
        BY <1>2, <2>1
    <2> HIDE DEF p
    <2> QED
        BY <2>2
<1>3. CASE RecvConnAccepted(c)
    <2>1. PICK p \in ToSet(down[c]) :
            p = Head(down[c]) /\ p.mtype = "CONN_ACCEPTED"
        BY <1>3 DEF RecvConnAccepted, Recv
    <2>2. p \in Packet
        BY OwnedTypes, ElementsDef
    <2>3. Head(down[c]).payload[1] \in Nat
        BY <2>1, <2>2, PayloadType
    <2> DEFINE t == Head(down[c]).payload[1]
    <2>4. Auth(old[c], t) \in Packet /\ Ack(old[c]) \in Packet /\ Ack(t) \in Packet
        BY <1>1, <2>3, ControlPackets
    <2> DEFINE a == Auth(old[c], t)
               q == Ack(old[c])
               r == Ack(t)
               s == Ack(token[c])
    <2>5. /\ a \in Packet /\ q \in Packet /\ r \in Packet /\ s \in Packet
          /\ out = <<a, q>> \/ out = <<r>> \/ out = <<s>>
        BY <1>1, <2>4, ControlPackets DEF Answered
    <2> HIDE DEF a, q, r, s
    <2>6. \A x, y \in Packet : <<x, y>> \in Seq(Packet) /\ <<x>> \in Seq(Packet)
        OBVIOUS
    <2> QED
        BY ONLY <2>5, <2>6
<1> QED
    BY <1>2, <1>3 DEF Answered

\* Every step moves the answers of every client in one of these ways.
LEMMA UpMoves ==
    ASSUME OwnedInv, [Next]_vars, NEW c \in Client
    PROVE  UpStep(c)
<1>1. CASE \/ Producers \/ Operators \/ Tick \/ UNCHANGED vars \/ Thread \/ Kernel
           \/ \E d \in Client, t \in PrintedTokens : Start(d, t)
    BY <1>1 DEF Producers, Stamp, MqSend, GiveUp, Operators, Operator, Tick,
                vars, ipc, tcp, Start, Thread, FtSetup, Kernel, KernelReset,
                UpStep
<1>2. CASE \E d \in Client : ClientStep(d) \/ Kill(d)
    <2>1. PICK d \in Client : ClientStep(d) \/ Kill(d)
        BY <1>2
    <2>2. CASE Kill(d) \/ RecvFin(d) \/ RecvUnanswered(d)
        BY <2>2 DEF Kill, RecvFin, RecvUnanswered, UpStep
    <2>3. ASSUME NEW out, Answered(d, out), Answer(d, out)
          PROVE  UpStep(c)
        <3>1. out \in Seq(Packet)
            BY <2>3, AnswerType
        <3>2. up' = IF Connected(d) THEN [up EXCEPT ![d] = @ \o out] ELSE up
            BY <2>3 DEF Answer
        <3>3. up \in [Client -> Seq(Packet)]
            BY OwnedTypes DEF IpcTypeOK
        <3>4. up'[c] = up[c] \/ (c = d /\ up'[c] = up[c] \o out)
            BY <3>2, <3>3
        <3> QED
            BY <2>3, <3>1, <3>4 DEF UpStep
    <2>4. CASE RecvData(d)
        <3>1. Answer(d, <<Ack(token[d])>>)
            BY <2>4 DEF RecvData
        <3>2. Answered(d, <<Ack(token[d])>>)
            BY <2>4 DEF Answered
        <3> QED
            BY <2>3, <3>1, <3>2
    <2>5. CASE RecvConnAccepted(d)
        <3> DEFINE t == Head(down[d]).payload[1]
        <3>1. \/ old[d] # 0 /\ Answer(d, <<Auth(old[d], t), Ack(old[d])>>)
              \/ old[d] = 0 /\ Answer(d, <<Ack(t)>>)
            BY <2>5 DEF RecvConnAccepted, Recv
        <3>2. CASE old[d] # 0
            <4>1. Answered(d, <<Auth(old[d], t), Ack(old[d])>>)
                BY <2>5, <3>2 DEF Answered
            <4> HIDE DEF t
            <4> QED
                BY <2>3, <3>1, <3>2, <4>1
        <3>3. CASE old[d] = 0
            <4>1. Answered(d, <<Ack(t)>>)
                BY <2>5, <3>3 DEF Answered
            <4> HIDE DEF t
            <4> QED
                BY <2>3, <3>1, <3>3, <4>1
        <3> QED
            BY <3>2, <3>3
    <2> QED
        BY <2>1, <2>2, <2>4, <2>5 DEF ClientStep
<1>3. CASE \/ Poll \/ Resent \/ Resend \/ NoMessage \/ MqReceive
           \/ CliEvent \/ Accept \/ AcceptFails
           \/ CollectConnections \/ ConnectionsCollected
           \/ CollectPackets \/ CollectPacket \/ PacketsCollected
    BY <1>3 DEF Poll, Resent, Resend, CliEvent, NoCommand, RefuseCommand,
                CmdAdd, CmdDel, CmdLog, NoMessage, MqReceive, Accept,
                AcceptFails, CollectConnections, ConnectionsCollected,
                CollectPackets, CollectPacket, PacketsCollected, ipc, tcp, UpStep
<1>4. ASSUME NEW fd
      PROVE  \/ AfterRead(fd)[c] = up[c]
             \/ up[c] # <<>> /\ AfterRead(fd)[c] = Tail(up[c])
    BY DEF AfterRead
<1>5. CASE \E fd \in Fd : \/ HangUp(fd) \/ ReadFails(fd) \/ ReadInvalid(fd)
                          \/ RecvAck(fd) \/ RecvUnknownAck(fd)
                          \/ RecvAuthRejected(fd)
    <2>1. up' = up \/ \E fd \in Fd : up' = AfterRead(fd)
        BY <1>5 DEF HangUp, ReadFails, ReadInvalid, RecvAck, RecvUnknownAck,
                    RecvAuthRejected, ipc, tcp
    <2> QED
        BY <1>4, <2>1 DEF UpStep
<1>6. ASSUME NEW fd, NEW inq
      PROVE  Drained(fd, inq)[c] = inq[c] \/ Drained(fd, inq)[c] = <<>>
    BY DEF Drained
<1>7. CASE \E fd \in Fd : RecvAuthAccepted(fd)
    <2>1. \E fd, g : up' = Drained(g, AfterRead(fd))
        BY <1>7 DEF RecvAuthAccepted
    <2> QED
        BY <1>4, <1>6, <2>1 DEF UpStep
<1>8. CASE CollectConnection
    <2>1. \E g : up' = Drained(g, up)
        BY <1>8 DEF CollectConnection
    <2> QED
        BY <1>6, <2>1 DEF UpStep
<1> QED
    BY <1>1, <1>2, <1>3, <1>5, <1>7, <1>8
       DEF Next, Clients, Server, ServerStep, ClientEvent

\* Every step moves the messages of the producers in one of these ways.
LEMMA QueueMoves ==
    ASSUME OwnedInv, [Next]_vars
    PROVE  /\ \/ UNCHANGED <<mq, msg, count>>
              \/ /\ MqReceive /\ mq # <<>> /\ mq' = Tail(mq)
                 /\ UNCHANGED <<msg, count>>
              \/ \E r \in Room : Stamp(r) \/ MqSend(r) \/ GiveUp(r)
           /\ now' = now \/ now' = now + 1
<1>1. CASE Clients \/ Operators \/ Thread \/ Kernel \/ Tick \/ UNCHANGED vars
    BY <1>1 DEF Clients, Start, ClientStep, RecvConnAccepted, RecvData, RecvFin,
                RecvUnanswered, Recv, Kill, Operators, Operator, Thread,
                FtSetup, Kernel, KernelReset, Tick, vars, ipc, productor
<1>2. CASE Producers
    BY <1>2 DEF Producers, Stamp, MqSend, GiveUp, ipc
<1>3. ASSUME UNCHANGED productor,
             \/ Poll \/ Resent \/ Resend \/ NoMessage \/ CliEvent \/ Accept \/ AcceptFails
             \/ CollectConnections \/ CollectConnection \/ ConnectionsCollected
             \/ CollectPackets \/ CollectPacket \/ PacketsCollected
      PROVE  UNCHANGED <<mq, msg, count, now>>
    BY <1>3 DEF Poll, Resent, Resend, CliEvent, NoCommand, RefuseCommand,
                CmdAdd, CmdDel, CmdLog, NoMessage, Accept, AcceptFails,
                CollectConnections, CollectConnection, ConnectionsCollected,
                CollectPackets, CollectPacket, PacketsCollected, ipc, productor
<1>4. ASSUME UNCHANGED productor,
             \E fd \in Fd : \/ HangUp(fd) \/ ReadFails(fd) \/ ReadInvalid(fd)
                            \/ RecvAck(fd) \/ RecvUnknownAck(fd)
                            \/ RecvAuthRejected(fd) \/ RecvAuthAccepted(fd)
      PROVE  UNCHANGED <<mq, msg, count, now>>
    BY <1>4 DEF HangUp, ReadFails, ReadInvalid, RecvAck, RecvUnknownAck,
                RecvAuthRejected, RecvAuthAccepted, ipc, productor
<1>5. CASE MqReceive /\ UNCHANGED productor
    BY <1>5 DEF MqReceive, productor
<1> QED
    BY <1>1, <1>2, <1>3, <1>4, <1>5 DEF Next, Server, ServerStep, ClientEvent

\* Only messages enter the buffer.
LEMMA BufferMoves ==
    ASSUME OwnedInv, [Next]_vars, NEW p \in ToSet(buffer_packets')
    PROVE  \/ p \in ToSet(buffer_packets)
           \/ MqReceive /\ \E fits \in BOOLEAN : p = DataPacket(Head(mq), fits)
<1>0. buffer_packets \in Seq(Packet)
    BY DEF OwnedInv, TypeInv, TypeOK, ServerTypeOK
<1>1. CASE buffer_packets' = buffer_packets
    BY <1>1
<1>2. CASE MqReceive
    <2> DEFINE m == Head(mq)
    <2>1. m \in Message
        <3>1. mq \in Seq(Message) /\ mq # <<>>
            BY <1>2 DEF MqReceive, OwnedInv, TypeInv, TypeOK, IpcTypeOK
        <3> QED
            BY ONLY <3>1, HeadTailProperties
    <2>2. PICK fits \in BOOLEAN :
            buffer_packets' = <<DataPacket(m, fits)>> \o buffer_packets
        BY <1>2 DEF MqReceive
    <2>3. DataPacket(m, fits) \in Packet
        <3>1. now \in Nat
            BY OwnedTypes DEF IpcTypeOK
        <3> HIDE DEF m
        <3> QED
            BY <2>1, <3>1, DataPacketType
    <2> DEFINE q == DataPacket(m, fits)
    <2>4. q \in Packet /\ buffer_packets' = <<q>> \o buffer_packets
        BY <2>2, <2>3
    <2>5. q = DataPacket(Head(mq), fits)
        OBVIOUS
    <2> HIDE DEF q, m
    <2>6. <<q>> \in Seq(Packet) /\ ToSet(<<q>>) = {q}
        BY <2>4 DEF ToSet
    <2>7. ToSet(buffer_packets') \subseteq {q} \cup ToSet(buffer_packets)
        BY <1>0, <2>4, <2>6, ConcatElements
    <2> QED
        BY <1>2, <2>5, <2>7
<1>3. CASE CollectPacket
    <2>1. PICK i \in DOMAIN buffer_packets :
                buffer_packets' = RemoveAt(buffer_packets, i)
        BY <1>3 DEF CollectPacket
    <2> QED
        BY <1>0, <2>1, RemoveAtElements, ElementsDef
<1>4. ASSUME \/ Clients \/ Operators \/ Thread \/ Kernel \/ Tick
             \/ UNCHANGED vars \/ Producers
      PROVE  buffer_packets' = buffer_packets
    BY <1>4 DEF Clients, Operators, Operator, Thread, FtSetup, Kernel, Tick, vars,
                server, Producers
<1>5. ASSUME \/ Poll \/ Resent \/ Resend \/ NoMessage \/ CliEvent \/ Accept \/ AcceptFails
             \/ CollectConnections \/ CollectConnection \/ ConnectionsCollected
             \/ CollectPackets \/ PacketsCollected
      PROVE  buffer_packets' = buffer_packets
    BY <1>5 DEF Poll, Resent, Resend, CliEvent, NoCommand, RefuseCommand,
                CmdAdd, CmdDel, CmdLog, NoMessage, Accept, AcceptFails,
                CollectConnections, CollectConnection, ConnectionsCollected,
                CollectPackets, PacketsCollected
<1>6. ASSUME \E fd \in Fd : \/ HangUp(fd) \/ ReadFails(fd) \/ ReadInvalid(fd)
                            \/ RecvAck(fd) \/ RecvUnknownAck(fd)
                            \/ RecvAuthRejected(fd) \/ RecvAuthAccepted(fd)
      PROVE  buffer_packets' = buffer_packets
    BY <1>6 DEF HangUp, ReadFails, ReadInvalid, RecvAck, RecvUnknownAck,
                RecvAuthRejected, RecvAuthAccepted
<1> QED
    BY <1>1, <1>2, <1>3, <1>4, <1>5, <1>6 DEF Next, Server, ServerStep, ClientEvent

\* What the server sends: a control packet, a packet of the buffer, or the
\* message it has taken from the queue.
LEMMA Arrivals ==
    ASSUME OwnedInv, [Next]_vars, NEW c \in Client, NEW p \in ToSet(down'[c])
    PROVE  \/ p \in ToSet(down[c])
           \/ \E type, payload : p = Control(type, payload)
           \/ p \in ToSet(buffer_packets)
           \/ MqReceive /\ \E fits \in BOOLEAN : p = DataPacket(Head(mq), fits)
<1>1. down[c] \in Seq(Packet) /\ ToSet(<<>>) = {} /\ <<>> \in Seq(Packet)
    BY OwnedTypes DEF ToSet
<1>2. ASSUME NEW out \in Seq(Packet), down'[c] = Push(down[c], out)
      PROVE  p \in ToSet(down[c]) \/ p \in ToSet(out)
    BY <1>1, <1>2, PushElements
<1>3. \A q : ToSet(<<q>>) = {q}
    BY DEF ToSet
<1>4. CASE \E fd \in Fd, out \in Seq(Packet) :
             Outbox(fd, c, out) /\ down'[c] = Push(down[c], out)
    <2>1. PICK fd \in Fd, out \in Seq(Packet) :
             Outbox(fd, c, out) /\ down'[c] = Push(down[c], out)
        BY <1>4
    <2>2. p \in ToSet(down[c]) \/ p \in ToSet(out)
        BY <1>2, <2>1
    <2>3. CASE \E type : out = <<Control(type, <<>>)>>
        BY <1>3, <2>2, <2>3
    <2>4. CASE \E q \in ToSet(buffer_packets) : out = <<q>>
        BY <1>3, <2>2, <2>4
    <2>5. CASE /\ MqReceive
               /\ \E fits \in BOOLEAN :
                     out = Broadcast(susc_room[Head(mq).id], DataPacket(Head(mq), fits))[c]
        <3>1. PICK fits \in BOOLEAN :
                out = Broadcast(susc_room[Head(mq).id], DataPacket(Head(mq), fits))[c]
            BY <2>5
        <3>2. ToSet(out) \subseteq {DataPacket(Head(mq), fits)}
            BY <3>1 DEF Broadcast, ToSet
        <3> QED
            BY <2>2, <2>5, <3>2
    <2> QED
        BY <2>1, <2>3, <2>4, <2>5 DEF Outbox
<1>5. CASE down'[c] = Push(down[c], <<Control("CONN_ACCEPTED", <<Len(owner) + 1>>)>>)
    <2> DEFINE hello == Control("CONN_ACCEPTED", <<Len(owner) + 1>>)
    <2> DEFINE out == <<hello>>
    <2>1. Len(owner) + 1 \in Nat
        BY OwnedTypes
    <2>2. hello \in Packet
        BY <2>1, ControlPackets
    <2>3. hello = Control("CONN_ACCEPTED", <<Len(owner) + 1>>)
          /\ down'[c] = Push(down[c], out)
        BY <1>5
    <2> HIDE DEF hello
    <2>4. out \in Seq(Packet) /\ ToSet(out) = {hello}
        BY <1>3, <2>2
    <2> HIDE DEF out
    <2> QED
        BY <1>2, <2>3, <2>4
<1>6. CASE down[c] # <<>> /\ down'[c] = Tail(down[c])
    BY <1>1, <1>6, HeadTailElements
<1> QED
    BY <1>1, <1>2, <1>4, <1>5, <1>6, DownMoves DEF DownStep

-----------------------------------------------------------------------------
(* Checksums.                                                              *)

\* A packet is intact, or a message whose second passed before it was hashed, or
\* one that did not fit.
LateOrCut(p) ==
    ~check_packet_MD5(p) =>
        /\ p.mtype = "DATA"
        /\ \/ p.payload = <<>> /\ p.hash = ZeroHash
           \/ p.hash = MD5(p.mtype, p.hash[2], p.payload) /\ p.timestamp < p.hash[2]

\* No stamp is ahead of the clock.
StampsPast ==
    /\ \A m \in ToSet(mq) : m.timestamp <= now
    /\ \A r \in Room : msg[r] <= now

PacketsLateOrCut ==
    /\ \A c \in Client : \A p \in ToSet(down[c]) : LateOrCut(p)
    /\ \A p \in ToSet(buffer_packets) : LateOrCut(p)

\* A control packet is intact.
LEMMA ControlIntact ==
    ASSUME NEW type, NEW payload
    PROVE  check_packet_MD5(Control(type, payload))
BY DEF Control, gen_packet, check_packet_MD5, MD5

\* The packet of a message fails for the two reasons only.
LEMMA DataLateOrCut ==
    ASSUME NEW m \in Message, NEW fits \in BOOLEAN, now \in Nat, m.timestamp <= now
    PROVE  LateOrCut(DataPacket(m, fits))
<1> DEFINE p == DataPacket(m, fits)
<1>1. m.timestamp \in Nat
    BY DEF Message
<1>2. CASE fits
    <2>1. p = [mtype |-> "DATA", timestamp |-> m.timestamp, payload |-> <<m.id, m.n>>,
               hash |-> <<"DATA", now, <<m.id, m.n>>>>]
        BY <1>2 DEF DataPacket, gen_packet, MD5
    <2> HIDE DEF p
    <2>2. /\ p.hash = <<"DATA", now, p.payload>> /\ p.mtype = "DATA"
          /\ p.timestamp = m.timestamp /\ p.hash[2] = now
        BY <2>1
    <2>3. m.timestamp < now \/ m.timestamp = now
        BY <1>1
    <2> QED
        BY <2>2, <2>3 DEF LateOrCut, check_packet_MD5, MD5, p
<1>3. CASE ~fits
    <2>1. p = [mtype |-> "DATA", timestamp |-> m.timestamp, payload |-> <<>>,
               hash |-> ZeroHash]
        BY <1>3 DEF DataPacket, gen_packet
    <2> HIDE DEF p
    <2> QED
        BY <2>1 DEF LateOrCut, p
<1> QED
    BY <1>2, <1>3

\* The clock does not go back, and a message leaves with the stamp it was given.
LEMMA StampsStep == OwnedInv /\ StampsPast /\ [Next]_vars => StampsPast'
<1> SUFFICES ASSUME OwnedInv, StampsPast, [Next]_vars
             PROVE  StampsPast'
    OBVIOUS
<1>1. /\ now \in Nat /\ mq \in Seq(Message)
      /\ msg \in [Room -> Nat \cup {-1}] /\ count \in [Room -> Nat]
    BY DEF OwnedInv, TypeInv, TypeOK, IpcTypeOK, ProductorTypeOK
<1>2. now' \in Nat /\ now <= now'
    BY <1>1, QueueMoves
<1>3. \A x \in Nat \cup {-1} : x <= now => x <= now'
    BY <1>1, <1>2
<1>4. \A m \in ToSet(mq) : m.timestamp <= now'
    <2>1. \A m \in ToSet(mq) : m \in Message
        BY <1>1, ElementsDef
    <2>3. \A m \in Message : m.timestamp \in Nat
        BY DEF Message
    <2> QED
        BY <1>3, <2>1, <2>3 DEF StampsPast
<1>5. \A r \in Room : msg[r] <= now'
    BY <1>1, <1>3 DEF StampsPast
<1>6. CASE UNCHANGED <<mq, msg, count>>
    BY <1>4, <1>5, <1>6 DEF StampsPast
<1>7. CASE mq # <<>> /\ mq' = Tail(mq) /\ UNCHANGED <<msg, count>>
    <2>1. ToSet(Tail(mq)) \subseteq ToSet(mq)
        BY <1>1, <1>7, HeadTailElements
    <2> QED
        BY <1>4, <1>5, <1>7, <2>1 DEF StampsPast
<1>8. ASSUME NEW r \in Room, Stamp(r) \/ GiveUp(r)
      PROVE  StampsPast'
    <2>1. /\ mq' = mq /\ now' = now
          /\ msg' = [msg EXCEPT ![r] = now] \/ msg' = [msg EXCEPT ![r] = -1]
        BY <1>8 DEF Stamp, GiveUp, ipc
    <2>2. \A s \in Room : msg'[s] = msg[s] \/ msg'[s] = now \/ msg'[s] = -1
        BY <1>1, <2>1
    <2> QED
        BY <1>1, <1>4, <1>5, <2>1, <2>2 DEF StampsPast
<1>9. ASSUME NEW r \in Room, MqSend(r)
      PROVE  StampsPast'
    <2> DEFINE m == [id |-> r, timestamp |-> msg[r], n |-> count[r]]
    <2>1. /\ mq' = Append(mq, m) /\ now' = now /\ msg[r] # -1
          /\ msg' = [msg EXCEPT ![r] = -1]
        BY <1>9 DEF MqSend
    <2>2. m \in Message /\ m.timestamp = msg[r]
        BY <1>1, <2>1 DEF Message
    <2> HIDE DEF m
    <2>3. ToSet(mq') = ToSet(mq) \cup {m}
        BY <1>1, <2>1, <2>2, AppendElements
    <2>4. \A s \in Room : msg'[s] = msg[s] \/ msg'[s] = -1
        BY <1>1, <2>1
    <2> QED
        BY <1>1, <1>4, <1>5, <2>1, <2>2, <2>3, <2>4 DEF StampsPast
<1> QED
    BY <1>6, <1>7, <1>8, <1>9, QueueMoves

\* Nothing but such packets is sent or kept.
LEMMA LateStep ==
    OwnedInv /\ StampsPast /\ PacketsLateOrCut /\ [Next]_vars => PacketsLateOrCut'
<1> SUFFICES ASSUME OwnedInv, StampsPast, PacketsLateOrCut, [Next]_vars
             PROVE  PacketsLateOrCut'
    OBVIOUS
<1>1. ASSUME MqReceive, NEW fits \in BOOLEAN
      PROVE  LateOrCut(DataPacket(Head(mq), fits))
    <2>1. mq \in Seq(Message) /\ mq # <<>> /\ now \in Nat
        BY <1>1 DEF MqReceive, OwnedInv, TypeInv, TypeOK, IpcTypeOK
    <2>2. Head(mq) \in ToSet(mq) /\ Head(mq) \in Message
        BY <2>1, HeadTailElements, ElementsDef
    <2> QED
        BY <2>1, <2>2, DataLateOrCut DEF StampsPast
<1>2. \A type, payload : LateOrCut(Control(type, payload))
    BY ControlIntact DEF LateOrCut
<1>3. \A c \in Client : \A p \in ToSet(down'[c]) : LateOrCut(p)
    BY <1>1, <1>2, Arrivals DEF PacketsLateOrCut
<1>4. \A p \in ToSet(buffer_packets') : LateOrCut(p)
    BY <1>1, BufferMoves DEF PacketsLateOrCut
<1> QED
    BY <1>3, <1>4 DEF PacketsLateOrCut

\* At first there are no packets.
LEMMA LateInit == Init => StampsPast /\ PacketsLateOrCut
<1> SUFFICES ASSUME Init
             PROVE  StampsPast /\ PacketsLateOrCut
    OBVIOUS
<1>1. /\ mq = <<>> /\ now = 0 /\ buffer_packets = <<>>
      /\ \A r \in Room : msg[r] = -1
      /\ \A c \in Client : down[c] = <<>>
    BY DEF Init, IpcInit, ProductorInit, ServerInit
<1>2. ToSet(<<>>) = {}
    BY DEF ToSet
<1> QED
    BY <1>1, <1>2 DEF StampsPast, PacketsLateOrCut

\* A client receives a packet with a wrong checksum only in two cases: the second
\* changed between the stamp of the producer and gen_packet, which hashes the
\* clock and is then given the stamp, or the text did not fit and gen_packet
\* returned before it hashed.  In every other case, whatever is resent from the
\* buffer to whomever, the client can trust the packet.
THEOREM ChecksumsFailLate == Spec => []ChecksumFailsLate
<1>1. PacketsLateOrCut => ChecksumFailsLate
    BY DEF PacketsLateOrCut, LateOrCut, ChecksumFailsLate
<1> DEFINE Inv == OwnedInv /\ StampsPast /\ PacketsLateOrCut
<1>2. Init => Inv
    BY OwnedInit, LateInit
<1>3. Inv /\ [Next]_vars => Inv'
    BY OwnedStep, StampsStep, LateStep
<1>4. Inv => ChecksumFailsLate
    BY <1>1
<1> HIDE DEF Inv
<1> QED
    BY <1>2, <1>3, <1>4, PTL DEF Spec

-----------------------------------------------------------------------------
(* What a step does to the sessions and the clients.                       *)

\* Tokens are issued to the connection that is accepted, or to nobody.
LEMMA OwnerMoves ==
    ASSUME OwnedInv, [Next]_vars
    PROVE  \/ owner' = owner
           \/ Accept /\ owner' = Append(owner, Head(backlog))
           \/ AcceptFails /\ owner' = Append(owner, NoClient)
<1>1. CASE Accept \/ AcceptFails
    BY <1>1 DEF Accept, AcceptFails
<1>2. ASSUME \/ Clients \/ Operators \/ Thread \/ Kernel \/ Tick
             \/ UNCHANGED vars \/ Producers
      PROVE  owner' = owner
    BY <1>2 DEF Clients, Operators, Operator, Thread, FtSetup, Kernel, Tick, vars,
                server, Producers
<1>3. ASSUME \/ Poll \/ Resent \/ Resend \/ NoMessage \/ MqReceive \/ CliEvent
             \/ CollectConnections \/ CollectConnection \/ ConnectionsCollected
             \/ CollectPackets \/ CollectPacket \/ PacketsCollected
      PROVE  owner' = owner
    BY <1>3 DEF Poll, Resent, Resend, CliEvent, NoCommand, RefuseCommand,
                CmdAdd, CmdDel, CmdLog, NoMessage, MqReceive,
                CollectConnections, CollectConnection, ConnectionsCollected,
                CollectPackets, CollectPacket, PacketsCollected
<1>4. ASSUME \E fd \in Fd : \/ HangUp(fd) \/ ReadFails(fd) \/ ReadInvalid(fd)
                            \/ RecvAck(fd) \/ RecvUnknownAck(fd)
                            \/ RecvAuthRejected(fd) \/ RecvAuthAccepted(fd)
      PROVE  owner' = owner
    BY <1>4 DEF HangUp, ReadFails, ReadInvalid, RecvAck, RecvUnknownAck,
                RecvAuthRejected, RecvAuthAccepted
<1> QED
    BY <1>1, <1>2, <1>3, <1>4 DEF Next, Server, ServerStep, ClientEvent

\* A token that was issued stays its client's.
LEMMA OwnerKept ==
    ASSUME OwnedInv, [Next]_vars
    PROVE  /\ ToSet(owner) \subseteq ToSet(owner')
           /\ \A t \in DOMAIN owner : t \in DOMAIN owner' /\ owner'[t] = owner[t]
           /\ \A c \in Client : c \in ToSet(owner') => \/ c \in ToSet(owner)
                                                       \/ Accept /\ c = Head(backlog)
<1>1. owner \in Seq(Client \cup {NoClient}) /\ backlog \in Seq(Client)
      /\ NoClient \notin Client
    BY OwnedTypes
<1>2. Accept => Head(backlog) \in Client \cup {NoClient}
    <2>1. Accept => backlog # <<>>
        BY DEF Accept, Handling, OwnedInv, TypeInv, ListenReady
    <2> QED
        BY <1>1, <2>1, HeadTailProperties
<1>3. ASSUME NEW x \in Client \cup {NoClient}
      PROVE  /\ ToSet(Append(owner, x)) = ToSet(owner) \cup {x}
             /\ \A t \in DOMAIN owner :
                    t \in DOMAIN Append(owner, x) /\ Append(owner, x)[t] = owner[t]
    <2>1. ToSet(Append(owner, x)) = ToSet(owner) \cup {x}
        BY <1>1, AppendElements
    <2>2. /\ Len(Append(owner, x)) = Len(owner) + 1 /\ Len(owner) \in Nat
          /\ \A i \in 1 .. Len(owner) : Append(owner, x)[i] = owner[i]
          /\ Append(owner, x) \in Seq(Client \cup {NoClient})
        BY <1>1, AppendProperties
    <2> QED
        BY <1>1, <2>1, <2>2
<1> QED
    BY <1>1, <1>2, <1>3, OwnerMoves

\* Only a connection with unread packets is reset.
LEMMA ResetMoves ==
    ASSUME OwnedInv, [Next]_vars
    PROVE  \/ reset' = reset
           \/ \E d \in Client : down[d] # <<>> /\ reset' = reset \cup {d}
<1>1. CASE Kernel
    BY <1>1 DEF Kernel, KernelReset
<1>2. ASSUME \/ Clients \/ Operators \/ Thread \/ Tick
             \/ UNCHANGED vars \/ Producers
      PROVE  reset' = reset
    BY <1>2 DEF Clients, Start, ClientStep, RecvConnAccepted, RecvData, RecvFin,
                RecvUnanswered, Recv, Kill, Operators, Operator, Thread,
                FtSetup, Tick, vars, ipc, tcp, Producers, Stamp, MqSend, GiveUp
<1>3. ASSUME \/ Poll \/ Resent \/ Resend \/ NoMessage \/ MqReceive \/ CliEvent
             \/ Accept \/ AcceptFails
             \/ CollectConnections \/ CollectConnection \/ ConnectionsCollected
             \/ CollectPackets \/ CollectPacket \/ PacketsCollected
      PROVE  reset' = reset
    BY <1>3 DEF Poll, Resent, Resend, CliEvent, NoCommand, RefuseCommand,
                CmdAdd, CmdDel, CmdLog, NoMessage, MqReceive, Accept, AcceptFails,
                CollectConnections, CollectConnection, ConnectionsCollected,
                CollectPackets, CollectPacket, PacketsCollected, ipc, tcp
<1>4. ASSUME \E fd \in Fd : \/ HangUp(fd) \/ ReadFails(fd) \/ ReadInvalid(fd)
                            \/ RecvAck(fd) \/ RecvUnknownAck(fd)
                            \/ RecvAuthRejected(fd) \/ RecvAuthAccepted(fd)
      PROVE  reset' = reset
    BY <1>4 DEF HangUp, ReadFails, ReadInvalid, RecvAck, RecvUnknownAck,
                RecvAuthRejected, RecvAuthAccepted, ipc, tcp
<1> QED
    BY <1>1, <1>2, <1>3, <1>4 DEF Next, Server, ServerStep, ClientEvent

\* A client reads the first packet.
LEMMA ClientReads ==
    ASSUME OwnedInv, NEW c \in Client, ClientStep(c)
    PROVE  down[c] # <<>> /\ down'[c] = Tail(down[c]) /\ peer[c] = "open"
<1>1. down[c] # <<>> /\ down' = [down EXCEPT ![c] = Tail(@)] /\ peer[c] = "open"
    BY DEF ClientStep, RecvConnAccepted, RecvData, RecvFin, RecvUnanswered, Recv
<1> QED
    BY <1>1, OwnedTypes DEF IpcTypeOK

\* A client is given its older token when it starts, and its own with the first
\* CONN_ACCEPTED.
LEMMA ClienteMoves ==
    ASSUME OwnedInv, [Next]_vars, NEW c \in Client
    PROVE  \/ old'[c] = old[c] /\ token'[c] = token[c]
           \/ /\ peer[c] = "unborn"
              /\ UNCHANGED <<up, down, reset, owner, fdtab, connections>>
           \/ /\ RecvConnAccepted(c) /\ old'[c] = old[c] /\ old[c] = 0
              /\ token'[c] = Head(down[c]).payload[1]
<1>0. old \in [Client -> Nat] /\ token \in [Client -> Nat]
    BY OwnedTypes
<1>1. ASSUME NEW d \in Client, NEW t, Start(d, t), UNCHANGED server
      PROVE  \/ old'[c] = old[c] /\ token'[c] = token[c]
             \/ /\ peer[c] = "unborn"
                /\ UNCHANGED <<up, down, reset, owner, fdtab, connections>>
    BY <1>0, <1>1 DEF Start, server
<1>2. ASSUME NEW d \in Client, ClientStep(d) \/ Kill(d)
      PROVE  \/ old'[c] = old[c] /\ token'[c] = token[c]
             \/ /\ RecvConnAccepted(c) /\ old'[c] = old[c] /\ old[c] = 0
                /\ token'[c] = Head(down[c]).payload[1]
    <2>1. CASE RecvConnAccepted(d)
        <3>1. /\ old' = old
              /\ \/ token' = token
                 \/ /\ old[d] = 0
                    /\ token' = [token EXCEPT ![d] = Head(down[d]).payload[1]]
            BY <2>1 DEF RecvConnAccepted, Recv
        <3> QED
            BY <1>0, <2>1, <3>1
    <2> QED
        BY <1>2, <2>1 DEF ClientStep, RecvData, RecvFin, RecvUnanswered, Kill
<1>3. ASSUME ~Clients
      PROVE  UNCHANGED cliente
    BY <1>3 DEF Next, Producers, Operators, Operator, Server, Thread, Kernel,
                Tick, vars
<1> QED
    BY <1>1, <1>2, <1>3 DEF Clients, cliente

\* The server sends CONN_ACCEPTED when it accepts, and FIN when it rejects an
\* AUTH or collects a session.
LEMMA OutboxKinds ==
    ASSUME OwnedInv, NEW c \in Client, NEW fd \in Fd, NEW out \in Seq(Packet),
           Outbox(fd, c, out), NEW q \in ToSet(out)
    PROVE  /\ q.mtype # "CONN_ACCEPTED"
           /\ q.mtype = "FIN" =>
                \/ RecvAuthRejected(fd)
                \/ CollectConnection /\ \E a \in Entries \ Entries' : a.sockfd = fd
<1>1. \A x : ToSet(<<x>>) = {x}
    BY DEF ToSet
<1>2. CASE RecvAuthRejected(fd) /\ out = <<Control("FIN", <<>>)>>
    BY <1>1, <1>2, ControlFields
<1>3. CASE /\ CollectConnection /\ out = <<Control("FIN", <<>>)>>
           /\ \E a \in Entries \ Entries' : a.sockfd = fd
    BY <1>1, <1>3, ControlFields
<1>4. CASE out = <<Control("CLI_ACCEPTED", <<>>)>>
    BY <1>1, <1>4, ControlFields
<1>5. CASE out = <<Control("FT_SETUP", <<>>)>>
    BY <1>1, <1>5, ControlFields
<1>6. CASE \E p \in ToSet(buffer_packets) : out = <<p>>
    <2>1. q.mtype = "DATA"
        BY <1>1, <1>6 DEF OwnedInv, Travelling
    <2> QED
        BY <2>1
<1>7. CASE \E m, fits : out = Broadcast(susc_room[m.id], DataPacket(m, fits))[c]
    <2>1. PICK m, fits : out = Broadcast(susc_room[m.id], DataPacket(m, fits))[c]
        BY <1>7
    <2>2. q = DataPacket(m, fits)
        BY <2>1 DEF Broadcast, ToSet
    <2>3. q.mtype = "DATA"
        BY <2>2 DEF DataPacket, gen_packet
    <2> QED
        BY <2>3
<1> QED
    BY <1>2, <1>3, <1>4, <1>5, <1>6, <1>7 DEF Outbox

\* A step that leaves every session its token and its descriptor.
Unmoved ==
    /\ UNCHANGED <<fdtab, owner>>
    /\ \A a \in Entries' : \E b \in Entries : a.token = b.token /\ a.sockfd = b.sockfd
    /\ \A b \in Entries : \E a \in Entries' : a.token = b.token /\ a.sockfd = b.sockfd

\* A sign of life or a command changes one entry, and not what it is an entry of.
LEMMA EntryTouched ==
    ASSUME OwnedInv, CmdAdd \/ CmdDel \/ CmdLog \/ \E fd \in Fd : RecvAck(fd),
           UNCHANGED cliente
    PROVE  /\ Unmoved
           /\ \E i \in DOMAIN connections, e \in Connection :
                /\ e.token = connections[i].token /\ e.sockfd = connections[i].sockfd
                /\ connections' = [connections EXCEPT ![i] = e]
<1>1. UNCHANGED <<fdtab, owner, old>>
    BY DEF CmdAdd, CmdDel, CmdLog, RecvAck, tcp, cliente
<1>2. PICK i \in DOMAIN connections :
        \/ connections' = [connections EXCEPT ![i].susc_counter = @ + 1,
                                              ![i].timestamp = now]
        \/ connections' = [connections EXCEPT ![i].susc_counter = @ - 1,
                                              ![i].timestamp = now]
        \/ connections' = [connections EXCEPT ![i].timestamp = now]
    <2>1. CASE CmdAdd \/ CmdDel \/ CmdLog
        BY <2>1 DEF CmdAdd, CmdDel, CmdLog
    <2>2. CASE \E fd \in Fd : RecvAck(fd)
        <3>1. PICK t : /\ FindToken(connections, t) # 0
                       /\ connections' = [connections EXCEPT
                                ![FindToken(connections, t)].timestamp = now]
            BY <2>2 DEF RecvAck
        <3>2. FindToken(connections, t) \in DOMAIN connections
            BY <3>1, TokenFound, OwnedTypes
        <3> QED
            BY <3>1, <3>2
    <2> QED
        BY <2>1, <2>2
<1>3. connections[i] \in Connection /\ now \in Nat
      /\ connections \in Seq(Connection) /\ BadFd \in Fd \cup {BadFd}
    BY OwnedTypes DEF IpcTypeOK
<1>4. PICK e \in Connection :
        /\ e.token = connections[i].token /\ e.sockfd = connections[i].sockfd
        /\ connections' = [connections EXCEPT ![i] = e]
    <2> DEFINE plus  == [connections[i] EXCEPT !.susc_counter = @ + 1, !.timestamp = now]
               minus == [connections[i] EXCEPT !.susc_counter = @ - 1, !.timestamp = now]
               same  == [connections[i] EXCEPT !.timestamp = now]
    <2>1. plus \in Connection /\ minus \in Connection /\ same \in Connection
        BY ONLY <1>3, ConnectionType
    <2>2. /\ plus.token = connections[i].token /\ plus.sockfd = connections[i].sockfd
          /\ minus.token = connections[i].token /\ minus.sockfd = connections[i].sockfd
          /\ same.token = connections[i].token /\ same.sockfd = connections[i].sockfd
        BY <1>3 DEF Connection
    <2>3. \/ connections' = [connections EXCEPT ![i] = plus]
          \/ connections' = [connections EXCEPT ![i] = minus]
          \/ connections' = [connections EXCEPT ![i] = same]
        BY <1>2, <1>3 DEF Connection
    <2> HIDE DEF plus, minus, same
    <2> QED
        BY <2>1, <2>2, <2>3
<1>5. /\ Entries' = (Entries \ {connections[i]}) \cup {e}
      /\ \A a \in Entries' : \E b \in Entries : a.token = b.token /\ a.sockfd = b.sockfd
    BY <1>1, <1>4, SameSessions
<1>6. \A b \in Entries : \E a \in Entries' : a.token = b.token /\ a.sockfd = b.sockfd
    BY <1>4, <1>5
<1> QED
    BY <1>1, <1>4, <1>5, <1>6 DEF Unmoved

\* What a step does to the sessions.
LEMMA SessionMoves ==
    ASSUME OwnedInv, [Next]_vars
    PROVE  \/ Unmoved
           \/ (Accept \/ AcceptFails) /\ UNCHANGED <<cliente, productor, cmds>>
           \/ /\ \E fd \in Fd : RecvAuthRejected(fd) \/ RecvAuthAccepted(fd)
              /\ UNCHANGED <<cliente, productor, cmds>>
           \/ CollectConnection /\ UNCHANGED <<cliente, productor, cmds>>
<1>1. ASSUME UNCHANGED <<fdtab, owner, connections>>
      PROVE  Unmoved
    BY <1>1 DEF Unmoved, Entries
<1>2. CASE Clients \/ Producers \/ Operators \/ Thread \/ Kernel \/ Tick \/ UNCHANGED vars
    <2>1. UNCHANGED <<fdtab, owner, connections>>
        BY <1>2 DEF Clients, Start, ClientStep, RecvConnAccepted, RecvData,
                    RecvFin, RecvUnanswered, Recv, Kill, Producers, Stamp, MqSend,
                    GiveUp, Operators, Operator, Thread, FtSetup, Kernel,
                    KernelReset, Tick, vars, ipc, tcp, server
    <2> QED
        BY <1>1, <2>1
<1>3. CASE Server
    <2>1. UNCHANGED <<cliente, productor, cmds>> /\ ServerStep
        BY <1>3 DEF Server
    <2>2. CASE \/ CmdAdd \/ CmdDel \/ CmdLog \/ \E fd \in Fd : RecvAck(fd)
        BY <2>1, <2>2, EntryTouched
    <2>3. ASSUME \/ Poll \/ Resent \/ Resend \/ NoCommand \/ RefuseCommand
                 \/ NoMessage \/ MqReceive
                 \/ CollectConnections \/ ConnectionsCollected
                 \/ CollectPackets \/ CollectPacket \/ PacketsCollected
          PROVE  UNCHANGED <<fdtab, owner, connections>>
        BY <2>3 DEF Poll, Resent, Resend, NoCommand, RefuseCommand, NoMessage,
                    MqReceive, CollectConnections, ConnectionsCollected,
                    CollectPackets, CollectPacket, PacketsCollected, ipc, tcp
    <2>4. ASSUME \E fd \in Fd : \/ HangUp(fd) \/ ReadFails(fd) \/ ReadInvalid(fd)
                                \/ RecvUnknownAck(fd)
          PROVE  UNCHANGED <<fdtab, owner, connections>>
        BY <2>4 DEF HangUp, ReadFails, ReadInvalid, RecvUnknownAck, ipc, tcp
    <2> QED
        BY <1>1, <2>1, <2>2, <2>3, <2>4 DEF ServerStep, ClientEvent, CliEvent
<1> QED
    BY <1>2, <1>3 DEF Next

\* An accept gives a new session to a client that had none.
LEMMA AcceptFacts ==
    ASSUME OwnedInv, Accept
    PROVE  \E fd \in Fd :
             /\ fdtab[fd] = NoClient /\ Head(backlog) \in Client
             /\ Head(backlog) \notin ToSet(owner)
             /\ Head(backlog) \in ToSet(backlog)
             /\ fdtab' = [fdtab EXCEPT ![fd] = Head(backlog)]
             /\ owner' = Append(owner, Head(backlog))
             /\ connections' = Append(connections, NewConnection(fd))
<1> DEFINE fd == Min(FreeFd)
           c  == Head(backlog)
<1>1. /\ fdtab' = [fdtab EXCEPT ![fd] = c]
      /\ owner' = Append(owner, c)
      /\ connections' = Append(connections, NewConnection(fd))
    BY DEF Accept
<1>2. fd \in Fd /\ fdtab[fd] = NoClient
    <2>1. FreeFd \in SUBSET Nat /\ FreeFd # {}
        BY IpcAssumption DEF Accept, FreeFd, Fd
    <2>2. Min(FreeFd) \in FreeFd
        BY <2>1, MinNat
    <2> QED
        BY <2>2 DEF FreeFd
<1> HIDE DEF fd
<1>3. backlog \in Seq(Client) /\ backlog # <<>>
    BY OwnedTypes DEF Accept, Handling, OwnedInv, TypeInv, ListenReady
<1>4. c \in ToSet(backlog) /\ c \in Client
    BY <1>3, HeadTailElements, ElementsDef
<1>5. c \notin ToSet(owner)
    BY <1>4 DEF OwnedInv, Wired
<1> QED
    BY <1>1, <1>2, <1>4, <1>5

\* The session a client was issued is at the client's own descriptor, when the
\* client is there to recover another one.
LEMMA AskerEntry ==
    ASSUME OwnedInv, NEW a \in Entries, NEW fd \in Fd, fdtab[fd] \in Client,
           owner[a.token] = fdtab[fd], old[fdtab[fd]] # 0
    PROVE  a.sockfd = fd
<1>1. /\ EntryOwned(a) /\ a \in Connection
    BY OwnedTypes DEF OwnedInv, EntriesOwned
<1>2. a.sockfd # BadFd /\ a.sockfd \in Fd /\ fdtab[a.sockfd] \in Client
    BY <1>1, OwnedTypes DEF EntryOwned, Connection
<1>3. owner[a.token] = fdtab[a.sockfd] \/ old[fdtab[a.sockfd]] = a.token
    BY <1>1, <1>2 DEF EntryOwned
<1>4. ASSUME old[fdtab[a.sockfd]] = a.token
      PROVE  FALSE
    <2>1. a.token # 0
        BY <1>1, OwnedTypes DEF EntryOwned
    <2>2. old[owner[a.token]] = 0
        BY <1>2, <1>4, <2>1 DEF OwnedInv, PlainOld
    <2> QED
        BY <2>2
<1> QED
    BY <1>2, <1>3, <1>4, OwnedTypes DEF OwnedInv, Wired

\* A rejected AUTH is the first answer of its client, and takes the session of
\* the client away; or it is a replay of the stack slot, and takes nothing.
LEMMA RejectFacts ==
    ASSUME OwnedInv, NEW fd \in Fd, RecvAuthRejected(fd)
    PROVE  /\ fdtab[fd] \in Client /\ UNCHANGED <<fdtab, owner>>
           /\ Entries' \subseteq Entries
           /\ \/ up[fdtab[fd]] = <<>> /\ peer[fdtab[fd]] = "closed" /\ Entries' = Entries
              \/ /\ up[fdtab[fd]] # <<>> /\ Head(up[fdtab[fd]]).mtype = "AUTH"
                 /\ up'[fdtab[fd]] = Tail(up[fdtab[fd]])
                 /\ old[fdtab[fd]] # 0
                 /\ \A a \in Entries \ Entries' :
                        a.sockfd = fd /\ owner[a.token] = fdtab[fd]
                 /\ \A a \in Entries' : owner[a.token] # fdtab[fd]
                 /\ \/ Entries' = Entries
                    \/ \A a \in Entries' : a.token # old[fdtab[fd]]
<1>1. UNCHANGED <<fdtab, owner>>
    BY DEF RecvAuthRejected
<1>2. PICK p \in Buffered(fd) :
        /\ check_packet_MD5(p) /\ p.mtype = "AUTH"
        /\ \/ FindToken(connections, p.payload[2]) = 0
           \/ FindToken(DeleteToken(connections, p.payload[2]), p.payload[1]) = 0
        /\ connections' = DeleteToken(connections, p.payload[2])
        /\ up' = AfterRead(fd)
    BY DEF RecvAuthRejected
<1> DEFINE c == fdtab[fd]
<1>3. c \in Client /\ At(fd) = c /\ up[c] \in Seq(Packet)
    BY <1>2, OwnedTypes DEF Buffered, At
<1>4. connections \in Seq(Connection) /\ TokensDistinct(connections)
    BY OwnedTypes DEF OwnedInv
<1>5. Entries' = {a \in Entries : a.token # p.payload[2]}
    BY <1>2, <1>4, DeleteTokenElements DEF Entries
<1>6. CASE up[c] = <<>>
    <2>1. peer[c] = "closed" /\ (p = packet \/ p = Garbage)
        BY <1>2, <1>3, <1>6 DEF Buffered
    <2>2. p = packet
        BY <1>2, <2>1 DEF Garbage
    <2>3. \A a \in Entries : a.token # p.payload[2]
        BY <1>2, <2>2 DEF OwnedInv, SlotSpent
    <2> QED
        BY <1>1, <1>3, <1>5, <1>6, <2>1, <2>3
<1>7. CASE up[c] # <<>>
    <2>1. p = Head(up[c])
        BY <1>2, <1>3, <1>7, OwnedTypes DEF Buffered
    <2>2. p \in ToSet(up[c])
        BY <1>3, <1>7, <2>1, HeadTailElements
    <2>3. Request(p, c)
        BY <1>3, <2>2 DEF OwnedInv, Travelling
    <2>4. /\ p.payload[1] = old[c] /\ old[c] # 0
          /\ p.payload[2] \in DOMAIN owner /\ owner[p.payload[2]] = c
        BY <1>2, <2>3 DEF Request
    <2>5. up'[c] = Tail(up[c])
        BY <1>2, <1>3, <1>7 DEF AfterRead
    <2>6. ASSUME NEW a \in Entries \ Entries'
          PROVE  a.sockfd = fd /\ owner[a.token] = c
        <3>1. owner[a.token] = c
            BY <1>5, <2>4, <2>6
        <3> QED
            BY <1>3, <2>4, <3>1, AskerEntry
    <2>7. ASSUME NEW a \in Entries'
          PROVE  owner[a.token] # c
        <3>1. a.token \in DOMAIN owner /\ a.token # p.payload[2]
            BY <1>5 DEF OwnedInv, EntriesOwned, EntryOwned
        <3> QED
            BY <1>3, <2>4, <3>1 DEF OwnedInv, Wired
    <2>8. Entries' = Entries \/ \A a \in Entries' : a.token # old[c]
        <3>1. CASE FindToken(connections, p.payload[2]) = 0
            <4>1. \A a \in Entries : a.token # p.payload[2]
                BY <1>4, <3>1, TokenFound DEF Entries
            <4> QED
                BY <1>5, <4>1
        <3>2. CASE FindToken(DeleteToken(connections, p.payload[2]), p.payload[1]) = 0
            <4>1. connections' \in Seq(Connection)
                BY <1>2, <1>4, DeleteTokenElements
            <4> QED
                BY <1>2, <2>4, <3>2, <4>1, TokenFound DEF Entries
        <3> QED
            BY <1>2, <3>1, <3>2
    <2> QED
        BY <1>1, <1>2, <1>3, <1>5, <1>7, <2>1, <2>4, <2>5, <2>6, <2>7, <2>8
<1> QED
    BY <1>6, <1>7

\* An accepted AUTH is the first answer of its client: the replay of one in the
\* stack slot finds nothing.
LEMMA AuthRead ==
    ASSUME OwnedInv, NEW fd \in Fd, RecvAuthAccepted(fd)
    PROVE  /\ fdtab[fd] \in Client
           /\ up[fdtab[fd]] # <<>> /\ Head(up[fdtab[fd]]).mtype = "AUTH"
           /\ up'[fdtab[fd]] = Tail(up[fdtab[fd]])
<1>1. PICK p \in Buffered(fd) :
        /\ check_packet_MD5(p) /\ p.mtype = "AUTH"
        /\ FindToken(connections, p.payload[2]) # 0
    BY DEF RecvAuthAccepted
<1> DEFINE c == fdtab[fd]
<1>2. c \in Client /\ At(fd) = c /\ up[c] \in Seq(Packet)
    BY <1>1, OwnedTypes DEF Buffered, At
<1>3. \E a \in Entries : a.token = p.payload[2]
    BY <1>1, OwnedTypes, TokenFound DEF Entries
<1>4. up[c] # <<>>
    <2>1. ASSUME up[c] = <<>>
          PROVE  FALSE
        <3>1. p = packet \/ p = Garbage
            BY <1>1, <1>2, <2>1 DEF Buffered
        <3>2. p = packet
            BY <1>1, <3>1 DEF Garbage
        <3> QED
            BY <1>1, <1>3, <3>2 DEF OwnedInv, SlotSpent
    <2> QED
        BY <2>1
<1>5. p = Head(up[c])
    BY <1>1, <1>2, <1>4, OwnedTypes DEF Buffered
<1>6. PICK orig \in Entries : /\ orig.sockfd \notin {fd, BadFd}
                              /\ up' = Drained(orig.sockfd, AfterRead(fd))
    BY AcceptedAuth
<1>7. At(orig.sockfd) # c
    BY <1>2, <1>6, OwnedTypes DEF At, OwnedInv, Wired
<1>8. up'[c] = Tail(up[c])
    BY <1>2, <1>4, <1>6, <1>7 DEF Drained, AfterRead
<1> QED
    BY <1>1, <1>2, <1>4, <1>5, <1>8

\* A session that is collected goes with its descriptor.
LEMMA CollectFacts ==
    ASSUME OwnedInv, CollectConnection
    PROVE  \E e \in Entries :
             /\ Entries' = Entries \ {e} /\ Expired(e)
             /\ fdtab' = Closed(e.sockfd) /\ UNCHANGED owner
             /\ susc_room' = [r \in Room |-> DeleteFd(susc_room[r], e.sockfd)]
<1>1. PICK i \in DOMAIN connections :
        /\ Expired(connections[i])
        /\ fdtab' = Closed(connections[i].sockfd)
        /\ susc_room' = [r \in Room |-> DeleteFd(susc_room[r], connections[i].sockfd)]
        /\ connections' = RemoveAt(connections, i)
    BY DEF CollectConnection
<1>2. UNCHANGED owner
    BY DEF CollectConnection
<1>3. connections[i] \in Entries
    BY OwnedTypes, ElementsDef DEF Entries
<1>4. Entries' = Entries \ {connections[i]}
    BY <1>1, OwnedTypes, RemoveEntry DEF OwnedInv, Entries
<1> QED
    BY <1>1, <1>2, <1>3, <1>4

\* An accept changes nothing of the clients' own.
LEMMA AcceptAlone ==
    ASSUME OwnedInv, [Next]_vars, Accept
    PROVE  UNCHANGED <<cliente, packet>>
<1>1. ASSUME Unmoved
      PROVE  FALSE
    <2>1. owner \in Seq(Client \cup {NoClient})
        BY OwnedTypes
    <2>2. PICK x \in Client : owner' = Append(owner, x)
        BY AcceptFacts
    <2>3. Len(owner') = Len(owner) + 1 /\ Len(owner) \in Nat
        BY <2>1, <2>2, AppendProperties
    <2> QED
        BY <1>1, <2>3 DEF Unmoved
<1> QED
    BY <1>1, SessionMoves DEF Accept

\* A client that was issued a token has the -t it was started with.
LEMMA OldKept ==
    ASSUME OwnedInv, [Next]_vars, NEW c \in Client, c \in ToSet(owner)
    PROVE  old'[c] = old[c]
BY ClienteMoves DEF OwnedInv, Wired

-----------------------------------------------------------------------------
(* Descriptors that are never closed.                                      *)

LeakInv ==
    \A f \in Fd : fdtab[f] # NoClient =>
        \/ \E a \in Entries : a.sockfd = f
        \/ old[fdtab[f]] # 0 /\ \A a \in Entries : a.token # old[fdtab[f]]

LEMMA LeakStep == OwnedInv /\ LeakInv /\ [Next]_vars => LeakInv'
<1> SUFFICES ASSUME OwnedInv, LeakInv, [Next]_vars
             PROVE  LeakInv'
    OBVIOUS
<1>1. \A f \in Fd : fdtab[f] # NoClient =>
        fdtab[f] \in Client /\ fdtab[f] \in ToSet(owner)
    BY OwnedTypes DEF OwnedInv, Wired
<1>2. \A f \in Fd : fdtab[f] # NoClient => old'[fdtab[f]] = old[fdtab[f]]
    BY <1>1, OldKept
<1>3. CASE Unmoved
    BY <1>2, <1>3 DEF LeakInv, Unmoved
<1>4. ASSUME NEW x \in Client \cup {NoClient}, NEW fd \in Fd \cup {BadFd},
             owner' = Append(owner, x), UNCHANGED <<cliente, packet>>,
             connections' = Append(connections, NewConnection(fd)),
             \A f \in Fd : f # fd => fdtab'[f] = fdtab[f]
      PROVE  LeakInv'
    <2>1. /\ Len(owner) + 1 \notin DOMAIN owner
          /\ Entries' = Entries \cup {NewConnection(fd)}
          /\ NewConnection(fd).token = Len(owner) + 1
          /\ NewConnection(fd).sockfd = fd
        BY <1>4, IssueToken DEF cliente
    <2>2. \A c \in Client : old[c] # 0 => old[c] # Len(owner) + 1
        BY <2>1 DEF OwnedInv, PlainOld
    <2> DEFINE n == Len(owner) + 1
    <2> HIDE DEF n
    <2>3. ASSUME NEW f \in Fd, fdtab'[f] # NoClient
          PROVE  \/ \E a \in Entries' : a.sockfd = f
                 \/ old'[fdtab'[f]] # 0 /\ \A a \in Entries' : a.token # old'[fdtab'[f]]
        <3>1. CASE f = fd
            BY <2>1, <3>1
        <3>2. CASE f # fd
            BY <1>1, <1>2, <1>4, <2>1, <2>2, <2>3, <3>2 DEF LeakInv
        <3> QED
            BY <3>1, <3>2
    <2> QED
        BY <2>3 DEF LeakInv
<1>5. CASE Accept /\ UNCHANGED cliente
    <2>1. PICK fd \in Fd :
             /\ Head(backlog) \in Client
             /\ fdtab' = [fdtab EXCEPT ![fd] = Head(backlog)]
             /\ owner' = Append(owner, Head(backlog))
             /\ connections' = Append(connections, NewConnection(fd))
        BY <1>5, AcceptFacts
    <2>2. \A f \in Fd : f # fd => fdtab'[f] = fdtab[f]
        BY <2>1
    <2>3. UNCHANGED <<cliente, packet>>
        BY <1>5 DEF Accept
    <2> QED
        BY <1>4, <2>1, <2>2, <2>3
<1>6. CASE AcceptFails /\ UNCHANGED cliente
    BY <1>4, <1>6 DEF AcceptFails, ipc, tcp
<1>7. ASSUME NEW fd \in Fd, RecvAuthRejected(fd)
      PROVE  LeakInv'
    <2>1. /\ UNCHANGED fdtab /\ Entries' \subseteq Entries
          /\ \/ Entries' = Entries
             \/ /\ \A a \in Entries \ Entries' : a.sockfd = fd
                /\ old[fdtab[fd]] # 0
                /\ \A a \in Entries' : a.token # old[fdtab[fd]]
        BY <1>7, RejectFacts
    <2>2. CASE Entries' = Entries
        BY <1>2, <2>1, <2>2 DEF LeakInv
    <2>3. CASE /\ \A a \in Entries \ Entries' : a.sockfd = fd
               /\ old[fdtab[fd]] # 0
               /\ \A a \in Entries' : a.token # old[fdtab[fd]]
        BY <1>2, <2>1, <2>3 DEF LeakInv
    <2> QED
        BY <2>1, <2>2, <2>3
<1>8. ASSUME NEW fd \in Fd, RecvAuthAccepted(fd)
      PROVE  LeakInv'
    <2>1. PICK e \in Entries, orig \in Entries, kept \in Connection :
            /\ e.sockfd = fd /\ orig.sockfd \notin {fd, BadFd}
            /\ kept = [orig EXCEPT !.sockfd = fd]
            /\ fdtab' = Closed(orig.sockfd)
            /\ Entries' = (Entries \ {e, orig}) \cup {kept}
        BY <1>8, AcceptedAuth
    <2>2. kept.sockfd = fd /\ kept.token = orig.token
        <3>1. orig \in Connection
            BY OwnedTypes
        <3> QED
            BY <2>1, <3>1 DEF Connection
    <2>3. ASSUME NEW f \in Fd, fdtab'[f] # NoClient
          PROVE  \/ \E a \in Entries' : a.sockfd = f
                 \/ old'[fdtab'[f]] # 0 /\ \A a \in Entries' : a.token # old'[fdtab'[f]]
        <3>1. f # orig.sockfd /\ fdtab'[f] = fdtab[f]
            BY <2>1, <2>3 DEF Closed
        <3>2. CASE f = fd
            BY <2>1, <2>2, <3>2
        <3>3. CASE f # fd /\ \E a \in Entries : a.sockfd = f
            <4>1. PICK a \in Entries : a.sockfd = f
                BY <3>3
            <4>2. a # e /\ a # orig
                BY <2>1, <3>1, <3>3, <4>1
            <4> QED
                BY <2>1, <4>1, <4>2
        <3>4. CASE old[fdtab[f]] # 0 /\ \A a \in Entries : a.token # old[fdtab[f]]
            <4>1. \A a \in Entries' : \E b \in Entries : a.token = b.token
                BY <2>1, <2>2
            <4>2. old'[fdtab'[f]] = old[fdtab[f]]
                BY <1>2, <2>3, <3>1
            <4> QED
                BY <3>4, <4>1, <4>2
        <3> QED
            BY <2>3, <3>1, <3>2, <3>3, <3>4 DEF LeakInv
    <2> QED
        BY <2>3 DEF LeakInv
<1>9. CASE CollectConnection
    <2>1. PICK e \in Entries : Entries' = Entries \ {e} /\ fdtab' = Closed(e.sockfd)
        BY <1>9, CollectFacts
    <2>2. ASSUME NEW f \in Fd, fdtab'[f] # NoClient
          PROVE  f # e.sockfd /\ fdtab'[f] = fdtab[f]
        BY <2>1, <2>2 DEF Closed
    <2> QED
        BY <1>2, <2>1, <2>2 DEF LeakInv
<1> QED
    BY <1>3, <1>5, <1>6, <1>7, <1>8, <1>9, SessionMoves DEF cliente

\* The only descriptors the server forgets to close are those of clients whose
\* AUTH named a session that is gone: whatever is accepted, hung up, recovered
\* or collected, an open descriptor is a session's or one of these.
THEOREM LeaksAreRejects == Spec => []LeakOnlyRejected
<1>1. Init => LeakInv
    BY DEF Init, IpcInit, LeakInv
<1>2. OwnedInv /\ LeakInv => LeakOnlyRejected
    <2> SUFFICES ASSUME OwnedInv, LeakInv, NEW fd \in Fd, fdtab[fd] # NoClient
                 PROVE  \/ \E conn \in Sessions : conn.sockfd = fd
                        \/ old[fdtab[fd]] \notin LiveTokens \cup {0}
        BY DEF LeakOnlyRejected
    <2>1. fd # BadFd
        BY IpcAssumption DEF Fd, BadFd
    <2>2. \A t \in LiveTokens : \E a \in Entries : a.token = t
        BY OwnedTypes, ElementsDef DEF LiveTokens, Entries
    <2> QED
        BY <2>1, <2>2 DEF LeakInv, Sessions, Entries
<1> DEFINE Inv == OwnedInv /\ LeakInv
<1>3. Init => Inv
    BY <1>1, OwnedInit
<1>4. Inv /\ [Next]_vars => Inv'
    BY OwnedStep, LeakStep
<1>5. Inv => LeakOnlyRejected
    BY <1>2
<1> HIDE DEF Inv
<1> QED
    BY <1>3, <1>4, <1>5, PTL DEF Spec

-----------------------------------------------------------------------------
(* The order in which a connection carries its packets.                    *)

\* Nothing travels to or from a client that was issued no token.
Unmet ==
    \A c \in Client : c \notin ToSet(owner) =>
        down[c] = <<>> /\ up[c] = <<>> /\ c \notin reset

\* CONN_ACCEPTED comes before everything else, in both directions.
HelloFirst ==
    \A c \in Client : \A i \in DOMAIN down[c] :
        down[c][i].mtype = "CONN_ACCEPTED" => i = 1 /\ up[c] = <<>>

\* AUTH comes before every other answer.
AuthFirst ==
    \A c \in Client : \A i \in DOMAIN up[c] : up[c][i].mtype = "AUTH" => i = 1

FirstInv == Unmet /\ HelloFirst /\ AuthFirst

\* A client at a descriptor was issued a token.
LEMMA HolderKnown ==
    ASSUME OwnedInv, NEW f \in Fd, NEW c \in Client, fdtab[f] = c
    PROVE  c \in ToSet(owner)
BY OwnedTypes DEF OwnedInv, Wired

\* A client that is accepted was issued none.
LEMMA AcceptedUnmet ==
    ASSUME OwnedInv, Unmet, Accept
    PROVE  /\ Head(backlog) \in Client /\ Head(backlog) \notin ToSet(owner)
           /\ down[Head(backlog)] = <<>> /\ up[Head(backlog)] = <<>>
           /\ Head(backlog) \notin reset
BY AcceptFacts DEF Unmet

LEMMA UnmetStep == OwnedInv /\ Unmet /\ [Next]_vars => Unmet'
<1> SUFFICES ASSUME OwnedInv, Unmet, [Next]_vars, NEW c \in Client, c \notin ToSet(owner')
             PROVE  down'[c] = <<>> /\ up'[c] = <<>> /\ c \notin reset'
    BY DEF Unmet
<1>1. c \notin ToSet(owner) /\ ~(Accept /\ c = Head(backlog))
    <2>1. CASE Accept /\ c = Head(backlog)
        <3>1. owner \in Seq(Client \cup {NoClient})
            BY OwnedTypes
        <3>2. owner' = Append(owner, c)
            BY <2>1, AcceptFacts
        <3> QED
            BY <3>1, <3>2, AppendElements
    <2> QED
        BY <2>1, OwnerKept
<1>2. down[c] = <<>> /\ up[c] = <<>> /\ c \notin reset
    BY <1>1 DEF Unmet
<1>3. \A fd \in Fd : fdtab[fd] # c
    BY <1>1, HolderKnown
<1>4. ~ClientStep(c)
    BY <1>2, ClientReads
<1>5. down'[c] = <<>>
    <2>1. Push(down[c], <<>>) = <<>>
        <3>1. /\ down[c] \in Seq(Packet) /\ <<>> \in Seq(Packet)
              /\ Len(down[c]) = 0 /\ Len(<<>>) = 0
            BY <1>2, OwnedTypes
        <3> QED
            BY <3>1, PushEmpty
    <2>2. \/ down'[c] = down[c] \/ down'[c] = <<>>
          \/ down'[c] = Push(down[c], <<>>)
        BY <1>1, <1>3, <1>4, DownMoves DEF DownStep
    <2> QED
        BY <1>2, <2>1, <2>2
<1>6. up'[c] = <<>>
    <2>1. \A out : ~Answered(c, out)
        BY <1>4 DEF Answered, ClientStep
    <2> QED
        BY <1>2, <2>1, UpMoves DEF UpStep
<1>7. c \notin reset'
    BY <1>2, ResetMoves
<1> QED
    BY <1>5, <1>6, <1>7

\* Only an accept sends CONN_ACCEPTED.
LEMMA HelloStep ==
    ASSUME OwnedInv, Unmet, [Next]_vars, NEW c \in Client, NEW i \in DOMAIN down'[c],
           down'[c][i].mtype = "CONN_ACCEPTED"
    PROVE  \/ /\ ClientStep(c) /\ i \in Nat /\ i # 0 /\ i + 1 \in DOMAIN down[c]
              /\ down[c][i + 1].mtype = "CONN_ACCEPTED"
           \/ /\ ~ClientStep(c) /\ i \in DOMAIN down[c]
              /\ down[c][i].mtype = "CONN_ACCEPTED"
           \/ ~ClientStep(c) /\ Accept /\ c = Head(backlog) /\ i = 1
<1>0. down[c] \in Seq(Packet) /\ <<>> \in Seq(Packet)
    BY OwnedTypes
<1>1. CASE ClientStep(c)
    <2>1. down[c] # <<>> /\ down'[c] = Tail(down[c])
        BY <1>1, ClientReads
    <2> QED
        BY <1>0, <1>1, <2>1, TailIndices
<1>2. CASE ~ClientStep(c)
    <2>1. CASE down'[c] = down[c] \/ down'[c] = <<>>
        BY <1>2, <2>1
    <2>2. CASE down'[c] = Push(down[c], <<>>)
        <3>1. DOMAIN <<>> = {}
            OBVIOUS
        <3> QED
            BY <1>0, <1>2, <2>2, <3>1, PushIndices
    <2>3. CASE \E fd \in Fd, out \in Seq(Packet) :
                    Outbox(fd, c, out) /\ down'[c] = Push(down[c], out)
        <3>1. PICK fd \in Fd, out \in Seq(Packet) :
                    Outbox(fd, c, out) /\ down'[c] = Push(down[c], out)
            BY <2>3
        <3>2. \A j \in DOMAIN out : out[j].mtype # "CONN_ACCEPTED"
            BY <3>1, OutboxKinds, ElementsDef
        <3> QED
            BY <1>0, <1>2, <3>1, <3>2, PushIndices
    <2>4. CASE /\ Accept /\ c = Head(backlog)
               /\ down'[c] = Push(down[c], <<Control("CONN_ACCEPTED", <<Len(owner) + 1>>)>>)
        <3> DEFINE hello == Control("CONN_ACCEPTED", <<Len(owner) + 1>>)
                   out   == <<hello>>
        <3>1. hello \in Packet
            <4>1. Len(owner) + 1 \in Nat
                BY OwnedTypes
            <4> QED
                BY <4>1, ControlPackets
        <3>2. down'[c] = Push(down[c], out)
            BY <2>4
        <3> HIDE DEF hello
        <3>3. out \in Seq(Packet) /\ DOMAIN out = {1}
            BY <3>1
        <3>4. Len(down[c]) = 0
            BY <2>4, AcceptedUnmet
        <3> HIDE DEF out
        <3>5. i = 1
            BY <1>0, <3>2, <3>3, <3>4, PushEmpty
        <3> QED
            BY <1>2, <2>4, <3>5
    <2> QED
        BY <1>2, <2>1, <2>2, <2>3, <2>4, DownMoves DEF DownStep
<1> QED
    BY <1>1, <1>2

\* A client that reads nothing answers nothing.
LEMMA UpQuiet ==
    ASSUME OwnedInv, [Next]_vars, NEW c \in Client, ~ClientStep(c)
    PROVE  \/ up'[c] = up[c] \/ up'[c] = <<>>
           \/ up[c] # <<>> /\ up'[c] = Tail(up[c])
<1>1. \A out : ~Answered(c, out)
    BY DEF Answered, ClientStep
<1> QED
    BY <1>1, UpMoves DEF UpStep

LEMMA HelloFirstStep ==
    OwnedInv /\ FirstInv /\ [Next]_vars => HelloFirst'
<1> SUFFICES ASSUME OwnedInv, FirstInv, [Next]_vars, NEW c \in Client,
                    NEW i \in DOMAIN down'[c], down'[c][i].mtype = "CONN_ACCEPTED"
             PROVE  i = 1 /\ up'[c] = <<>>
    BY DEF HelloFirst
<1>0. Unmet /\ HelloFirst
    BY DEF FirstInv
<1>1. CASE /\ ClientStep(c) /\ i \in Nat /\ i # 0 /\ i + 1 \in DOMAIN down[c]
           /\ down[c][i + 1].mtype = "CONN_ACCEPTED"
    <2>1. i + 1 = 1
        BY <1>0, <1>1 DEF HelloFirst
    <2> QED
        BY <1>1, <2>1
<1>2. CASE /\ ~ClientStep(c) /\ i \in DOMAIN down[c]
           /\ down[c][i].mtype = "CONN_ACCEPTED"
    <2>1. i = 1 /\ up[c] = <<>>
        BY <1>0, <1>2 DEF HelloFirst
    <2> QED
        BY <1>2, <2>1, UpQuiet
<1>3. CASE ~ClientStep(c) /\ Accept /\ c = Head(backlog) /\ i = 1
    <2>1. up[c] = <<>>
        BY <1>0, <1>3, AcceptedUnmet
    <2> QED
        BY <1>3, <2>1, UpQuiet
<1> QED
    BY <1>0, <1>1, <1>2, <1>3, HelloStep

\* An answer to CONN_ACCEPTED answers the first packet the client was sent.
LEMMA AnswerFirst ==
    ASSUME OwnedInv, HelloFirst, NEW c \in Client, RecvConnAccepted(c)
    PROVE  /\ down[c] # <<>> /\ Head(down[c]).mtype = "CONN_ACCEPTED"
           /\ Head(down[c]) \in ToSet(down[c]) /\ up[c] = <<>>
<1>1. down[c] # <<>> /\ Head(down[c]).mtype = "CONN_ACCEPTED"
    BY DEF RecvConnAccepted, Recv
<1>2. down[c] \in Seq(Packet)
    BY OwnedTypes
<1>3. 1 \in DOMAIN down[c] /\ Head(down[c]) = down[c][1]
    BY <1>1, <1>2, TailIndices
<1>4. Head(down[c]) \in ToSet(down[c])
    BY <1>2, <1>3, ElementsDef
<1> QED
    BY <1>1, <1>3, <1>4 DEF HelloFirst

\* Only an answer to CONN_ACCEPTED is an AUTH.
LEMMA AuthStep ==
    ASSUME OwnedInv, HelloFirst, [Next]_vars, NEW c \in Client, NEW i \in DOMAIN up'[c],
           up'[c][i].mtype = "AUTH"
    PROVE  \/ i \in DOMAIN up[c] /\ up[c][i].mtype = "AUTH"
           \/ /\ up[c] # <<>> /\ up'[c] = Tail(up[c]) /\ i \in Nat /\ i # 0
              /\ i + 1 \in DOMAIN up[c] /\ up[c][i + 1].mtype = "AUTH"
           \/ RecvConnAccepted(c) /\ i = 1
<1>0. up[c] \in Seq(Packet)
    BY OwnedTypes
<1>1. CASE up'[c] = up[c] \/ up'[c] = <<>>
    BY <1>1
<1>2. CASE up[c] # <<>> /\ up'[c] = Tail(up[c])
    BY <1>0, <1>2, TailIndices
<1>3. CASE \E out \in Seq(Packet) : Answered(c, out) /\ up'[c] = up[c] \o out
    <2>1. PICK out \in Seq(Packet) : Answered(c, out) /\ up'[c] = up[c] \o out
        BY <1>3
    <2>2. /\ up'[c] \in Seq(Packet) /\ Len(up'[c]) = Len(up[c]) + Len(out)
          /\ Len(up[c]) \in Nat /\ Len(out) \in Nat
          /\ \A j \in 1 .. Len(up[c]) + Len(out) :
                up'[c][j] = IF j <= Len(up[c]) THEN up[c][j] ELSE out[j - Len(up[c])]
        BY <1>0, <2>1, ConcatProperties
    <2>3. i \in 1 .. Len(up[c]) + Len(out)
        BY <2>2
    <2>4. CASE i <= Len(up[c])
        BY <1>0, <2>2, <2>3, <2>4
    <2>5. CASE ~(i <= Len(up[c]))
        <3> DEFINE j == i - Len(up[c])
        <3>1. j \in 1 .. Len(out) /\ out[j].mtype = "AUTH" /\ i = Len(up[c]) + j
            <4>1. j \in 1 .. Len(out) /\ i = Len(up[c]) + j
                BY ONLY <2>2, <2>3, <2>5
            <4>2. up'[c][i] = out[j]
                BY ONLY <2>2, <2>3, <2>5
            <4> QED
                BY <4>1, <4>2
        <3> HIDE DEF j
        <3>2. \A t : Ack(t).mtype = "ACK"
            BY ControlFields DEF Ack
        <3>3. RecvConnAccepted(c) /\ j = 1
            <4>1. CASE /\ RecvConnAccepted(c) /\ old[c] # 0
                       /\ out = <<Auth(old[c], Head(down[c]).payload[1]), Ack(old[c])>>
                <5>1. Len(out) = 2 /\ out[2] = Ack(old[c])
                    BY <4>1
                <5>2. j = 1 \/ j = 2
                    BY <3>1, <5>1
                <5> QED
                    BY <3>1, <3>2, <4>1, <5>1, <5>2
            <4>2. ASSUME NEW t, out = <<Ack(t)>>
                  PROVE  FALSE
                <5>1. Len(out) = 1 /\ out[1] = Ack(t)
                    BY <4>2
                <5>2. j = 1
                    BY <3>1, <5>1
                <5> QED
                    BY <3>1, <3>2, <5>1, <5>2
            <4> QED
                BY <2>1, <4>1, <4>2 DEF Answered
        <3>4. Len(up[c]) = 0
            <4>1. up[c] = <<>>
                BY <3>3, AnswerFirst
            <4> QED
                BY <4>1
        <3> QED
            BY <3>1, <3>3, <3>4
    <2> QED
        BY <2>4, <2>5
<1> QED
    BY <1>1, <1>2, <1>3, UpMoves DEF UpStep

LEMMA AuthFirstStep == OwnedInv /\ FirstInv /\ [Next]_vars => AuthFirst'
<1> SUFFICES ASSUME OwnedInv, FirstInv, [Next]_vars, NEW c \in Client,
                    NEW i \in DOMAIN up'[c], up'[c][i].mtype = "AUTH"
             PROVE  i = 1
    BY DEF AuthFirst
<1>1. HelloFirst /\ AuthFirst
    BY DEF FirstInv
<1>2. CASE i \in DOMAIN up[c] /\ up[c][i].mtype = "AUTH"
    BY <1>1, <1>2 DEF AuthFirst
<1>3. CASE /\ i \in Nat /\ i # 0
           /\ i + 1 \in DOMAIN up[c] /\ up[c][i + 1].mtype = "AUTH"
    <2>1. i + 1 = 1
        BY <1>1, <1>3 DEF AuthFirst
    <2> QED
        BY <1>3, <2>1
<1> QED
    BY <1>1, <1>2, <1>3, AuthStep

LEMMA FirstStep == OwnedInv /\ FirstInv /\ [Next]_vars => FirstInv'
BY UnmetStep, HelloFirstStep, AuthFirstStep DEF FirstInv

LEMMA FirstInit == Init => FirstInv
<1> SUFFICES ASSUME Init
             PROVE  FirstInv
    OBVIOUS
<1>1. reset = {} /\ \A c \in Client : down[c] = <<>> /\ up[c] = <<>>
    BY DEF Init, IpcInit
<1>2. DOMAIN <<>> = {}
    OBVIOUS
<1>3. Unmet
    BY <1>1 DEF Unmet
<1>4. HelloFirst
    BY <1>1, <1>2 DEF HelloFirst
<1>5. AuthFirst
    BY <1>1, <1>2 DEF AuthFirst
<1> QED
    BY <1>3, <1>4, <1>5 DEF FirstInv

\* The client is about to ask for an older session, or may be.
Asking(c) ==
    \/ \E i \in DOMAIN down[c] : down[c][i].mtype = "CONN_ACCEPTED"
    \/ \E i \in DOMAIN up[c] : up[c][i].mtype = "AUTH"

LEMMA AskingStep ==
    ASSUME OwnedInv, FirstInv, [Next]_vars, NEW c \in Client, Asking(c)'
    PROVE  Asking(c) \/ (Accept /\ c = Head(backlog))
<1>0. Unmet /\ HelloFirst
    BY DEF FirstInv
<1>1. CASE \E i \in DOMAIN down'[c] : down'[c][i].mtype = "CONN_ACCEPTED"
    BY <1>0, <1>1, HelloStep DEF Asking
<1>2. CASE \E i \in DOMAIN up'[c] : up'[c][i].mtype = "AUTH"
    <2>1. CASE RecvConnAccepted(c)
        <3>1. /\ down[c] # <<>> /\ Head(down[c]).mtype = "CONN_ACCEPTED"
              /\ down[c] \in Seq(Packet)
            BY <1>0, <2>1, AnswerFirst, OwnedTypes
        <3>2. 1 \in DOMAIN down[c] /\ down[c][1].mtype = "CONN_ACCEPTED"
            BY <3>1, TailIndices
        <3> QED
            BY <3>2 DEF Asking
    <2> QED
        BY <1>0, <1>2, <2>1, AuthStep DEF Asking
<1> QED
    BY <1>1, <1>2 DEF Asking

\* A client whose AUTH has been read asks for nothing any more.
LEMMA AskedOnce ==
    ASSUME OwnedInv, FirstInv, [Next]_vars, NEW fd \in Fd, NEW c \in Client,
           fdtab[fd] = c, up[c] # <<>>, Head(up[c]).mtype = "AUTH"
    PROVE  Asking(c) /\ (up'[c] = Tail(up[c]) => ~Asking(c)')
<1>1. up[c] \in Seq(Packet) /\ c \in ToSet(owner)
    BY OwnedTypes, HolderKnown
<1>2. Asking(c)
    <2>1. 1 \in DOMAIN up[c] /\ up[c][1].mtype = "AUTH"
        BY <1>1, TailIndices
    <2> QED
        BY <2>1 DEF Asking
<1>3. ASSUME up'[c] = Tail(up[c])
      PROVE  ~Asking(c)'
    <2>1. ASSUME NEW i \in DOMAIN up'[c], up'[c][i].mtype = "AUTH"
          PROVE  FALSE
        <3>1. i \in Nat /\ i # 0 /\ i + 1 \in DOMAIN up[c] /\ up[c][i + 1].mtype = "AUTH"
            BY <1>1, <1>3, <2>1, TailIndices
        <3>2. i + 1 = 1
            BY <1>1, <3>1 DEF FirstInv, AuthFirst
        <3> QED
            BY <3>1, <3>2
    <2>2. ASSUME NEW i \in DOMAIN down'[c], down'[c][i].mtype = "CONN_ACCEPTED"
          PROVE  FALSE
        <3>1. ~(Accept /\ c = Head(backlog))
            BY <1>1, AcceptedUnmet DEF FirstInv
        <3>2. \E j \in DOMAIN down[c] : down[c][j].mtype = "CONN_ACCEPTED"
            BY <1>1, <2>2, <3>1, HelloStep DEF FirstInv
        <3> QED
            BY <1>1, <3>2 DEF FirstInv, HelloFirst
    <2> QED
        BY <2>1, <2>2 DEF Asking
<1> QED
    BY <1>2, <1>3

-----------------------------------------------------------------------------
(* FIN.                                                                    *)

\* Until its AUTH has been read, a client is at the descriptor of the session it
\* was issued.
AskerHeld ==
    \A f \in Fd, c \in Client : fdtab[f] = c /\ Asking(c) =>
        \E a \in Entries : a.sockfd = f /\ owner[a.token] = c

\* An entry keeps what AskerHeld says of it, unless it is taken away or its
\* descriptor is closed.
LEMMA AskerStep ==
    OwnedInv /\ FirstInv /\ AskerHeld /\ [Next]_vars => AskerHeld'
<1> SUFFICES ASSUME OwnedInv, FirstInv, AskerHeld, [Next]_vars,
                    NEW f \in Fd, NEW c \in Client, fdtab'[f] = c, Asking(c)'
             PROVE  \E a \in Entries' : a.sockfd = f /\ owner'[a.token] = c
    BY DEF AskerHeld
<1>1. c # NoClient
    BY OwnedTypes
<1>2. \A a \in Entries : owner'[a.token] = owner[a.token]
    BY OwnerKept DEF OwnedInv, EntriesOwned, EntryOwned
<1>3. CASE Accept
    <2>1. PICK fd \in Fd :
             /\ Head(backlog) \in Client
             /\ fdtab' = [fdtab EXCEPT ![fd] = Head(backlog)]
             /\ owner' = Append(owner, Head(backlog))
             /\ connections' = Append(connections, NewConnection(fd))
        BY <1>3, AcceptFacts
    <2>2. UNCHANGED <<old, token, packet>>
        BY <1>3, AcceptAlone DEF cliente
    <2>3. /\ Entries' = Entries \cup {NewConnection(fd)}
          /\ NewConnection(fd).sockfd = fd
          /\ owner'[NewConnection(fd).token] = Head(backlog)
        BY <2>1, <2>2, IssueToken
    <2>4. CASE f = fd
        BY <2>1, <2>3, <2>4, OwnedTypes
    <2>5. CASE f # fd
        <3>1. fdtab[f] = c
            BY <2>1, <2>5
        <3>2. c # Head(backlog)
            BY <1>3, <3>1, HolderKnown, AcceptedUnmet DEF FirstInv
        <3>3. Asking(c)
            BY <3>2, AskingStep
        <3> QED
            BY <1>2, <2>3, <3>1, <3>3 DEF AskerHeld
    <2> QED
        BY <2>4, <2>5
<1>4. CASE ~Accept
    <2>1. Asking(c)
        BY <1>4, AskingStep
    <2>2. ASSUME fdtab[f] = c
          PROVE  \E a \in Entries : a.sockfd = f /\ owner[a.token] = c
        BY <2>1, <2>2 DEF AskerHeld
    <2>3. CASE Unmoved
        BY <2>2, <2>3 DEF Unmoved
    <2>4. CASE AcceptFails /\ UNCHANGED cliente
        <3>1. fdtab' = fdtab /\ Entries \subseteq Entries'
            BY <2>4, IssueToken DEF AcceptFails, ipc, tcp, cliente
        <3> QED
            BY <1>2, <2>2, <3>1
    <2>5. ASSUME NEW fd \in Fd, RecvAuthRejected(fd)
          PROVE  \E a \in Entries' : a.sockfd = f /\ owner'[a.token] = c
        <3>1. /\ fdtab[fd] \in Client /\ fdtab' = fdtab
              /\ \/ Entries' = Entries
                 \/ /\ up[fdtab[fd]] # <<>> /\ Head(up[fdtab[fd]]).mtype = "AUTH"
                    /\ up'[fdtab[fd]] = Tail(up[fdtab[fd]])
                    /\ \A a \in Entries \ Entries' : a.sockfd = fd
            BY <2>5, RejectFacts
        <3>2. CASE f = fd /\ Entries' # Entries
            BY <2>1, <3>1, <3>2, AskedOnce
        <3>3. CASE f # fd \/ Entries' = Entries
            BY <1>2, <2>2, <3>1, <3>3
        <3> QED
            BY <3>2, <3>3
    <2>6. ASSUME NEW fd \in Fd, RecvAuthAccepted(fd)
          PROVE  \E a \in Entries' : a.sockfd = f /\ owner'[a.token] = c
        <3>1. PICK e \in Entries, orig \in Entries, kept \in Connection :
                /\ e.sockfd = fd /\ fdtab' = Closed(orig.sockfd)
                /\ Entries' = (Entries \ {e, orig}) \cup {kept}
            BY <2>6, AcceptedAuth
        <3>2. f # orig.sockfd /\ fdtab[f] = c
            BY <1>1, <3>1 DEF Closed
        <3>3. f # fd
            BY <2>6, <3>2, AuthRead, AskedOnce
        <3>4. PICK a \in Entries : a.sockfd = f /\ owner[a.token] = c
            BY <2>2, <3>2
        <3>5. a # e /\ a # orig
            BY <3>1, <3>2, <3>3, <3>4
        <3> QED
            BY <1>2, <3>1, <3>4, <3>5
    <2>7. CASE CollectConnection
        <3>1. PICK e \in Entries : Entries' = Entries \ {e} /\ fdtab' = Closed(e.sockfd)
            BY <2>7, CollectFacts
        <3>2. f # e.sockfd /\ fdtab[f] = c
            BY <1>1, <3>1 DEF Closed
        <3> QED
            BY <1>2, <2>2, <3>1, <3>2
    <2> QED
        BY <1>4, <2>3, <2>4, <2>5, <2>6, <2>7, SessionMoves
<1> QED
    BY <1>3, <1>4

\* A client gets a session by being accepted, or moves one it had.
LEMMA HolderMoves ==
    ASSUME OwnedInv, [Next]_vars, NEW c \in Client,
           NEW a \in Entries', a.sockfd # BadFd, fdtab'[a.sockfd] = c
    PROVE  \/ Accept /\ c = Head(backlog)
           \/ \E b \in Entries : b.sockfd # BadFd /\ fdtab[b.sockfd] = c
<1>0. /\ \A b \in Entries : b.sockfd # BadFd => b.sockfd \in Fd
      /\ \A b \in Entries : b.sockfd # BadFd => fdtab[b.sockfd] \in Client
      /\ c # NoClient
    BY OwnedTypes DEF OwnedInv, EntriesOwned, EntryOwned, Connection
<1>1. CASE Accept
    <2>1. PICK fd \in Fd :
             /\ Head(backlog) \in Client /\ fdtab[fd] = NoClient
             /\ fdtab' = [fdtab EXCEPT ![fd] = Head(backlog)]
             /\ owner' = Append(owner, Head(backlog))
             /\ connections' = Append(connections, NewConnection(fd))
        BY <1>1, AcceptFacts
    <2>2. Entries' = Entries \cup {NewConnection(fd)} /\ NewConnection(fd).sockfd = fd
        BY <1>1, <2>1, IssueToken, AcceptAlone DEF cliente
    <2>3. CASE a.sockfd = fd
        BY <1>1, <2>1, <2>3, OwnedTypes
    <2>4. CASE a.sockfd # fd
        <3>1. a \in Entries
            BY <2>2, <2>4
        <3>2. fdtab'[a.sockfd] = fdtab[a.sockfd]
            BY <1>0, <2>1, <2>4, <3>1
        <3> QED
            BY <3>1, <3>2
    <2> QED
        BY <2>3, <2>4
<1>2. CASE Unmoved
    BY <1>2 DEF Unmoved
<1>3. CASE AcceptFails /\ UNCHANGED cliente
    <2>1. /\ fdtab' = fdtab /\ NewConnection(BadFd).sockfd = BadFd
          /\ Entries' = Entries \cup {NewConnection(BadFd)}
        BY <1>3, IssueToken DEF AcceptFails, ipc, tcp, cliente
    <2> QED
        BY <2>1
<1>4. CASE \E fd \in Fd : RecvAuthRejected(fd)
    BY <1>4, RejectFacts
<1>5. ASSUME NEW fd \in Fd, RecvAuthAccepted(fd)
      PROVE  \E b \in Entries : b.sockfd # BadFd /\ fdtab[b.sockfd] = c
    <2>1. PICK e \in Entries, orig \in Entries, kept \in Connection :
            /\ e.sockfd = fd /\ fdtab' = Closed(orig.sockfd)
            /\ kept = [orig EXCEPT !.sockfd = fd]
            /\ Entries' = (Entries \ {e, orig}) \cup {kept}
        BY <1>5, AcceptedAuth
    <2>2. kept.sockfd = fd /\ fd # BadFd
        <3>1. orig \in Connection
            BY OwnedTypes
        <3> QED
            BY <2>1, <3>1, IpcAssumption DEF Connection, Fd, BadFd
    <2>3. a \in Entries \/ a.sockfd = fd
        BY <2>1, <2>2
    <2>4. PICK b \in Entries : b.sockfd = a.sockfd
        BY <2>1, <2>3
    <2>5. fdtab'[b.sockfd] = fdtab[b.sockfd]
        <3>1. b.sockfd \in Fd
            BY <1>0, <2>4
        <3> QED
            BY <1>0, <2>1, <2>4, <3>1 DEF Closed
    <2> QED
        BY <2>4, <2>5
<1>6. CASE CollectConnection
    <2>1. PICK e \in Entries : Entries' = Entries \ {e} /\ fdtab' = Closed(e.sockfd)
        BY <1>6, CollectFacts
    <2>2. a \in Entries /\ a.sockfd \in Fd
        BY <1>0, <2>1
    <2>3. fdtab'[a.sockfd] = fdtab[a.sockfd]
        BY <1>0, <2>1, <2>2 DEF Closed
    <2> QED
        BY <2>2, <2>3
<1> QED
    BY <1>1, <1>2, <1>3, <1>4, <1>5, <1>6, SessionMoves

\* Nobody but the clients touches their variables.
LEMMA PeerKept ==
    ASSUME [Next]_vars, ~Clients
    PROVE  UNCHANGED <<peer, cliente>>
<1>1. CASE Producers \/ Operators \/ Thread \/ Kernel \/ Tick \/ UNCHANGED vars
    BY <1>1 DEF Producers, Stamp, MqSend, GiveUp, Operators, Operator, Thread,
                FtSetup, Kernel, KernelReset, Tick, vars, ipc, tcp
<1>2. ASSUME \/ Poll \/ Resent \/ Resend \/ NoMessage \/ MqReceive \/ CliEvent
             \/ Accept \/ AcceptFails
             \/ CollectConnections \/ CollectConnection \/ ConnectionsCollected
             \/ CollectPackets \/ CollectPacket \/ PacketsCollected
      PROVE  peer' = peer
    BY <1>2 DEF Poll, Resent, Resend, CliEvent, NoCommand, RefuseCommand,
                CmdAdd, CmdDel, CmdLog, NoMessage, MqReceive, Accept, AcceptFails,
                CollectConnections, CollectConnection, ConnectionsCollected,
                CollectPackets, CollectPacket, PacketsCollected, ipc, tcp
<1>3. ASSUME \E fd \in Fd : \/ HangUp(fd) \/ ReadFails(fd) \/ ReadInvalid(fd)
                            \/ RecvAck(fd) \/ RecvUnknownAck(fd)
                            \/ RecvAuthRejected(fd) \/ RecvAuthAccepted(fd)
      PROVE  peer' = peer
    BY <1>3 DEF HangUp, ReadFails, ReadInvalid, RecvAck, RecvUnknownAck,
                RecvAuthRejected, RecvAuthAccepted, ipc, tcp
<1>4. UNCHANGED cliente
    BY DEF Next, Producers, Operators, Operator, Server, Thread, Kernel, Tick, vars
<1> QED
    BY <1>1, <1>2, <1>3, <1>4 DEF Next, Server, ServerStep, ClientEvent

\* A process that is gone does not come back.
LEMMA PeerMoves ==
    ASSUME OwnedInv, [Next]_vars, NEW c \in Client, peer[c] = "closed"
    PROVE  peer'[c] = "closed"
<1>0. peer \in [Client -> {"unborn", "open", "closed"}]
    BY OwnedTypes DEF IpcTypeOK
<1>1. CASE Clients
    BY <1>0, <1>1 DEF Clients, Start, ClientStep, RecvConnAccepted, RecvData,
                      RecvFin, RecvUnanswered, Recv, Kill
<1> QED
    BY <1>1, PeerKept

\* A client that is still there and has been sent FIN has no session.
FinInv ==
    \A c \in Client : \A p \in ToSet(down[c]) :
        p.mtype = "FIN" /\ peer[c] = "open" =>
            \A a \in Entries : a.sockfd # BadFd => fdtab[a.sockfd] # c

\* Who sends FIN.
LEMMA FinStep ==
    ASSUME OwnedInv, [Next]_vars, NEW c \in Client, NEW p \in ToSet(down'[c]),
           p.mtype = "FIN"
    PROVE  \/ p \in ToSet(down[c])
           \/ \E fd \in Fd : /\ fdtab[fd] = c
                             /\ \/ RecvAuthRejected(fd)
                                \/ /\ CollectConnection
                                   /\ \E a \in Entries \ Entries' : a.sockfd = fd
<1>0. /\ down[c] \in Seq(Packet) /\ <<>> \in Seq(Packet)
      /\ ToSet(<<>>) = {}
    BY OwnedTypes DEF ToSet
<1>1. CASE down'[c] = down[c] \/ down'[c] = <<>>
    BY <1>0, <1>1
<1>2. CASE down[c] # <<>> /\ down'[c] = Tail(down[c])
    BY <1>0, <1>2, HeadTailElements
<1>3. CASE down'[c] = Push(down[c], <<>>)
    BY <1>0, <1>3, PushElements
<1>4. CASE \E fd \in Fd, out \in Seq(Packet) :
              fdtab[fd] = c /\ Outbox(fd, c, out) /\ down'[c] = Push(down[c], out)
    <2>1. PICK fd \in Fd, out \in Seq(Packet) :
              fdtab[fd] = c /\ Outbox(fd, c, out) /\ down'[c] = Push(down[c], out)
        BY <1>4
    <2>2. p \in ToSet(down[c]) \/ p \in ToSet(out)
        BY <1>0, <2>1, PushElements
    <2> QED
        BY <2>1, <2>2, OutboxKinds
<1>5. CASE down'[c] = Push(down[c], <<Control("CONN_ACCEPTED", <<Len(owner) + 1>>)>>)
    <2> DEFINE hello == Control("CONN_ACCEPTED", <<Len(owner) + 1>>)
               out   == <<hello>>
    <2>1. hello \in Packet /\ hello.mtype # "FIN"
        <3>1. Len(owner) + 1 \in Nat
            BY OwnedTypes
        <3> QED
            BY <3>1, ControlPackets, ControlFields
    <2>2. down'[c] = Push(down[c], out)
        BY <1>5
    <2> HIDE DEF hello
    <2>3. out \in Seq(Packet) /\ ToSet(out) = {hello}
        BY <2>1 DEF ToSet
    <2> HIDE DEF out
    <2> QED
        BY <1>0, <2>1, <2>2, <2>3, PushElements
<1> QED
    BY <1>1, <1>2, <1>3, <1>4, <1>5, DownMoves DEF DownStep

LEMMA FinInvStep ==
    OwnedInv /\ FirstInv /\ AskerHeld /\ FinInv /\ [Next]_vars => FinInv'
<1> SUFFICES ASSUME OwnedInv, FirstInv, AskerHeld, FinInv, [Next]_vars,
                    NEW c \in Client, NEW p \in ToSet(down'[c]), p.mtype = "FIN",
                    peer'[c] = "open",
                    NEW a \in Entries', a.sockfd # BadFd, fdtab'[a.sockfd] = c
             PROVE  FALSE
    BY DEF FinInv
<1>0. c # NoClient /\ Unmet /\ down[c] \in Seq(Packet) /\ ToSet(<<>>) = {}
    BY OwnedTypes DEF FirstInv, ToSet
<1>1. peer[c] = "open"
    <2>1. peer[c] \in {"unborn", "open"}
        BY PeerMoves, OwnedTypes DEF IpcTypeOK
    <2>2. ASSUME peer[c] = "unborn"
          PROVE  FALSE
        <3>1. c \notin ToSet(owner)
            BY <2>2 DEF OwnedInv, Wired
        <3> QED
            BY <1>0, <3>1, FinStep, HolderKnown DEF Unmet
    <2> QED
        BY <2>1, <2>2
<1>2. CASE p \in ToSet(down[c])
    <2>1. CASE Accept /\ c = Head(backlog)
        BY <1>0, <1>2, <2>1, AcceptedUnmet
    <2>2. CASE \E b \in Entries : b.sockfd # BadFd /\ fdtab[b.sockfd] = c
        BY <1>1, <1>2, <2>2 DEF FinInv
    <2> QED
        BY <2>1, <2>2, HolderMoves
<1>3. ASSUME NEW fd \in Fd, fdtab[fd] = c, RecvAuthRejected(fd)
      PROVE  FALSE
    <2>1. /\ fdtab' = fdtab /\ Entries' \subseteq Entries
          /\ up[c] # <<>> /\ Head(up[c]).mtype = "AUTH"
          /\ \A b \in Entries' : owner[b.token] # c
        BY <1>1, <1>3, RejectFacts
    <2>2. PICK b \in Entries : b.sockfd = fd /\ owner[b.token] = c
        BY <1>3, <2>1, AskedOnce DEF AskerHeld
    <2>3. a \in Entries /\ a.sockfd \in Fd /\ fdtab[a.sockfd] = fdtab[fd]
        BY <1>3, <2>1, OwnedTypes DEF Connection
    <2>4. a.sockfd = fd
        BY <1>0, <1>3, <2>3 DEF OwnedInv, Wired
    <2>5. a = b
        BY <2>2, <2>3, <2>4 DEF OwnedInv, EntriesOwned
    <2> QED
        BY <2>1, <2>2, <2>5
<1>4. ASSUME NEW fd \in Fd, fdtab[fd] = c, CollectConnection,
             NEW b \in Entries \ Entries', b.sockfd = fd
      PROVE  FALSE
    <2>1. PICK e \in Entries : Entries' = Entries \ {e} /\ fdtab' = Closed(e.sockfd)
        BY <1>4, CollectFacts
    <2>2. e.sockfd = fd /\ a \in Entries
        BY <1>4, <2>1
    <2>3. a.sockfd \in Fd
        BY <2>2, OwnedTypes DEF Connection
    <2>4. a.sockfd # fd /\ fdtab[a.sockfd] = c
        BY <1>0, <2>1, <2>2, <2>3 DEF Closed
    <2> QED
        BY <1>0, <1>4, <2>3, <2>4 DEF OwnedInv, Wired
<1> QED
    BY <1>2, <1>3, <1>4, FinStep

\* What a client is sent and what it answers, up to its FIN.
SentInv == FirstInv /\ AskerHeld /\ FinInv

LEMMA SentInit == Init => SentInv
<1> SUFFICES ASSUME Init
             PROVE  SentInv
    OBVIOUS
<1>1. (\A f \in Fd : fdtab[f] = NoClient) /\ \A c \in Client : down[c] = <<>>
    BY DEF Init, IpcInit
<1>2. AskerHeld
    BY <1>1, IpcAssumption DEF AskerHeld
<1>3. FinInv
    BY <1>1 DEF FinInv, ToSet
<1> QED
    BY <1>2, <1>3, FirstInit DEF SentInv

LEMMA SentStep == OwnedInv /\ SentInv /\ [Next]_vars => SentInv'
BY FirstStep, AskerStep, FinInvStep DEF SentInv

\* A client that is told FIN, and has not gone away, has no session: the server
\* tells it when it takes the session away or refuses to hand it an older one,
\* and by then the client's own has been given up, because an AUTH comes before
\* every other answer of its client and is read while the client is still at the
\* descriptor of the session it was issued.
THEOREM FinEndsSession == Spec => []FinMeansGone
<1>1. OwnedInv /\ SentInv => FinMeansGone
    <2> SUFFICES ASSUME OwnedInv, SentInv, NEW c \in Client, peer[c] = "open",
                        NEW p \in ToSet(down[c]), p.mtype = "FIN",
                        NEW conn \in Sessions
                 PROVE  At(conn.sockfd) # c
        BY DEF FinMeansGone
    <2>1. conn \in Entries /\ conn.sockfd # BadFd
        BY DEF Sessions, Entries
    <2>2. conn.sockfd \in Fd
        BY <2>1, OwnedTypes DEF Connection
    <2> QED
        BY <2>1, <2>2 DEF SentInv, FinInv, At
<1> DEFINE Inv == OwnedInv /\ SentInv
<1>2. Init => Inv
    BY OwnedInit, SentInit
<1>3. Inv /\ [Next]_vars => Inv'
    BY OwnedStep, SentStep
<1>4. Inv => FinMeansGone
    BY <1>1
<1> HIDE DEF Inv
<1> QED
    BY <1>2, <1>3, <1>4, PTL DEF Spec

-----------------------------------------------------------------------------
(* The answers of a client that recovers nothing.                          *)

\* A client that does not know its token has CONN_ACCEPTED before it, unless
\* there was no room for it or the connection is gone.
Greeted ==
    \A c \in Client : c \in ToSet(owner) /\ old[c] = 0 /\ token[c] = 0 =>
        \/ down[c] = <<>> /\ (c \in reset \/ SndBuf = 0)
        \/ down[c] # <<>> /\ Head(down[c]).mtype = "CONN_ACCEPTED"

\* An ACK of a client that was started without -t names the token the client was
\* issued.
AckKnown ==
    \A c \in Client : old[c] = 0 =>
        \A p \in ToSet(up[c]) : p.mtype = "ACK" =>
            p.payload[1] \in DOMAIN owner /\ owner[p.payload[1]] = c

AckInv == Greeted /\ AckKnown

\* What is first in a socket stays first.
LEMMA PushFirst ==
    ASSUME NEW queue \in Seq(Packet), queue # <<>>, SndBuf # 0, NEW pkts \in Seq(Packet)
    PROVE  Push(queue, pkts) # <<>> /\ Head(Push(queue, pkts)) = Head(queue)
<1> DEFINE r == Push(queue, pkts)
<1>1. /\ r \in Seq(Packet) /\ r # <<>>
      /\ \A i \in DOMAIN r : \/ i \in DOMAIN queue /\ r[i] = queue[i]
                             \/ \E j \in DOMAIN pkts : i = Len(queue) + j
    BY PushIndices
<1> HIDE DEF r
<1>2. 1 \in DOMAIN r /\ Head(r) = r[1] /\ Head(queue) = queue[1]
    BY <1>1, TailIndices
<1>3. Len(queue) \in Nat /\ Len(queue) # 0 /\ \A j \in DOMAIN pkts : j \in Nat /\ j # 0
    BY EmptySeq
<1>4. r[1] = queue[1]
    BY <1>1, <1>2, <1>3
<1> QED
    BY <1>1, <1>2, <1>4 DEF r

\* Nothing fits in a socket without room.
LEMMA PushNothing ==
    ASSUME NEW queue \in Seq(Packet), NEW pkts \in Seq(Packet), SndBuf = 0
    PROVE  Push(queue, pkts) = <<>>
<1> DEFINE q == queue \o pkts
<1>1. q \in Seq(Packet) /\ Len(q) = Len(queue) + Len(pkts)
      /\ Len(queue) \in Nat /\ Len(pkts) \in Nat
    BY ConcatProperties
<1>2. Push(queue, pkts) = IF Len(queue) + Len(pkts) <= 0 THEN q ELSE SubSeq(q, 1, 0)
    BY DEF Push
<1> HIDE DEF q
<1>3. SubSeq(q, 1, 0) = <<>>
    BY <1>1
<1>4. Len(q) = 0 => q = <<>>
    BY <1>1, EmptySeq
<1> QED
    BY <1>1, <1>2, <1>3, <1>4

\* A client that recovers nothing and reads CONN_ACCEPTED knows its token.
LEMMA Introduced ==
    ASSUME OwnedInv, NEW c \in Client, RecvConnAccepted(c), old[c] = 0
    PROVE  token'[c] # 0
<1>1. PICK p \in ToSet(down[c]) :
        /\ p.mtype = "CONN_ACCEPTED"
        /\ token' = [token EXCEPT ![c] = p.payload[1]]
    BY DEF RecvConnAccepted
<1>2. p.payload[1] \in DOMAIN owner
    BY <1>1 DEF OwnedInv, Travelling, Hello
<1> QED
    BY <1>1, <1>2, OwnedTypes

\* An accept greets the client.
LEMMA GreetStep ==
    ASSUME OwnedInv, Unmet, Accept, NEW c \in Client, c = Head(backlog)
    PROVE  \/ down'[c] = <<>> /\ SndBuf = 0
           \/ down'[c] # <<>> /\ Head(down'[c]).mtype = "CONN_ACCEPTED"
<1> DEFINE hello == Control("CONN_ACCEPTED", <<Len(owner) + 1>>)
           out   == <<hello>>
<1>1. hello \in Packet /\ hello.mtype = "CONN_ACCEPTED"
    <2>1. Len(owner) + 1 \in Nat
        BY OwnedTypes
    <2> QED
        BY <2>1, ControlPackets, ControlFields
<1>2. down[c] = <<>> /\ c \notin reset /\ down \in [Client -> Seq(Packet)]
    BY AcceptedUnmet, OwnedTypes DEF IpcTypeOK
<1>3. down' = [down EXCEPT ![c] = IF c \in reset THEN @ ELSE Push(@, out)]
    BY DEF Accept
<1> HIDE DEF hello
<1>4. down'[c] = Push(down[c], out)
    BY <1>2, <1>3
<1>5. out \in Seq(Packet) /\ DOMAIN out = {1} /\ out # <<>> /\ out[1] = hello
    BY <1>1
<1> HIDE DEF out
<1> DEFINE r == Push(down[c], out)
<1>6. /\ r \in Seq(Packet)
      /\ SndBuf # 0 => r # <<>>
      /\ SndBuf = 0 => r = <<>>
    BY <1>2, <1>5, PushIndices
<1>7. \A i \in DOMAIN r : i \in DOMAIN out /\ r[i] = out[i]
    <2>1. down[c] \in Seq(Packet) /\ Len(down[c]) = 0
        BY <1>2
    <2> QED
        BY <1>5, <2>1, PushEmpty
<1>8. down'[c] = r
    BY <1>4
<1> HIDE DEF r
<1>9. r # <<>> => 1 \in DOMAIN r /\ Head(r) = r[1]
    BY <1>6, TailIndices
<1> QED
    BY <1>1, <1>5, <1>6, <1>7, <1>8, <1>9

LEMMA GreetedStep ==
    OwnedInv /\ PacketsLateOrCut /\ Unmet /\ Greeted /\ [Next]_vars => Greeted'
<1> SUFFICES ASSUME OwnedInv, PacketsLateOrCut, Unmet, Greeted, [Next]_vars,
                    NEW c \in Client, c \in ToSet(owner'), old'[c] = 0, token'[c] = 0
             PROVE  \/ down'[c] = <<>> /\ (c \in reset' \/ SndBuf = 0)
                    \/ down'[c] # <<>> /\ Head(down'[c]).mtype = "CONN_ACCEPTED"
    BY DEF Greeted
<1>1. CASE Accept /\ c = Head(backlog)
    BY <1>1, GreetStep
<1>2. CASE c \in ToSet(owner)
    <2>0. down[c] \in Seq(Packet) /\ <<>> \in Seq(Packet)
          /\ ~(Accept /\ c = Head(backlog)) /\ (c \in reset => c \in reset')
        BY <1>2, OwnedTypes, AcceptedUnmet, ResetMoves
    <2>1. old[c] = 0 /\ ~RecvConnAccepted(c)
        BY <1>2, OldKept, Introduced
    <2>2. token[c] = 0
        BY <1>2, <2>1, ClienteMoves DEF OwnedInv, Wired
    <2>3. CASE down[c] = <<>> /\ (c \in reset \/ SndBuf = 0)
        <3>1. ~ClientStep(c)
            BY <2>3, ClientReads
        <3>2. \A out \in Seq(Packet) : SndBuf = 0 => Push(down[c], out) = <<>>
            BY <2>0, <2>3, PushIndices
        <3> QED
            BY <2>0, <2>3, <3>1, <3>2, DownMoves DEF DownStep
    <2>4. CASE down[c] # <<>> /\ Head(down[c]).mtype = "CONN_ACCEPTED"
        <3>1. ~ClientStep(c)
            <4>1. Head(down[c]) \in ToSet(down[c])
                BY <2>0, <2>4, HeadTailElements
            <4>2. check_packet_MD5(Head(down[c]))
                BY <2>4, <4>1 DEF PacketsLateOrCut, LateOrCut
            <4> QED
                BY <2>1, <2>4, <4>2
                   DEF ClientStep, RecvData, RecvFin, RecvUnanswered, Recv
        <3>2. ASSUME NEW out \in Seq(Packet), down'[c] = Push(down[c], out)
              PROVE  \/ down'[c] = <<>> /\ SndBuf = 0
                     \/ down'[c] # <<>> /\ Head(down'[c]).mtype = "CONN_ACCEPTED"
            <4>1. CASE SndBuf # 0
                BY <2>0, <2>4, <3>2, <4>1, PushFirst
            <4>2. CASE SndBuf = 0
                BY <3>2, <4>2, <2>0, PushNothing
            <4> QED
                BY <4>1, <4>2
        <3> QED
            BY <2>0, <2>4, <3>1, <3>2, DownMoves DEF DownStep
    <2> QED
        BY <1>2, <2>1, <2>2, <2>3, <2>4 DEF Greeted
<1> QED
    BY <1>1, <1>2, OwnerKept

LEMMA AckKnownStep ==
    OwnedInv /\ Unmet /\ AckInv /\ [Next]_vars => AckKnown'
<1> SUFFICES ASSUME OwnedInv, Unmet, AckInv, [Next]_vars, NEW c \in Client, old'[c] = 0,
                    NEW p \in ToSet(up'[c]), p.mtype = "ACK"
             PROVE  p.payload[1] \in DOMAIN owner' /\ owner'[p.payload[1]] = c
    BY DEF AckKnown
<1>0. up[c] \in Seq(Packet) /\ ToSet(<<>>) = {}
    BY OwnedTypes DEF ToSet
<1>1. c \in ToSet(owner) => old[c] = 0
    BY OldKept
<1>2. \A t : t \in DOMAIN owner /\ owner[t] = c => t \in DOMAIN owner' /\ owner'[t] = c
    BY OwnerKept
<1>3. CASE p \in ToSet(up[c])
    <2>1. c \in ToSet(owner)
        BY <1>0, <1>3 DEF Unmet
    <2> QED
        BY <1>1, <1>2, <1>3, <2>1 DEF AckInv, AckKnown
<1>4. ASSUME NEW out \in Seq(Packet), Answered(c, out), p \in ToSet(out)
      PROVE  p.payload[1] \in DOMAIN owner /\ owner[p.payload[1]] = c
    <2>1. c \in ToSet(owner) /\ old[c] = 0
        BY <1>1, <1>4, ClientReads DEF Answered, ClientStep, Unmet
    <2>2. \A t : ToSet(<<Ack(t)>>) = {Ack(t)} /\ Ack(t).payload = <<t>>
        BY ControlFields DEF ToSet, Ack
    <2>3. CASE RecvConnAccepted(c) /\ out = <<Ack(Head(down[c]).payload[1])>>
        <3>1. PICK q \in ToSet(down[c]) : q = Head(down[c]) /\ q.mtype = "CONN_ACCEPTED"
            BY <2>3 DEF RecvConnAccepted, Recv
        <3> DEFINE t == Head(down[c]).payload[1]
        <3>2. t \in DOMAIN owner /\ owner[t] = c
            BY <3>1 DEF OwnedInv, Travelling, Hello
        <3>3. out = <<Ack(t)>>
            BY <2>3
        <3> HIDE DEF t
        <3>4. p = Ack(t)
            BY <1>4, <2>2, <3>3
        <3> QED
            BY <2>2, <3>2, <3>4
    <2>4. CASE RecvData(c) /\ out = <<Ack(token[c])>>
        <3>1. Head(down[c]).mtype # "CONN_ACCEPTED" /\ down[c] # <<>>
            BY <2>4 DEF RecvData, Recv
        <3>2. token[c] # 0
            BY <2>1, <3>1 DEF AckInv, Greeted
        <3>3. token[c] \in DOMAIN owner /\ owner[token[c]] = c
            BY <2>1, <3>2 DEF OwnedInv, TokenKnown
        <3> QED
            BY <1>4, <2>2, <2>4, <3>3
    <2> QED
        BY <1>4, <2>1, <2>3, <2>4 DEF Answered
<1>5. CASE up'[c] = up[c] \/ up'[c] = <<>> \/ (up[c] # <<>> /\ up'[c] = Tail(up[c]))
    BY <1>0, <1>3, <1>5, HeadTailElements
<1>6. CASE \E out \in Seq(Packet) : Answered(c, out) /\ up'[c] = up[c] \o out
    BY <1>0, <1>2, <1>3, <1>4, <1>6, ConcatElements
<1> QED
    BY <1>5, <1>6, UpMoves DEF UpStep

LEMMA AckStep ==
    OwnedInv /\ PacketsLateOrCut /\ Unmet /\ AckInv /\ [Next]_vars => AckInv'
BY GreetedStep, AckKnownStep DEF AckInv

LEMMA AckInit == Init => AckInv
<1> SUFFICES ASSUME Init
             PROVE  AckInv
    OBVIOUS
<1>1. owner = <<>> /\ \A c \in Client : up[c] = <<>>
    BY DEF Init, IpcInit, ServerInit
<1>2. ToSet(<<>>) = {}
    BY DEF ToSet
<1> QED
    BY <1>1, <1>2 DEF AckInv, Greeted, AckKnown

\* An ACK on its way from a client that was started without -t, and that the
\* server would still read, names a live session: such a client cannot make the
\* server dereference NULL.  The token comes from CONN_ACCEPTED, which the client
\* has before any packet it could answer, and its session keeps the descriptor as
\* long as the descriptor is open.
THEOREM PlainAcksSafe == Spec => []AckOfPlainClientSafe
<1>1. OwnedInv /\ LeakInv /\ AckInv => AckOfPlainClientSafe
    <2> SUFFICES ASSUME OwnedInv, LeakInv, AckInv, NEW fd \in Fd, fdtab[fd] # NoClient,
                        old[fdtab[fd]] = 0, NEW p \in ToSet(up[fdtab[fd]]),
                        p.mtype = "ACK"
                 PROVE  p.payload[1] \in LiveTokens
        BY DEF AckOfPlainClientSafe
    <2> DEFINE c == fdtab[fd]
               t == p.payload[1]
    <2>1. c \in Client /\ fd # BadFd
        BY OwnedTypes, IpcAssumption DEF Fd, BadFd
    <2>2. t \in DOMAIN owner /\ owner[t] = c
        BY <2>1 DEF AckInv, AckKnown
    <2>3. PICK a \in Entries : a.sockfd = fd
        BY DEF LeakInv
    <2>4. /\ a.token \in DOMAIN owner /\ a.token # 0
          /\ owner[a.token] = c \/ old[c] = a.token
        <3>1. EntryOwned(a) /\ DOMAIN owner = 1 .. Len(owner)
            BY OwnedTypes DEF OwnedInv, EntriesOwned
        <3> QED
            BY <2>1, <2>3, <3>1 DEF EntryOwned
    <2>5. a.token = t
        BY <2>1, <2>2, <2>4 DEF OwnedInv, Wired
    <2> QED
        BY <2>5, OwnedTypes, ElementsDef DEF LiveTokens, Entries
<1> DEFINE Inv == /\ OwnedInv /\ LeakInv /\ StampsPast /\ PacketsLateOrCut /\ FirstInv
                  /\ AckInv
<1>2. Init => Inv
    <2>1. Init => LeakInv
        BY DEF Init, IpcInit, LeakInv
    <2> QED
        BY <2>1, OwnedInit, LateInit, FirstInit, AckInit
<1>3. Inv /\ [Next]_vars => Inv'
    <2>1. FirstInv => Unmet
        BY DEF FirstInv
    <2> QED
        BY <2>1, OwnedStep, LeakStep, StampsStep, LateStep, FirstStep, AckStep
<1>4. Inv => AckOfPlainClientSafe
    BY <1>1
<1> HIDE DEF Inv
<1> QED
    BY <1>2, <1>3, <1>4, PTL DEF Spec

-----------------------------------------------------------------------------
(* The buffer.                                                             *)

\* What is in the second part of a concatenation is in the concatenation.
LEMMA ConcatKeeps ==
    ASSUME NEW S, NEW s \in Seq(S), NEW t \in Seq(S)
    PROVE  ToSet(t) \subseteq ToSet(s \o t)
<1>1. /\ s \o t \in Seq(S) /\ Len(s \o t) = Len(s) + Len(t)
      /\ \A i \in 1 .. Len(s) + Len(t) :
            (s \o t)[i] = IF i <= Len(s) THEN s[i] ELSE t[i - Len(s)]
      /\ Len(s) \in Nat /\ Len(t) \in Nat
    BY ConcatProperties
<1>2. ASSUME NEW x \in ToSet(t)
      PROVE  x \in ToSet(s \o t)
    <2>1. PICK j \in 1 .. Len(t) : t[j] = x
        BY ElementsDef
    <2>2. Len(s) + j \in 1 .. Len(s) + Len(t) /\ (s \o t)[Len(s) + j] = x
        BY <1>1, <2>1
    <2> QED
        BY <1>1, <2>2, ElementsDef
<1> QED
    BY <1>2

\* A packet goes because it is older than the timeout.
LEMMA PacketDropped ==
    ASSUME OwnedInv, [Next]_vars,
           NEW p \in ToSet(buffer_packets), p \notin ToSet(buffer_packets')
    PROVE  Outdated(p)
<1>0. buffer_packets \in Seq(Packet)
    BY DEF OwnedInv, TypeInv, TypeOK, ServerTypeOK
<1>1. CASE CollectPacket
    <2>1. PICK i \in DOMAIN buffer_packets :
            Outdated(buffer_packets[i]) /\ buffer_packets' = RemoveAt(buffer_packets, i)
        BY <1>1 DEF CollectPacket
    <2>2. ToSet(buffer_packets') =
            {buffer_packets[j] : j \in DOMAIN buffer_packets \ {i}}
        BY <1>0, <2>1, RemoveAtElements
    <2>3. PICK j \in DOMAIN buffer_packets : buffer_packets[j] = p
        BY <1>0, ElementsDef
    <2> QED
        BY <2>1, <2>2, <2>3
<1>2. CASE MqReceive
    <2>1. mq \in Seq(Message) /\ mq # <<>> /\ now \in Nat
        BY <1>2 DEF MqReceive, OwnedInv, TypeInv, TypeOK, IpcTypeOK
    <2>2. Head(mq) \in Message
        BY ONLY <2>1, HeadTailProperties
    <2>3. PICK fits \in BOOLEAN :
            buffer_packets' = <<DataPacket(Head(mq), fits)>> \o buffer_packets
        BY <1>2 DEF MqReceive
    <2> DEFINE q == DataPacket(Head(mq), fits)
               s == <<q>>
    <2>4. q \in Packet /\ buffer_packets' = s \o buffer_packets
        BY <2>1, <2>2, <2>3, DataPacketType
    <2> HIDE DEF q
    <2>5. s \in Seq(Packet)
        BY <2>4
    <2> HIDE DEF s
    <2> QED
        BY <1>0, <2>4, <2>5, ConcatKeeps
<1>3. ASSUME \/ Clients \/ Operators \/ Thread \/ Kernel \/ Tick
             \/ UNCHANGED vars \/ Producers
      PROVE  buffer_packets' = buffer_packets
    BY <1>3 DEF Clients, Operators, Operator, Thread, FtSetup, Kernel, Tick, vars,
                server, Producers
<1>4. ASSUME \/ Poll \/ Resent \/ Resend \/ NoMessage \/ CliEvent \/ Accept \/ AcceptFails
             \/ CollectConnections \/ CollectConnection \/ ConnectionsCollected
             \/ CollectPackets \/ PacketsCollected
      PROVE  buffer_packets' = buffer_packets
    BY <1>4 DEF Poll, Resent, Resend, CliEvent, NoCommand, RefuseCommand,
                CmdAdd, CmdDel, CmdLog, NoMessage, Accept, AcceptFails,
                CollectConnections, CollectConnection, ConnectionsCollected,
                CollectPackets, PacketsCollected
<1>5. ASSUME NEW fd \in Fd, \/ HangUp(fd) \/ ReadFails(fd) \/ ReadInvalid(fd)
                            \/ RecvAck(fd) \/ RecvUnknownAck(fd)
                            \/ RecvAuthRejected(fd) \/ RecvAuthAccepted(fd)
      PROVE  buffer_packets' = buffer_packets
    <2>1. CASE RecvAuthRejected(fd)
        BY <2>1 DEF RecvAuthRejected
    <2>2. CASE RecvAuthAccepted(fd)
        BY <2>2 DEF RecvAuthAccepted
    <2> QED
        BY <1>5, <2>1, <2>2 DEF HangUp, ReadFails, ReadInvalid, RecvAck, RecvUnknownAck
<1> QED
    BY <1>1, <1>2, <1>3, <1>4, <1>5 DEF Next, Server, ServerStep, ClientEvent

\* A packet is dropped only when every session in some room that still has time to
\* come back has answered since the packet was stamped, and so would not be sent it
\* again.
THEOREM DropsAreUseless == Spec => DroppedUseless
<1> DEFINE Drop == \A p \in ToSet(buffer_packets) \ ToSet(buffer_packets') :
                     \A conn \in ToSet(connections') :
                        (conn.susc_counter > 0 /\ now - conn.timestamp <= CONN_TIMEOUT) =>
                            conn.timestamp > p.timestamp
<1>1. OwnedInv /\ OwnedInv' /\ [Next]_vars => Drop
    <2> SUFFICES ASSUME OwnedInv, OwnedInv', [Next]_vars,
                        NEW p \in ToSet(buffer_packets), p \notin ToSet(buffer_packets'),
                        NEW conn \in ToSet(connections'),
                        now - conn.timestamp <= CONN_TIMEOUT
                 PROVE  conn.timestamp > p.timestamp
        OBVIOUS
    <2>1. now - p.timestamp > CONN_TIMEOUT
        BY PacketDropped DEF Outdated
    <2>2. p \in Packet
        BY ElementsDef DEF OwnedInv, TypeInv, TypeOK, ServerTypeOK
    <2>3. conn \in Connection
        <3>1. connections' \in Seq(Connection)
            BY DEF OwnedInv, TypeInv, TypeOK, ServerTypeOK
        <3> QED
            BY <3>1, ElementsDef
    <2>4. now \in Nat /\ CONN_TIMEOUT \in Nat
        BY OwnedTypes, ServerAssumption DEF IpcTypeOK
    <2>5. p.timestamp \in Nat /\ conn.timestamp \in Nat
        BY <2>2, <2>3 DEF Packet, Connection
    <2> QED
        BY <2>1, <2>4, <2>5
<1>2. Init => OwnedInv
    BY OwnedInit
<1>3. OwnedInv /\ [Next]_vars => OwnedInv'
    BY OwnedStep
<1>4. OwnedInv /\ [Next]_vars => [Drop]_vars
    BY <1>1, <1>3
<1> HIDE DEF Drop
<1>5. Spec => [][Drop]_vars
    BY <1>2, <1>3, <1>4, PTL DEF Spec
<1> QED
    BY <1>5 DEF DroppedUseless, Drop

-----------------------------------------------------------------------------
(* The messages of a producer, in the order in which it produced them.     *)

\* The producer r has begun its message n; if it is filling in one, n is older.
Begun(r, n) == n <= count[r] /\ (msg[r] # -1 => n < count[r])

\* The queue is in order, and no message comes before it is begun.
QueueInOrder ==
    /\ \A i, j \in DOMAIN mq : i < j /\ mq[i].id = mq[j].id => mq[i].n < mq[j].n
    /\ \A m \in ToSet(mq) : Begun(m.id, m.n)

\* The packet p carries a whole message.
Carries(p) == p.mtype = "DATA" /\ Len(p.payload) = 2

\* What p carries was begun before whatever is still in the queue.
Overtaken(p) ==
    /\ p.payload[1] \in Room
    /\ Begun(p.payload[1], p.payload[2])
    /\ \A m \in ToSet(mq) : m.id = p.payload[1] => p.payload[2] < m.n

\* The packets are resent to a client that was started to recover a session.
ResentElsewhere ==
    pc = "resend" =>
        \A fd \in Fd, c \in Client :
            fd = connections[orig_conn].sockfd /\ fdtab[fd] = c => old[c] # 0

StreamInv ==
    /\ QueueInOrder
    /\ ResentElsewhere
    /\ \A c \in Client : old[c] = 0 =>
          \A p \in ToSet(down[c]) : Carries(p) => Overtaken(p)
    /\ PlainStreamOrdered

\* What a producer has begun stays begun.
LEMMA BegunStep ==
    ASSUME OwnedInv, [Next]_vars, NEW r \in Room, NEW n \in Nat, Begun(r, n)
    PROVE  Begun(r, n)'
<1>1. msg \in [Room -> Nat \cup {-1}] /\ count \in [Room -> Nat] /\ now \in Nat
    BY DEF OwnedInv, TypeInv, TypeOK, IpcTypeOK, ProductorTypeOK
<1>2. CASE UNCHANGED <<msg, count>>
    BY <1>2 DEF Begun
<1>3. ASSUME NEW s \in Room, Stamp(s) \/ MqSend(s) \/ GiveUp(s)
      PROVE  Begun(r, n)'
    <2>1. CASE r # s
        BY <1>1, <1>3, <2>1 DEF Begun, Stamp, MqSend, GiveUp
    <2>2. CASE r = s /\ Stamp(s)
        <3>1. count'[r] = count[r] + 1 /\ n <= count[r] /\ count[r] \in Nat
            BY <1>1, <2>2 DEF Begun, Stamp
        <3> QED
            BY <3>1 DEF Begun
    <2>3. CASE r = s /\ (MqSend(s) \/ GiveUp(s))
        <3>1. count' = count /\ msg'[r] = -1
            BY <1>1, <2>3 DEF MqSend, GiveUp
        <3> QED
            BY <3>1 DEF Begun
    <2> QED
        BY <1>3, <2>1, <2>2, <2>3
<1> QED
    BY <1>2, <1>3, QueueMoves

\* What enters the queue is newer than what has been begun before.
LEMMA QueueGrows ==
    ASSUME OwnedInv, [Next]_vars, NEW m \in ToSet(mq')
    PROVE  \/ m \in ToSet(mq)
           \/ /\ m.id \in Room /\ m.n \in Nat /\ Begun(m.id, m.n)'
              /\ \A n \in Nat : Begun(m.id, n) => n < m.n
<1>1. /\ mq \in Seq(Message)
      /\ msg \in [Room -> Nat \cup {-1}] /\ count \in [Room -> Nat]
    BY DEF OwnedInv, TypeInv, TypeOK, IpcTypeOK, ProductorTypeOK
<1>2. CASE mq' = mq
    BY <1>2
<1>3. CASE mq # <<>> /\ mq' = Tail(mq)
    BY <1>1, <1>3, HeadTailElements
<1>4. ASSUME NEW r \in Room, MqSend(r)
      PROVE  \/ m \in ToSet(mq)
             \/ /\ m.id \in Room /\ m.n \in Nat /\ Begun(m.id, m.n)'
                /\ \A n \in Nat : Begun(m.id, n) => n < m.n
    <2> DEFINE e == [id |-> r, timestamp |-> msg[r], n |-> count[r]]
    <2>1. /\ mq' = Append(mq, e) /\ msg[r] # -1 /\ count' = count
          /\ msg' = [msg EXCEPT ![r] = -1]
        BY <1>4 DEF MqSend
    <2>2. e \in Message /\ e.id = r /\ e.n = count[r] /\ count[r] \in Nat
        BY <1>1, <2>1 DEF Message
    <2> HIDE DEF e
    <2>3. ToSet(mq') = ToSet(mq) \cup {e}
        BY <1>1, <2>1, <2>2, AppendElements
    <2>4. msg'[r] = -1 /\ count'[r] = count[r]
        BY <1>1, <2>1
    <2>5. CASE m = e
        <3>1. m.id = r /\ m.n = count[r]
            BY <2>2, <2>5
        <3>2. m.n <= count'[m.id] /\ msg'[m.id] = -1
            BY <2>2, <2>4, <3>1
        <3>3. Begun(m.id, m.n)'
            BY <3>2 DEF Begun
        <3> QED
            BY <2>1, <2>2, <3>1, <3>3 DEF Begun
    <2> QED
        BY <2>3, <2>5
<1>5. ASSUME NEW r \in Room, Stamp(r) \/ GiveUp(r)
      PROVE  mq' = mq
    BY <1>5 DEF Stamp, GiveUp, ipc
<1> QED
    BY <1>2, <1>3, <1>4, <1>5, QueueMoves

\* The queue stays in order, and what is taken from it is older than what stays.
LEMMA QueueStep ==
    OwnedInv /\ QueueInOrder /\ [Next]_vars => QueueInOrder'
<1> SUFFICES ASSUME OwnedInv, QueueInOrder, [Next]_vars
             PROVE  QueueInOrder'
    OBVIOUS
<1>1. /\ mq \in Seq(Message) /\ msg \in [Room -> Nat \cup {-1}] /\ count \in [Room -> Nat]
    BY DEF OwnedInv, TypeInv, TypeOK, IpcTypeOK, ProductorTypeOK
<1>2. \A m \in ToSet(mq) : m.id \in Room /\ m.n \in Nat
    <2>1. \A m \in ToSet(mq) : m \in Message
        BY <1>1, ElementsDef
    <2> QED
        BY <2>1 DEF Message
<1>3. ASSUME NEW m \in ToSet(mq')
      PROVE  Begun(m.id, m.n)'
    <2>1. CASE m \in ToSet(mq)
        BY <1>2, <2>1, BegunStep DEF QueueInOrder
    <2> QED
        BY <2>1, QueueGrows
<1>4. ASSUME NEW i \in DOMAIN mq', NEW j \in DOMAIN mq', i < j, mq'[i].id = mq'[j].id
      PROVE  mq'[i].n < mq'[j].n
    <2>1. CASE mq' = mq
        BY <1>4, <2>1 DEF QueueInOrder
    <2>2. CASE mq # <<>> /\ mq' = Tail(mq)
        <3>1. /\ Len(mq) \in Nat /\ Len(Tail(mq)) = Len(mq) - 1 /\ Tail(mq) \in Seq(Message)
              /\ \A k \in 1 .. Len(Tail(mq)) : Tail(mq)[k] = mq[k + 1]
            BY <1>1, <2>2, HeadTailProperties, EmptySeq
        <3>2. i \in 1 .. Len(mq) - 1 /\ j \in 1 .. Len(mq) - 1
            BY <1>4, <2>2, <3>1
        <3>3. /\ i + 1 \in DOMAIN mq /\ j + 1 \in DOMAIN mq /\ i + 1 < j + 1
              /\ mq'[i] = mq[i + 1] /\ mq'[j] = mq[j + 1]
            BY <1>1, <1>4, <2>2, <3>1, <3>2
        <3> QED
            BY <1>4, <3>3 DEF QueueInOrder
    <2>3. ASSUME NEW r \in Room, MqSend(r)
          PROVE  mq'[i].n < mq'[j].n
        <3> DEFINE e == [id |-> r, timestamp |-> msg[r], n |-> count[r]]
        <3>1. mq' = Append(mq, e) /\ msg[r] # -1
            BY <2>3 DEF MqSend
        <3>2. e \in Message /\ e.id = r /\ e.n = count[r]
            BY <1>1, <3>1 DEF Message
        <3> HIDE DEF e
        <3>3. /\ Len(mq') = Len(mq) + 1 /\ Len(mq) \in Nat /\ mq' \in Seq(Message)
              /\ \A k \in 1 .. Len(mq) : mq'[k] = mq[k]
              /\ mq'[Len(mq) + 1] = e
            BY <1>1, <3>1, <3>2, AppendProperties
        <3>4. i \in 1 .. Len(mq) + 1 /\ j \in 1 .. Len(mq) + 1
            BY <3>3
        <3>5. i \in DOMAIN mq /\ mq'[i] = mq[i] /\ mq[i] \in ToSet(mq)
            BY SMTT(20), <1>1, <1>4, <3>3, <3>4, ElementsDef
        <3>6. CASE j = Len(mq) + 1
            BY <1>4, <3>1, <3>2, <3>3, <3>5, <3>6 DEF QueueInOrder, Begun
        <3>7. CASE j # Len(mq) + 1
            <4>1. j \in DOMAIN mq /\ mq'[j] = mq[j]
                BY <1>1, <3>3, <3>4, <3>7
            <4> QED
                BY <1>4, <3>5, <4>1 DEF QueueInOrder
        <3> QED
            BY <3>6, <3>7
    <2>4. ASSUME NEW r \in Room, Stamp(r) \/ GiveUp(r)
          PROVE  mq' = mq
        BY <2>4 DEF Stamp, GiveUp, ipc
    <2> QED
        BY <2>1, <2>2, <2>3, <2>4, QueueMoves
<1> QED
    BY <1>3, <1>4 DEF QueueInOrder

\* A message that is taken is overtaken by nothing of its producer.
LEMMA TakenFirst ==
    ASSUME OwnedInv, QueueInOrder, mq # <<>>, NEW m, m = Head(mq)
    PROVE  /\ m \in Message /\ m \in ToSet(mq)
           /\ \A x \in ToSet(Tail(mq)) : x.id = m.id => m.n < x.n
<1>1. mq \in Seq(Message)
    BY DEF OwnedInv, TypeInv, TypeOK, IpcTypeOK
<1>2. /\ m = mq[1] /\ Len(mq) \in Nat /\ Len(mq) > 0
      /\ Tail(mq) \in Seq(Message) /\ Len(Tail(mq)) = Len(mq) - 1
      /\ \A k \in 1 .. Len(Tail(mq)) : Tail(mq)[k] = mq[k + 1]
    BY <1>1, HeadTailProperties, EmptySeq
<1>3. ASSUME NEW x \in ToSet(Tail(mq)), x.id = m.id
      PROVE  m.n < x.n
    <2> DEFINE rest == Tail(mq)
    <2>0. rest \in Seq(Message) /\ x \in ToSet(rest)
        BY <1>2, <1>3
    <2> HIDE DEF rest
    <2>1. PICK k \in 1 .. Len(rest) : rest[k] = x
        BY <2>0, ElementsDef
    <2>2. 1 \in DOMAIN mq /\ k + 1 \in DOMAIN mq /\ 1 < k + 1 /\ mq[k + 1] = x
        BY <1>1, <1>2, <2>1 DEF rest
    <2> QED
        BY <1>2, <1>3, <2>2 DEF QueueInOrder
<1>4. m \in ToSet(mq) /\ m \in Message
    BY <1>1, HeadTailElements, ElementsDef
<1> QED
    BY <1>3, <1>4

\* A broadcast reaches a client once.
LEMMA OneCopy ==
    ASSUME OwnedInv, NEW room \in Seq(Fd \cup {BadFd}), RoomDistinct(room),
           NEW c \in Client
    PROVE  Cardinality({i \in DOMAIN room : At(room[i]) = c}) \in {0, 1}
<1> DEFINE copies == {i \in DOMAIN room : At(room[i]) = c}
<1>1. ASSUME NEW i \in copies, NEW j \in copies
      PROVE  i = j
    <2>1. /\ room[i] \in Fd /\ fdtab[room[i]] = c
          /\ room[j] \in Fd /\ fdtab[room[j]] = c /\ c # NoClient
        <3>1. c # NoClient
            BY OwnedTypes
        <3> QED
            BY <3>1 DEF At
    <2>2. room[i] = room[j]
        BY <2>1 DEF OwnedInv, Wired
    <2> QED
        BY <2>2 DEF RoomDistinct
<1>2. CASE copies = {}
    BY <1>2, FS_EmptySet
<1>3. CASE copies # {}
    <2>1. PICK i : i \in copies
        BY <1>3
    <2>2. copies = {i}
        BY <1>1, <2>1
    <2> QED
        BY <2>2, FS_Singleton
<1> QED
    BY <1>2, <1>3

\* The loop that resends goes on for the session it was begun for.
LEMMA ResendMoves ==
    ASSUME OwnedInv, [Next]_vars, pc' = "resend"
    PROVE  \/ pc = "resend" /\ UNCHANGED <<connections, orig_conn, fdtab>>
           \/ \E fd \in Fd : RecvAuthAccepted(fd)
<1>1. ASSUME \/ Clients \/ Producers \/ Operators \/ Thread \/ Kernel \/ Tick
             \/ UNCHANGED vars
      PROVE  UNCHANGED <<pc, connections, orig_conn, fdtab>>
    BY <1>1 DEF Clients, Start, ClientStep, RecvConnAccepted, RecvData,
                RecvFin, RecvUnanswered, Recv, Kill, Producers, Stamp, MqSend,
                GiveUp, Operators, Operator, Thread, FtSetup, Kernel, KernelReset,
                Tick, vars, ipc, tcp, server, resending
<1>2. ASSUME Resend
      PROVE  UNCHANGED <<pc, connections, orig_conn, fdtab>>
    BY <1>2 DEF Resend
<1>3. ASSUME \/ Poll \/ Resent \/ NoMessage \/ MqReceive \/ CliEvent
             \/ Accept \/ AcceptFails
             \/ CollectConnections \/ CollectConnection \/ ConnectionsCollected
             \/ CollectPackets \/ CollectPacket \/ PacketsCollected
      PROVE  FALSE
    BY <1>3 DEF Poll, Resent, CliEvent, NoCommand, RefuseCommand, Commanded,
                CmdAdd, CmdDel, CmdLog, NoMessage, MqReceive, Accept, AcceptFails,
                Handling, Handled,
                CollectConnections, CollectConnection, ConnectionsCollected,
                CollectPackets, CollectPacket, PacketsCollected
<1>4. ASSUME \E fd \in Fd : \/ HangUp(fd) \/ ReadFails(fd) \/ ReadInvalid(fd)
                            \/ RecvAck(fd) \/ RecvUnknownAck(fd)
                            \/ RecvAuthRejected(fd)
      PROVE  FALSE
    BY <1>4 DEF HangUp, ReadFails, ReadInvalid, RecvAck, RecvUnknownAck,
                RecvAuthRejected, Handled
<1> QED
    BY <1>1, <1>2, <1>3, <1>4 DEF Next, Server, ServerStep, ClientEvent

\* The session whose packets are resent is the one that was recovered.
LEMMA ResendSession ==
    ASSUME OwnedInv, NEW fd \in Fd, RecvAuthAccepted(fd)
    PROVE  connections'[orig_conn'].sockfd = fd
<1>1. PICK p \in Buffered(fd) :
        LET rest == DeleteToken(connections, p.payload[2])
            iOld == FindToken(rest, p.payload[1])
        IN  /\ iOld # 0
            /\ connections' = [rest EXCEPT ![iOld].sockfd = fd]
            /\ orig_conn' = iOld
    BY DEF RecvAuthAccepted
<1> DEFINE rest == DeleteToken(connections, p.payload[2])
           iOld == FindToken(rest, p.payload[1])
<1>2. /\ iOld # 0 /\ orig_conn' = iOld
      /\ connections' = [rest EXCEPT ![iOld].sockfd = fd]
    BY <1>1
<1>3. rest \in Seq(Connection)
    BY OwnedTypes, DeleteTokenElements DEF OwnedInv
<1> HIDE DEF rest
<1>4. iOld \in DOMAIN rest /\ rest[iOld] \in Connection
    BY <1>2, <1>3, TokenFound, ElementsDef
<1> HIDE DEF iOld
<1> QED
    BY <1>2, <1>3, <1>4 DEF Connection

LEMMA ResentElsewhereStep ==
    OwnedInv /\ ResentElsewhere /\ [Next]_vars => ResentElsewhere'
<1> SUFFICES ASSUME OwnedInv, ResentElsewhere, [Next]_vars, pc' = "resend",
                    NEW fd \in Fd, NEW c \in Client,
                    fd = connections'[orig_conn'].sockfd, fdtab'[fd] = c
             PROVE  old'[c] # 0
    BY DEF ResentElsewhere
<1>1. CASE pc = "resend" /\ UNCHANGED <<connections, orig_conn, fdtab>>
    <2>1. old[c] # 0
        BY <1>1 DEF ResentElsewhere
    <2>2. c \in ToSet(owner)
        BY <1>1, HolderKnown
    <2> QED
        BY <2>1, <2>2, OldKept
<1>2. ASSUME NEW g \in Fd, RecvAuthAccepted(g)
      PROVE  old'[c] # 0
    <2>1. fd = g
        BY <1>2, ResendSession
    <2>2. PICK orig \in Entries : /\ old[fdtab[g]] # 0 /\ orig.sockfd # g
                                  /\ fdtab' = Closed(orig.sockfd)
        BY <1>2, AcceptedAuth
    <2>3. fdtab[fd] = c /\ old[c] # 0
        BY <2>1, <2>2 DEF Closed
    <2> QED
        BY <2>3, OldKept, HolderKnown
<1> QED
    BY <1>1, <1>2, ResendMoves

\* A client that recovers nothing is sent, at most once, the message that has been
\* taken from the queue.
LEMMA PlainOutbox ==
    ASSUME OwnedInv, RoomsInv, QueueInOrder, ResentElsewhere,
           NEW c \in Client, old[c] = 0, NEW fd \in Fd, fdtab[fd] = c,
           NEW out \in Seq(Packet), Outbox(fd, c, out),
           NEW i \in DOMAIN out, Carries(out[i])
    PROVE  /\ MqReceive /\ DOMAIN out = {1}
           /\ \E m \in ToSet(mq) : m = Head(mq) /\ out[i].payload = <<m.id, m.n>>
<1>1. ASSUME NEW type, out = <<Control(type, <<>>)>>
      PROVE  FALSE
    <2>1. out[i] = Control(type, <<>>)
        BY <1>1
    <2>2. out[i].payload = <<>>
        BY <2>1, ControlFields
    <2>3. Len(out[i].payload) # 2
        BY ONLY <2>2
    <2>4. Len(out[i].payload) = 2
        BY DEF Carries
    <2> QED
        BY ONLY <2>3, <2>4
<1>2. CASE Resend /\ fd = connections[orig_conn].sockfd
    BY <1>2 DEF Resend, ResentElsewhere
<1>3. ASSUME MqReceive, NEW fits \in BOOLEAN,
             out = Broadcast(susc_room[Head(mq).id], DataPacket(Head(mq), fits))[c]
      PROVE  /\ DOMAIN out = {1}
             /\ \E m \in ToSet(mq) : m = Head(mq) /\ out[i].payload = <<m.id, m.n>>
    <2>1. mq # <<>>
        BY <1>3 DEF MqReceive
    <2> DEFINE m == Head(mq)
    <2>2. m \in Message /\ m \in ToSet(mq)
        BY <2>1, TakenFirst
    <2> DEFINE p    == DataPacket(m, fits)
               room == susc_room[m.id]
               n    == Cardinality({k \in DOMAIN room : At(room[k]) = c})
    <2>3. out = [k \in 1 .. n |-> p]
        BY <1>3 DEF Broadcast
    <2>4. m.id \in Room
        BY <2>2 DEF Message
    <2>5. room \in Seq(Fd \cup {BadFd}) /\ RoomDistinct(room)
        BY <2>4, RoomTypes DEF RoomsInv, RoomsOwned
    <2>6. n \in {0, 1}
        BY <2>5, OneCopy
    <2> HIDE DEF n, p
    <2>7. n = 1 /\ DOMAIN out = {1} /\ out[i] = p
        BY <2>3, <2>6
    <2>8. p.payload = <<m.id, m.n>>
        <3>1. CASE fits
            BY <3>1 DEF p, DataPacket, gen_packet
        <3>2. CASE ~fits
            <4>1. p.payload = <<>>
                BY <3>2 DEF p, DataPacket, gen_packet
            <4> QED
                BY <2>7, <4>1 DEF Carries
        <3> QED
            BY <3>1, <3>2
    <2> QED
        BY <2>2, <2>7, <2>8
<1> QED

    BY <1>1, <1>2, <1>3 DEF Outbox
\* What a client that recovers nothing has in its socket after a step: what was
\* there, and then the message that has been taken from the queue.
LEMMA PlainDown ==
    ASSUME OwnedInv, RoomsInv, Unmet, QueueInOrder, ResentElsewhere, [Next]_vars,
           NEW c \in Client, old[c] = 0,
           NEW i \in DOMAIN down'[c], Carries(down'[c][i])
    PROVE  \/ /\ ClientStep(c) /\ i \in Nat /\ i + 1 \in DOMAIN down[c]
              /\ down'[c][i] = down[c][i + 1]
           \/ /\ ~ClientStep(c) /\ i \in DOMAIN down[c] /\ down'[c][i] = down[c][i]
           \/ /\ ~ClientStep(c) /\ MqReceive /\ i = Len(down[c]) + 1
              /\ \E m \in ToSet(mq) : m = Head(mq) /\ down'[c][i].payload = <<m.id, m.n>>
<1>0. down[c] \in Seq(Packet) /\ <<>> \in Seq(Packet) /\ DOMAIN <<>> = {}
    BY OwnedTypes
<1>1. CASE ClientStep(c)
    <2>1. down[c] # <<>> /\ down'[c] = Tail(down[c])
        BY <1>1, ClientReads
    <2> QED
        BY <1>0, <1>1, <2>1, TailIndices
<1>2. CASE ~ClientStep(c)
    <2>1. CASE down'[c] = down[c] \/ down'[c] = <<>>
        BY <1>2, <2>1
    <2>2. CASE down'[c] = Push(down[c], <<>>)
        BY <1>0, <1>2, <2>2, PushIndices
    <2>3. CASE \E fd \in Fd, out \in Seq(Packet) :
                 fdtab[fd] = c /\ Outbox(fd, c, out) /\ down'[c] = Push(down[c], out)
        <3>1. PICK fd \in Fd, out \in Seq(Packet) :
                 fdtab[fd] = c /\ Outbox(fd, c, out) /\ down'[c] = Push(down[c], out)
            BY <2>3
        <3>2. CASE i \in DOMAIN down[c] /\ down'[c][i] = down[c][i]
            BY <1>2, <3>2
        <3>3. CASE \E j \in DOMAIN out : i = Len(down[c]) + j /\ down'[c][i] = out[j]
            <4>1. PICK j \in DOMAIN out : i = Len(down[c]) + j /\ down'[c][i] = out[j]
                BY <3>3
            <4>2. Carries(out[j])
                BY <4>1
            <4>3. /\ MqReceive /\ DOMAIN out = {1}
                  /\ \E m \in ToSet(mq) : m = Head(mq) /\ out[j].payload = <<m.id, m.n>>
                BY <3>1, <4>2, PlainOutbox
            <4>4. j = 1
                BY <4>3
            <4> QED
                BY <1>2, <4>1, <4>3, <4>4
        <3> QED
            BY <1>0, <3>1, <3>2, <3>3, PushIndices
    <2>4. CASE /\ Accept /\ c = Head(backlog)
               /\ down'[c] = Push(down[c], <<Control("CONN_ACCEPTED", <<Len(owner) + 1>>)>>)
        <3> DEFINE hello == Control("CONN_ACCEPTED", <<Len(owner) + 1>>)
                   out   == <<hello>>
        <3>1. hello \in Packet /\ hello.mtype # "DATA"
            <4>1. Len(owner) + 1 \in Nat
                BY OwnedTypes
            <4> QED
                BY <4>1, ControlPackets, ControlFields
        <3>2. down'[c] = Push(down[c], out)
            BY <2>4
        <3> HIDE DEF hello
        <3>3. out \in Seq(Packet) /\ \A j \in DOMAIN out : out[j].mtype # "DATA"
            BY <3>1
        <3>4. Len(down[c]) = 0
            BY <2>4, AcceptedUnmet
        <3> HIDE DEF out
        <3>5. i \in DOMAIN out /\ down'[c][i] = out[i]
            BY <1>0, <3>2, <3>3, <3>4, PushEmpty
        <3> QED
            BY <3>3, <3>5 DEF Carries
    <2> QED
        BY <1>2, <2>1, <2>2, <2>3, <2>4, DownMoves DEF DownStep
<1> QED
    BY <1>1, <1>2

\* What is overtaken stays so.
LEMMA OvertakenStep ==
    ASSUME OwnedInv, [Next]_vars, NEW p \in Packet, Carries(p), Overtaken(p)
    PROVE  Overtaken(p)'
<1>1. p.payload[1] \in Room /\ p.payload[2] \in Nat
    <2>1. p.payload \in Seq(Nat) /\ Len(p.payload) = 2
        BY PayloadType DEF Carries
    <2>2. p.payload[2] \in Nat
        BY ONLY <2>1
    <2> QED
        BY <2>2 DEF Overtaken
<1>2. Begun(p.payload[1], p.payload[2])'
    BY <1>1, BegunStep DEF Overtaken
<1>3. ASSUME NEW m \in ToSet(mq'), m.id = p.payload[1]
      PROVE  p.payload[2] < m.n
    BY <1>1, <1>3, QueueGrows DEF Overtaken
<1> QED
    BY <1>1, <1>2, <1>3 DEF Overtaken

\* A client that has something to read and recovers nothing does not begin to.
LEMMA PlainBefore ==
    ASSUME OwnedInv, Unmet, [Next]_vars, NEW c \in Client, old'[c] = 0,
           NEW i \in DOMAIN down'[c]
    PROVE  old[c] = 0
<1>1. CASE peer[c] = "unborn" /\ down' = down
    <2>1. down[c] = <<>>
        BY <1>1 DEF OwnedInv, Wired, Unmet
    <2>2. DOMAIN <<>> = {}
        OBVIOUS
    <2> QED
        BY <1>1, <2>1, <2>2
<1> QED
    BY <1>1, ClienteMoves

LEMMA StreamStep ==
    OwnedInv /\ RoomsInv /\ Unmet /\ StreamInv /\ [Next]_vars => StreamInv'
<1> SUFFICES ASSUME OwnedInv, RoomsInv, Unmet, StreamInv, [Next]_vars
             PROVE  StreamInv'
    OBVIOUS
<1>0. /\ QueueInOrder /\ ResentElsewhere
      /\ \A c \in Client : down[c] \in Seq(Packet)
    BY OwnedTypes DEF StreamInv
<1>1. QueueInOrder' /\ ResentElsewhere'
    BY <1>0, QueueStep, ResentElsewhereStep
<1>2. ASSUME NEW c \in Client, old'[c] = 0, NEW p \in ToSet(down'[c]), Carries(p)
      PROVE  Overtaken(p)'
    <2>0. p \in Packet
        <3>1. down'[c] \in Seq(Packet)
            BY OwnedStep, OwnedTypes DEF OwnedInv, TypeInv, TypeOK, IpcTypeOK
        <3> QED
            BY <1>2, <3>1, ElementsDef
    <2>1. PICK i \in DOMAIN down'[c] : down'[c][i] = p
        BY <1>2 DEF ToSet
    <2>2. old[c] = 0
        BY <1>2, PlainBefore
    <2>3. CASE p \in ToSet(down[c])
        BY <1>2, <2>0, <2>2, <2>3, OvertakenStep DEF StreamInv
    <2>4. ASSUME MqReceive, NEW m \in ToSet(mq), m = Head(mq), p.payload = <<m.id, m.n>>
          PROVE  Overtaken(p)'
        <3>1. mq # <<>> /\ mq' = Tail(mq)
            BY <2>4 DEF MqReceive
        <3>2. m.id \in Room /\ m.n \in Nat
            BY <1>0, <2>4, <3>1, TakenFirst DEF Message
        <3>3. Begun(m.id, m.n)'
            BY <1>0, <2>4, <3>2, BegunStep DEF QueueInOrder
        <3>4. p.payload[1] = m.id /\ p.payload[2] = m.n
            BY <2>4
        <3>5. \A x \in ToSet(mq') : x.id = m.id => m.n < x.n
            BY <1>0, <2>4, <3>1, TakenFirst
        <3> QED
            BY <3>2, <3>3, <3>4, <3>5 DEF Overtaken
    <2> QED
        BY <1>0, <1>2, <2>1, <2>2, <2>3, <2>4, PlainDown, ElementsDef
<1>3. ASSUME NEW c \in Client, old'[c] = 0,
             NEW i \in DOMAIN down'[c], NEW j \in DOMAIN down'[c],
             i < j, Carries(down'[c][i]), Carries(down'[c][j]),
             down'[c][i].payload[1] = down'[c][j].payload[1]
      PROVE  down'[c][i].payload[2] < down'[c][j].payload[2]
    <2>1. old[c] = 0
        BY <1>3, PlainBefore
    <2>2. \A k \in DOMAIN down[c] : k \in 1 .. Len(down[c]) /\ down[c][k] \in ToSet(down[c])
        BY <1>0, ElementsDef
    <2>3. Len(down[c]) \in Nat
        BY <1>0
    <2>4. ASSUME NEW k \in DOMAIN down[c], NEW l \in DOMAIN down[c], k < l,
                 down[c][k] = down'[c][i], down[c][l] = down'[c][j]
          PROVE  down'[c][i].payload[2] < down'[c][j].payload[2]
        BY <1>3, <2>1, <2>4 DEF StreamInv, PlainStreamOrdered, Carries
    <2>5. ASSUME i \in DOMAIN down[c], down'[c][i] = down[c][i],
                 NEW m \in ToSet(mq), down'[c][j].payload = <<m.id, m.n>>
          PROVE  down'[c][i].payload[2] < down'[c][j].payload[2]
        <3>1. Overtaken(down[c][i])
            BY <1>3, <2>1, <2>2, <2>5 DEF StreamInv
        <3>2. down'[c][j].payload[1] = m.id /\ down'[c][j].payload[2] = m.n
            BY <2>5
        <3> QED
            BY <1>3, <2>5, <3>1, <3>2 DEF Overtaken
    <2>6. CASE ClientStep(c)
        <3>1. /\ i \in Nat /\ i + 1 \in DOMAIN down[c] /\ down'[c][i] = down[c][i + 1]
              /\ j \in Nat /\ j + 1 \in DOMAIN down[c] /\ down'[c][j] = down[c][j + 1]
            BY <1>0, <1>3, <2>1, <2>6, PlainDown
        <3> QED
            BY <1>3, <2>4, <3>1
    <2>7. CASE ~ClientStep(c)
        <3>1. /\ \/ i \in DOMAIN down[c] /\ down'[c][i] = down[c][i]
                 \/ i = Len(down[c]) + 1
              /\ \/ j \in DOMAIN down[c] /\ down'[c][j] = down[c][j]
                 \/ /\ j = Len(down[c]) + 1
                    /\ \E m \in ToSet(mq) : down'[c][j].payload = <<m.id, m.n>>
            BY <1>0, <1>3, <2>1, <2>7, PlainDown
        <3>2. i # Len(down[c]) + 1
            BY <1>3, <2>2, <2>3, <3>1
        <3> QED
            BY <1>3, <2>4, <2>5, <3>1, <3>2
    <2> QED
        BY <2>6, <2>7
<1>4. PlainStreamOrdered'
    BY <1>3 DEF PlainStreamOrdered, Carries
<1> QED
    BY <1>1, <1>2, <1>4 DEF StreamInv

LEMMA StreamInit == Init => StreamInv
<1> SUFFICES ASSUME Init
             PROVE  StreamInv
    OBVIOUS
<1>1. mq = <<>> /\ pc = "poll" /\ \A c \in Client : down[c] = <<>>
    BY DEF Init, IpcInit, ServerInit
<1>2. ToSet(<<>>) = {} /\ DOMAIN <<>> = {}
    BY DEF ToSet
<1>3. QueueInOrder
    BY <1>1, <1>2 DEF QueueInOrder
<1>4. ResentElsewhere
    BY <1>1 DEF ResentElsewhere
<1>5. PlainStreamOrdered
    BY <1>1, <1>2 DEF PlainStreamOrdered
<1> QED
    BY <1>1, <1>2, <1>3, <1>4, <1>5 DEF StreamInv

\* A client that does not reconnect has the messages of a producer in the order in
\* which they were produced, and each once: the queue keeps the order of the
\* producers, a message enters the connection when it leaves the queue, once for the
\* one descriptor the client holds in the room, and the loop that resends from the
\* buffer runs for clients with -t only.  As for the rooms, the operator must not
\* name the session of a client that is about to recover another one.
THEOREM PlainStreamsInOrder == OperatorWaits => (Spec => []PlainStreamOrdered)
<1> SUFFICES ASSUME OperatorWaits
             PROVE  Spec => []PlainStreamOrdered
    OBVIOUS
<1> DEFINE Inv == OwnedInv /\ RoomsInv /\ FirstInv /\ StreamInv
<1>1. Init => Inv
    BY OwnedInit, RoomInit, FirstInit, StreamInit
<1>2. Inv /\ [Next]_vars => Inv'
    <2>1. FirstInv => Unmet
        BY DEF FirstInv
    <2> QED
        BY <2>1, OwnedStep, RoomStep, FirstStep, StreamStep
<1>3. Inv => PlainStreamOrdered
    BY DEF StreamInv
<1> HIDE DEF Inv
<1> QED
    BY <1>1, <1>2, <1>3, PTL DEF Spec

-----------------------------------------------------------------------------
(***************************************************************************)
(* The server implements the subscriptions of PubSub: seen through         *)
(* SystemProps, which forgets descriptors, lists, events and packets, each *)
(* step is a step of PubSub or changes nothing, provided that the operator *)
(* does not subscribe the session of a client that is about to recover     *)
(* another one.                                                            *)
(***************************************************************************)

(* The view.                                                               *)

\* The client of each of a set of sessions, with the descriptor table tab.
EndpointsIn(S, tab) ==
    [t \in {conn.token : conn \in S} |->
        LET fd == (CHOOSE conn \in S : conn.token = t).sockfd
        IN  IF fd \in Fd THEN tab[fd] ELSE NoClient]

\* The producers they are subscribed to.
SubsIn(S, rooms) ==
    {s \in {conn.token : conn \in S} \X Room :
        (CHOOSE conn \in S : conn.token = s[1]).sockfd \in ToSet(rooms[s[2]])}

Endpoints == EndpointsIn(Sessions, fdtab)
Subs      == SubsIn(Sessions, susc_room)

\* Sessions that tokens tell apart.
Named(S) ==
    /\ S \subseteq Connection
    /\ \A a \in S : a.sockfd \in Fd
    /\ \A a, b \in S : a.token = b.token => a = b

\* The functions and sets that are such a view.
LEMMA EndpointsAre ==
    ASSUME NEW S, Named(S), NEW tab
    PROVE  /\ DOMAIN EndpointsIn(S, tab) = {a.token : a \in S}
           /\ \A a \in S : EndpointsIn(S, tab)[a.token] = tab[a.sockfd]
<1>1. ASSUME NEW a \in S
      PROVE  EndpointsIn(S, tab)[a.token] = tab[a.sockfd]
    <2>1. (CHOOSE conn \in S : conn.token = a.token) = a
        BY DEF Named
    <2> QED
        BY <2>1 DEF EndpointsIn, Named
<1> QED
    BY <1>1 DEF EndpointsIn

LEMMA EndpointsEqual ==
    ASSUME NEW S, Named(S), NEW tab, NEW T, NEW f, f = [t \in T |-> f[t]],
           T = {a.token : a \in S},
           \A a \in S : f[a.token] = tab[a.sockfd]
    PROVE  EndpointsIn(S, tab) = f
<1> DEFINE g == EndpointsIn(S, tab)
<1>1. g = [t \in {a.token : a \in S} |-> g[t]]
    BY DEF EndpointsIn
<1>2. \A a \in S : g[a.token] = f[a.token]
    <2> TAKE a \in S
    <2>1. g[a.token] = tab[a.sockfd]
        BY ONLY Named(S), EndpointsAre, Zenon
    <2> QED
        BY <2>1
<1>3. g = [t \in T |-> g[t]]
    BY <1>1
<1> HIDE DEF g
<1>4. \A t \in T : g[t] = f[t]
    BY <1>2
<1>5. [t \in T |-> g[t]] = [t \in T |-> f[t]]
    BY ONLY <1>4
<1> QED
    BY <1>3, <1>5 DEF g

LEMMA SubsAre ==
    ASSUME NEW S, Named(S), NEW rooms
    PROVE  /\ SubsIn(S, rooms) \subseteq {a.token : a \in S} \X Room
           /\ \A a \in S : \A r \in Room :
                <<a.token, r>> \in SubsIn(S, rooms) <=> a.sockfd \in ToSet(rooms[r])
<1>1. ASSUME NEW a \in S, NEW r \in Room
      PROVE  <<a.token, r>> \in SubsIn(S, rooms) <=> a.sockfd \in ToSet(rooms[r])
    <2>1. (CHOOSE conn \in S : conn.token = a.token) = a
        BY DEF Named
    <2>2. <<a.token, r>> \in {conn.token : conn \in S} \X Room
        OBVIOUS
    <2> QED
        BY <2>1, <2>2 DEF SubsIn
<1> QED
    BY <1>1 DEF SubsIn

LEMMA SubsEqual ==
    ASSUME NEW S, Named(S), NEW rooms, NEW Q,
           Q \subseteq {a.token : a \in S} \X Room,
           \A a \in S : \A r \in Room :
                <<a.token, r>> \in Q <=> a.sockfd \in ToSet(rooms[r])
    PROVE  SubsIn(S, rooms) = Q
<1>1. ASSUME NEW s \in {a.token : a \in S} \X Room
      PROVE  s \in SubsIn(S, rooms) <=> s \in Q
    <2>1. PICK a \in S, r \in Room : s = <<a.token, r>>
        OBVIOUS
    <2> QED
        BY <2>1, SubsAre
<1> QED
    BY <1>1, SubsAre

\* The sessions are named, before and after a step.
LEMMA SessionsNamed ==
    ASSUME OwnedInv
    PROVE  /\ Named(Sessions)
           /\ Sessions = {a \in Entries : a.sockfd # BadFd}
<1>1. Sessions = {a \in Entries : a.sockfd # BadFd}
    BY DEF Sessions, Entries
<1>2. \A a \in Entries : a \in Connection /\ a.sockfd \in Fd \cup {BadFd}
    BY RoomTypes
<1>3. \A a, b \in Entries : a.token = b.token => a = b
    BY OwnedTypes, TokenNames DEF OwnedInv, Entries
<1> DEFINE S == Sessions
<1>4. /\ S \subseteq Connection /\ \A a \in S : a.sockfd \in Fd
      /\ \A a, b \in S : a.token = b.token => a = b
    BY <1>1, <1>2, <1>3
<1> QED
    BY <1>1, <1>4 DEF Named

LEMMA SessionsNamedAfter ==
    ASSUME OwnedInv'
    PROVE  /\ Named(Sessions')
           /\ Sessions' = {a \in Entries' : a.sockfd # BadFd}
<1>1. Sessions' = {a \in Entries' : a.sockfd # BadFd}
    BY DEF Sessions, Entries
<1>2. connections' \in Seq(Connection) /\ TokensDistinct(connections')
    BY DEF OwnedInv, TypeInv, TypeOK, ServerTypeOK
<1>3. \A a \in Entries' : a \in Connection /\ a.sockfd \in Fd \cup {BadFd}
    <2>1. Entries' \subseteq Connection
        BY <1>2, ElementsDef DEF Entries
    <2> QED
        BY <2>1 DEF Connection
<1>4. \A a, b \in Entries' : a.token = b.token => a = b
    BY <1>2, TokenNames DEF Entries
<1> DEFINE S == Sessions'
<1>5. /\ S \subseteq Connection /\ \A a \in S : a.sockfd \in Fd
      /\ \A a, b \in S : a.token = b.token => a = b
    BY <1>1, <1>3, <1>4
<1> QED
    BY <1>1, <1>5 DEF Named

\* Sessions with the same tokens and descriptors.
Alike(S, S2) ==
    /\ \A a \in S : \E b \in S2 : a.token = b.token /\ a.sockfd = b.sockfd
    /\ \A b \in S2 : \E a \in S : a.token = b.token /\ a.sockfd = b.sockfd

LEMMA SameEndpoints ==
    ASSUME NEW S, Named(S), NEW S2, Named(S2), Alike(S, S2),
           NEW tab, NEW tab2, \A a \in S : tab2[a.sockfd] = tab[a.sockfd]
    PROVE  EndpointsIn(S2, tab2) = EndpointsIn(S, tab)
<1> DEFINE f == EndpointsIn(S, tab)
           T == {a.token : a \in S}
<1>1. T = {b.token : b \in S2}
    BY DEF Alike
<1>2. f = [t \in T |-> f[t]]
    BY DEF EndpointsIn
<1>3. \A b \in S2 : f[b.token] = tab2[b.sockfd]
    <2> TAKE b \in S2
    <2>1. PICK a \in S : a.token = b.token /\ a.sockfd = b.sockfd
        BY DEF Alike
    <2>2. f[a.token] = tab[a.sockfd]
        BY ONLY Named(S), EndpointsAre, Zenon
    <2> QED
        BY <2>1, <2>2
<1> HIDE DEF f, T
<1>4. EndpointsIn(S2, tab2) = f
    BY <1>1, <1>2, <1>3, EndpointsEqual
<1> QED
    BY <1>4 DEF f

LEMMA SameSubs ==
    ASSUME NEW S, Named(S), NEW S2, Named(S2), Alike(S, S2),
           NEW rooms, NEW rooms2,
           \A a \in S : \A r \in Room :
                a.sockfd \in ToSet(rooms2[r]) <=> a.sockfd \in ToSet(rooms[r])
    PROVE  SubsIn(S2, rooms2) = SubsIn(S, rooms)
<1> DEFINE Q == SubsIn(S, rooms)
           T == {a.token : a \in S}
<1>1. T = {b.token : b \in S2}
    BY DEF Alike
<1>2. Q \subseteq T \X Room
    BY SubsAre
<1>3. \A b \in S2 : \A r \in Room :
            <<b.token, r>> \in Q <=> b.sockfd \in ToSet(rooms2[r])
    BY SubsAre DEF Alike
<1> HIDE DEF Q, T
<1>4. SubsIn(S2, rooms2) = Q
    BY <1>1, <1>2, <1>3, SubsEqual
<1> QED
    BY <1>4 DEF Q

-----------------------------------------------------------------------------
(* The tokens that are issued stay within the bound of the model.          *)

TokensBounded ==
    /\ Len(owner) <= MaxTokens
    /\ Listen \in events => Len(owner) < MaxTokens

\* Events come from epoll_wait, and are handled once.
LEMMA EventMoves ==
    ASSUME OwnedInv, [Next]_vars
    PROVE  \/ Poll /\ owner' = owner
           \/ events' \subseteq events /\ owner' = owner
           \/ /\ Accept \/ AcceptFails
              /\ Listen \in events /\ events' = events \ {Listen}
<1>1. CASE Accept \/ AcceptFails
    BY <1>1 DEF Accept, AcceptFails, Handling, Handled
<1>2. ASSUME \/ Clients \/ Operators \/ Thread \/ Kernel \/ Tick
             \/ UNCHANGED vars \/ Producers
      PROVE  events' = events
    BY <1>2 DEF Clients, Operators, Operator, Thread, FtSetup, Kernel, Tick, vars,
                server, Producers
<1>3. ASSUME \/ Resent \/ Resend \/ NoMessage \/ MqReceive \/ CliEvent
             \/ CollectConnections \/ CollectConnection \/ ConnectionsCollected
             \/ CollectPackets \/ CollectPacket \/ PacketsCollected
      PROVE  events' = events
    BY <1>3 DEF Resent, Resend, CliEvent, NoCommand, RefuseCommand,
                CmdAdd, CmdDel, CmdLog, NoMessage, MqReceive,
                CollectConnections, CollectConnection, ConnectionsCollected,
                CollectPackets, CollectPacket, PacketsCollected
<1>4. ASSUME \E fd \in Fd : \/ HangUp(fd) \/ ReadFails(fd) \/ ReadInvalid(fd)
                            \/ RecvAck(fd) \/ RecvUnknownAck(fd)
                            \/ RecvAuthRejected(fd) \/ RecvAuthAccepted(fd)
      PROVE  events' \subseteq events
    BY <1>4 DEF HangUp, ReadFails, ReadInvalid, RecvAck, RecvUnknownAck,
                RecvAuthRejected, RecvAuthAccepted, Handled
<1>5. Poll => owner' = owner
    BY DEF Poll
<1> QED
    BY <1>1, <1>2, <1>3, <1>4, <1>5, OwnerMoves
       DEF Next, Server, ServerStep, ClientEvent

LEMMA BoundedStep == OwnedInv /\ TokensBounded /\ [Next]_vars => TokensBounded'
<1> SUFFICES ASSUME OwnedInv, TokensBounded, [Next]_vars
             PROVE  TokensBounded'
    OBVIOUS
<1>1. CASE Poll /\ owner' = owner
    <2>1. events' = Ready
        BY <1>1 DEF Poll
    <2>2. Listen \in Ready => Len(owner) < MaxTokens
        BY DEF Ready, Listen, Hup, In
    <2> QED
        BY <1>1, <2>1, <2>2 DEF TokensBounded
<1>2. CASE events' \subseteq events /\ owner' = owner
    BY <1>2 DEF TokensBounded
<1>3. CASE (Accept \/ AcceptFails) /\ Listen \in events /\ events' = events \ {Listen}
    <2>1. PICK x : x \in Client \cup {NoClient} /\ owner' = Append(owner, x)
        BY <1>3, AcceptFacts DEF AcceptFails
    <2>2. Len(owner') = Len(owner) + 1 /\ Len(owner) \in Nat
        BY <2>1, OwnedTypes, AppendProperties
    <2> QED
        BY <1>3, <2>2, ServerAssumption DEF TokensBounded
<1> QED
    BY <1>1, <1>2, <1>3, EventMoves

LEMMA BoundedInit == Init => TokensBounded
BY ServerAssumption DEF Init, ServerInit, TokensBounded

\* The tokens of PubSub.
LEMMA TokenBound ==
    ASSUME OwnedInv, TokensBounded, NEW a \in Entries
    PROVE  a.token \in 1 .. MaxTokens
<1>1. a.token \in 1 .. Len(owner) /\ Len(owner) \in Nat
    BY OwnedTypes DEF OwnedInv, EntriesOwned, EntryOwned
<1> QED
    BY <1>1, ServerAssumption DEF TokensBounded

-----------------------------------------------------------------------------
(* Steps of PubSub.                                                        *)

\* What PubSub sees.
PubSubStep == [Abstract!Next]_<<Endpoints, Subs>>

LEMMA Stutters ==
    ASSUME Endpoints' = Endpoints, Subs' = Subs
    PROVE  PubSubStep
BY DEF PubSubStep

LEMMA Opens ==
    ASSUME NEW t \in 1 .. MaxTokens, NEW c \in Client, t \notin DOMAIN Endpoints,
           Endpoints' = [u \in DOMAIN Endpoints \cup {t} |->
                            IF u = t THEN c ELSE Endpoints[u]],
           Subs' = Subs
    PROVE  PubSubStep
<1>1. Abstract!Open(t, c)
    BY DEF Abstract!Open, Endpoints, Subs, EndpointsIn, SubsIn, SessionWith, InRoom, At
<1> QED
    BY <1>1 DEF PubSubStep, Abstract!Next

LEMMA Subscribes ==
    ASSUME NEW t \in 1 .. MaxTokens, NEW r \in Room, t \in DOMAIN Endpoints,
           Endpoints' = Endpoints,
           \/ <<t, r>> \notin Subs /\ Subs' = Subs \cup {<<t, r>>}
           \/ <<t, r>> \in Subs /\ Subs' = Subs \ {<<t, r>>}
    PROVE  PubSubStep
<1>1. Abstract!Subscribe(t, r) \/ Abstract!Unsubscribe(t, r)
    BY DEF Abstract!Subscribe, Abstract!Unsubscribe, Endpoints, Subs, EndpointsIn,
           SubsIn, SessionWith, InRoom, At
<1> QED
    BY <1>1 DEF PubSubStep, Abstract!Next

LEMMA Resumes ==
    ASSUME NEW t \in 1 .. MaxTokens, NEW u \in 1 .. MaxTokens,
           {t, u} \subseteq DOMAIN Endpoints, t # u,
           \A s \in Subs : s[1] # u,
           Endpoints' = [[v \in DOMAIN Endpoints \ {u} |-> Endpoints[v]]
                            EXCEPT ![t] = Endpoints[u]],
           Subs' = Subs
    PROVE  PubSubStep
<1>1. Abstract!Resume(t, u)
    BY DEF Abstract!Resume, Abstract!SubsOf, Abstract!Without, Endpoints, Subs,
           EndpointsIn, SubsIn, SessionWith, InRoom, At
<1> QED
    BY <1>1 DEF PubSubStep, Abstract!Next

LEMMA Ends ==
    ASSUME NEW t \in 1 .. MaxTokens, t \in DOMAIN Endpoints,
           Endpoints' = [v \in DOMAIN Endpoints \ {t} |-> Endpoints[v]],
           \/ (\A s \in Subs : s[1] # t) /\ Subs' = Subs
           \/ (\E s \in Subs : s[1] = t) /\ Subs' = {s \in Subs : s[1] # t}
    PROVE  PubSubStep
<1>1. CASE (\A s \in Subs : s[1] # t) /\ Subs' = Subs
    <2>1. Abstract!Reject(t)
        BY <1>1 DEF Abstract!Reject, Abstract!SubsOf, Abstract!Without, Endpoints,
           Subs, EndpointsIn, SubsIn, SessionWith, InRoom, At
    <2> QED
        BY <2>1 DEF PubSubStep, Abstract!Next
<1>2. CASE (\E s \in Subs : s[1] = t) /\ Subs' = {s \in Subs : s[1] # t}
    <2>1. Abstract!Expire(t)
        BY <1>2 DEF Abstract!Expire, Abstract!SubsOf, Abstract!Without, Endpoints,
           Subs, EndpointsIn, SubsIn, SessionWith, InRoom, At
    <2> QED
        BY <2>1 DEF PubSubStep, Abstract!Next
<1> QED
    BY <1>1, <1>2

-----------------------------------------------------------------------------
(* Every step of the system.                                               *)

\* What a step does to the rooms.
LEMMA RoomMoves ==
    ASSUME OwnedInv, [Next]_vars
    PROVE  \/ susc_room' = susc_room
           \/ (CmdAdd \/ CmdDel) /\ UNCHANGED cliente
           \/ \E fd \in Fd : RecvAuthAccepted(fd)
           \/ CollectConnection
<1>1. ASSUME \/ Clients \/ Operators \/ Thread \/ Kernel \/ Tick
             \/ UNCHANGED vars \/ Producers
      PROVE  susc_room' = susc_room
    BY <1>1 DEF Clients, Operators, Operator, Thread, FtSetup, Kernel, Tick, vars,
                server, Producers
<1>2. ASSUME \/ Poll \/ Resent \/ Resend \/ Accept \/ AcceptFails
             \/ NoMessage \/ MqReceive \/ NoCommand \/ RefuseCommand \/ CmdLog
             \/ CollectConnections \/ ConnectionsCollected
             \/ CollectPackets \/ CollectPacket \/ PacketsCollected
      PROVE  susc_room' = susc_room
    BY <1>2 DEF Poll, Resent, Resend, Accept, AcceptFails, NoCommand, RefuseCommand,
                CmdLog, NoMessage, MqReceive, CollectConnections,
                ConnectionsCollected, CollectPackets, CollectPacket, PacketsCollected
<1>3. ASSUME \E fd \in Fd : \/ HangUp(fd) \/ ReadFails(fd) \/ ReadInvalid(fd)
                            \/ RecvAck(fd) \/ RecvUnknownAck(fd)
                            \/ RecvAuthRejected(fd)
      PROVE  susc_room' = susc_room
    BY <1>3 DEF HangUp, ReadFails, ReadInvalid, RecvAck, RecvUnknownAck,
                RecvAuthRejected
<1> QED
    BY <1>1, <1>2, <1>3 DEF Next, Server, ServerStep, ClientEvent, CliEvent

\* The commands that change a room.
LEMMA AddFacts ==
    ASSUME OwnedInv, CmdAdd
    PROVE  \E a \in Entries, r \in Room :
             /\ a.sockfd \notin ToSet(susc_room[r])
             /\ \A s \in Room : ToSet(susc_room'[s]) =
                    IF s = r THEN ToSet(susc_room[r]) \cup {a.sockfd}
                    ELSE ToSet(susc_room[s])
<1>1. PICK i \in DOMAIN connections, r \in Room :
        /\ FindFd(susc_room[r], connections[i].sockfd) = 0
        /\ susc_room' = [susc_room EXCEPT ![r] = Append(@, connections[i].sockfd)]
    BY DEF CmdAdd, Subscribed
<1>2. PICK a \in Entries : a = connections[i]
    BY OwnedTypes, ElementsDef DEF Entries
<1>3. a.sockfd \in Fd \cup {BadFd} /\ susc_room[r] \in Seq(Fd \cup {BadFd})
    BY RoomTypes
<1>4. a.sockfd \notin ToSet(susc_room[r])
    BY <1>1, <1>2, <1>3, FdFound
<1> DEFINE fd   == a.sockfd
           room == susc_room[r]
<1>5. ToSet(Append(room, fd)) = ToSet(room) \cup {fd}
    <2> HIDE DEF fd, room
    <2> QED
        BY <1>3, AppendElements DEF fd, room
<1>6. \A s \in Room : susc_room'[s] = IF s = r THEN Append(room, fd) ELSE susc_room[s]
    BY <1>1, <1>2, RoomTypes
<1> QED
    BY <1>4, <1>5, <1>6

LEMMA DelFacts ==
    ASSUME OwnedInv, RoomsInv, CmdDel
    PROVE  \E a \in Entries, r \in Room :
             /\ a.sockfd \in ToSet(susc_room[r])
             /\ \A s \in Room : ToSet(susc_room'[s]) =
                    IF s = r THEN ToSet(susc_room[r]) \ {a.sockfd}
                    ELSE ToSet(susc_room[s])
<1>1. PICK i \in DOMAIN connections, r \in Room :
        /\ FindFd(susc_room[r], connections[i].sockfd) # 0
        /\ susc_room' = [susc_room EXCEPT ![r] = DeleteFd(@, connections[i].sockfd)]
    BY DEF CmdDel, Subscribed
<1>2. PICK a \in Entries : a = connections[i]
    BY OwnedTypes, ElementsDef DEF Entries
<1>3. susc_room[r] \in Seq(Fd \cup {BadFd}) /\ RoomDistinct(susc_room[r])
    BY RoomTypes DEF RoomsInv, RoomsOwned
<1>4. a.sockfd \in ToSet(susc_room[r])
    BY <1>1, <1>2, <1>3, FdFound
<1>5. ToSet(DeleteFd(susc_room[r], a.sockfd)) = ToSet(susc_room[r]) \ {a.sockfd}
    BY <1>3, DeleteFdElements
<1>6. \A s \in Room : susc_room'[s] =
            IF s = r THEN DeleteFd(susc_room[r], a.sockfd) ELSE susc_room[s]
    BY <1>1, <1>2, RoomTypes
<1> QED
    BY <1>4, <1>5, <1>6

\* A step that changes no session.
LEMMA SessionsAlike ==
    ASSUME OwnedInv, OwnedInv', Unmoved
    PROVE  Alike(Sessions, Sessions') /\ Endpoints' = Endpoints
<1> DEFINE S  == Sessions
           S2 == Sessions'
<1>1. Named(S) /\ Named(S2) /\ Alike(S, S2)
    BY SessionsNamed, SessionsNamedAfter DEF Unmoved, Alike
<1>2. \A a \in S : fdtab'[a.sockfd] = fdtab[a.sockfd]
    BY DEF Unmoved
<1> HIDE DEF S, S2
<1>3. EndpointsIn(S2, fdtab') = EndpointsIn(S, fdtab)
    BY <1>1, <1>2, SameEndpoints
<1> QED
    BY <1>1, <1>3 DEF S, S2, Endpoints

LEMMA QuietStep ==
    ASSUME OwnedInv, OwnedInv', Unmoved, susc_room' = susc_room
    PROVE  PubSubStep
<1> DEFINE S  == Sessions
           S2 == Sessions'
<1>1. Named(S) /\ Named(S2) /\ Alike(S, S2)
    BY SessionsNamed, SessionsNamedAfter, SessionsAlike
<1> HIDE DEF S, S2
<1>2. SubsIn(S2, susc_room') = SubsIn(S, susc_room)
    BY <1>1, SameSubs
<1>3. Subs' = Subs
    BY <1>2 DEF S, S2, Subs
<1> QED
    BY <1>3, SessionsAlike, Stutters

\* Sessions are told apart by their descriptors as well.
LEMMA FdNames ==
    ASSUME OwnedInv, NEW a \in Sessions, NEW b \in Sessions
    PROVE  a.sockfd = b.sockfd <=> a.token = b.token
<1>1. a \in Entries /\ b \in Entries /\ a.sockfd # BadFd /\ Named(Sessions)
    BY SessionsNamed
<1>2. a.sockfd = b.sockfd => a = b
    BY <1>1 DEF OwnedInv, EntriesOwned
<1> QED
    BY <1>1, <1>2 DEF Named

\* add and delete, of a session or of what a failed accept has left in the list.
LEMMA CommandStep ==
    ASSUME OwnedInv, OwnedInv', RoomsInv, TokensBounded,
           CmdAdd \/ CmdDel, UNCHANGED cliente
    PROVE  PubSubStep
<1>1. PICK a \in Entries, r \in Room :
        \/ /\ a.sockfd \notin ToSet(susc_room[r])
           /\ \A s \in Room : ToSet(susc_room'[s]) =
                    IF s = r THEN ToSet(susc_room[r]) \cup {a.sockfd}
                    ELSE ToSet(susc_room[s])
        \/ /\ a.sockfd \in ToSet(susc_room[r])
           /\ \A s \in Room : ToSet(susc_room'[s]) =
                    IF s = r THEN ToSet(susc_room[r]) \ {a.sockfd}
                    ELSE ToSet(susc_room[s])
    <2>1. CASE CmdAdd
        BY <2>1, AddFacts
    <2>2. CASE CmdDel
        BY <2>2, DelFacts
    <2> QED
        BY <2>1, <2>2
<1>2. Unmoved
    BY EntryTouched
<1> DEFINE S  == Sessions
           S2 == Sessions'
           T  == {b.token : b \in S}
<1>3. Named(S) /\ Named(S2) /\ Alike(S, S2) /\ Endpoints' = Endpoints
    BY <1>2, SessionsNamed, SessionsNamedAfter, SessionsAlike
<1>4. CASE a.sockfd = BadFd
    <2>1. \A b \in S : b.sockfd # a.sockfd
        BY <1>4, SessionsNamed
    <2>2. \A b \in S : \A s \in Room :
                b.sockfd \in ToSet(susc_room'[s]) <=> b.sockfd \in ToSet(susc_room[s])
        BY <1>1, <2>1
    <2> HIDE DEF S, S2
    <2>3. SubsIn(S2, susc_room') = SubsIn(S, susc_room)
        BY <1>3, <2>2, SameSubs
    <2>4. Subs' = Subs
        BY <2>3 DEF S, S2, Subs
    <2> QED
        BY <1>3, <2>4, Stutters
<1>5. CASE a.sockfd # BadFd
    <2> DEFINE t    == a.token
               Q    == SubsIn(S, susc_room)
               with == Q \cup {<<t, r>>}
               less == Q \ {<<t, r>>}
    <2>1. a \in S /\ t \in 1 .. MaxTokens /\ t \in T
        BY <1>5, SessionsNamed, TokenBound
    <2>2. Q \subseteq T \X Room /\ Subs = Q
          /\ \A b \in S : \A s \in Room : <<b.token, s>> \in Q <=> b.sockfd \in ToSet(susc_room[s])
        BY <1>3, SubsAre DEF Subs
    <2>3. T = {b.token : b \in S2}
        BY <1>3 DEF Alike
    <2>4. DOMAIN Endpoints = T
        BY <1>3, EndpointsAre DEF Endpoints
    <2>5. \A b \in S : b.sockfd = a.sockfd <=> b.token = t
        BY <2>1, FdNames
    <2>6. CASE /\ a.sockfd \notin ToSet(susc_room[r])
               /\ \A s \in Room : ToSet(susc_room'[s]) =
                        IF s = r THEN ToSet(susc_room[r]) \cup {a.sockfd}
                        ELSE ToSet(susc_room[s])
        <3>1. ASSUME NEW b \in S2, NEW s \in Room
              PROVE  <<b.token, s>> \in with <=> b.sockfd \in ToSet(susc_room'[s])
            <4>1. PICK d \in S : d.token = b.token /\ d.sockfd = b.sockfd
                BY <1>3 DEF Alike
            <4>2. <<b.token, s>> \in with <=>
                    b.sockfd \in ToSet(susc_room[s]) \/ (b.sockfd = a.sockfd /\ s = r)
                BY <2>2, <2>5, <4>1
            <4> QED
                BY <2>6, <4>2
        <3>2. with \subseteq T \X Room
            BY <2>1, <2>2
        <3>3. SubsIn(S2, susc_room') = with
            <4> HIDE DEF S, S2, T, with
            <4> QED
                BY <1>3, <2>3, <3>1, <3>2, SubsEqual
        <3>4. Subs' = Subs \cup {<<t, r>>} /\ <<t, r>> \notin Subs
            BY <2>1, <2>2, <2>6, <3>3 DEF Subs
        <3> QED
            BY <1>3, <2>1, <2>4, <3>4, Subscribes
    <2>7. CASE /\ a.sockfd \in ToSet(susc_room[r])
               /\ \A s \in Room : ToSet(susc_room'[s]) =
                        IF s = r THEN ToSet(susc_room[r]) \ {a.sockfd}
                        ELSE ToSet(susc_room[s])
        <3>1. ASSUME NEW b \in S2, NEW s \in Room
              PROVE  <<b.token, s>> \in less <=> b.sockfd \in ToSet(susc_room'[s])
            <4>1. PICK d \in S : d.token = b.token /\ d.sockfd = b.sockfd
                BY <1>3 DEF Alike
            <4>2. <<b.token, s>> \in less <=>
                    b.sockfd \in ToSet(susc_room[s]) /\ ~(b.sockfd = a.sockfd /\ s = r)
                BY <2>2, <2>5, <4>1
            <4> QED
                BY <2>7, <4>2
        <3>2. less \subseteq T \X Room
            BY <2>2
        <3>3. SubsIn(S2, susc_room') = less
            <4> HIDE DEF S, S2, T, less
            <4> QED
                BY <1>3, <2>3, <3>1, <3>2, SubsEqual
        <3>4. Subs' = Subs \ {<<t, r>>} /\ <<t, r>> \in Subs
            BY <2>1, <2>2, <2>7, <3>3 DEF Subs
        <3> QED
            BY <1>3, <2>1, <2>4, <3>4, Subscribes
    <2> QED
        BY <1>1, <2>6, <2>7
<1> QED
    BY <1>4, <1>5

\* A descriptor that is free is in no room.
LEMMA FreeNowhere ==
    ASSUME OwnedInv, RoomsInv, NEW fd \in Fd, fdtab[fd] = NoClient, NEW r \in Room
    PROVE  fd \notin ToSet(susc_room[r])
<1>1. fd # BadFd
    BY IpcAssumption DEF Fd, BadFd
<1>2. \A a \in Entries : a.sockfd # fd
    BY <1>1, OwnedTypes DEF OwnedInv, EntriesOwned, EntryOwned
<1> QED
    BY <1>1, <1>2 DEF RoomsInv, RoomsOwned

\* An accept opens a session.
LEMMA AcceptStep ==
    ASSUME OwnedInv, OwnedInv', RoomsInv, TokensBounded, TokensBounded', Accept,
           UNCHANGED <<cliente, packet>>
    PROVE  PubSubStep
<1>1. PICK fd \in Fd :
        /\ fdtab[fd] = NoClient /\ Head(backlog) \in Client
        /\ fdtab' = [fdtab EXCEPT ![fd] = Head(backlog)]
        /\ owner' = Append(owner, Head(backlog))
        /\ connections' = Append(connections, NewConnection(fd))
    BY AcceptFacts
<1>2. PICK e : e = NewConnection(fd)
    OBVIOUS
<1> DEFINE t == Len(owner) + 1
           c == Head(backlog)
<1>3. /\ Entries' = Entries \cup {e} /\ e.token = t /\ e.sockfd = fd
      /\ t \notin DOMAIN owner
    BY <1>1, <1>2, IssueToken DEF cliente
<1>4. fd # BadFd /\ susc_room' = susc_room
    BY IpcAssumption DEF Fd, BadFd, Accept
<1> DEFINE S  == Sessions
           S2 == Sessions'
<1>5. Named(S) /\ Named(S2) /\ S2 = S \cup {e}
    BY <1>3, <1>4, SessionsNamed, SessionsNamedAfter
<1>6. t \in 1 .. MaxTokens
    <2>1. e \in Entries'
        BY <1>3
    <2>2. Len(owner') = Len(owner) + 1 /\ Len(owner) \in Nat
        BY <1>1, OwnedTypes, AppendProperties
    <2> QED
        BY <2>2, ServerAssumption DEF TokensBounded
<1>7. \A a \in S : a.token \in DOMAIN owner /\ a.token # t /\ a.sockfd # fd /\ a.sockfd \in Fd
    <2>1. \A a \in S : a \in Entries /\ a.sockfd # BadFd /\ a.sockfd \in Fd
        BY <1>5, SessionsNamed DEF Named
    <2>2. \A a \in Entries : a.token \in DOMAIN owner
        BY DEF OwnedInv, EntriesOwned, EntryOwned
    <2>3. \A a \in Entries : a.sockfd # BadFd => a.sockfd # fd
        BY <1>1, OwnedTypes DEF OwnedInv, EntriesOwned, EntryOwned
    <2> QED
        BY <1>3, <2>1, <2>2, <2>3
<1> DEFINE f == EndpointsIn(S, fdtab)
           T == DOMAIN f \cup {t}
           g == [u \in T |-> IF u = t THEN c ELSE f[u]]
           Q == SubsIn(S, susc_room)
<1>8. /\ DOMAIN f = {a.token : a \in S}
      /\ \A a \in S : f[a.token] = fdtab[a.sockfd]
    BY ONLY <1>5, EndpointsAre
<1>9. T = {a.token : a \in S2}
    BY <1>3, <1>5, <1>8
<1>10. t \notin DOMAIN f
    BY <1>7, <1>8
<1>11. \A a \in S2 : g[a.token] = fdtab'[a.sockfd]
    <2>1. g[t] = fdtab'[fd]
        BY <1>1, OwnedTypes
    <2>2. ASSUME NEW a \in S
          PROVE  g[a.token] = fdtab'[a.sockfd]
        <3>1. g[a.token] = f[a.token]
            BY <1>7, <1>8
        <3>2. fdtab'[a.sockfd] = fdtab[a.sockfd]
            BY <1>1, <1>7, OwnedTypes
        <3> QED
            BY <1>8, <3>1, <3>2
    <2> QED
        BY <1>3, <1>5, <2>1, <2>2
<1>12. EndpointsIn(S2, fdtab') = g
    <2>1. g = [u \in T |-> g[u]]
        OBVIOUS
    <2> HIDE DEF S, S2, T, g
    <2> QED
        BY <1>5, <1>9, <1>11, <2>1, EndpointsEqual
<1>13. SubsIn(S2, susc_room') = Q
    <2>1. /\ Q \subseteq {a.token : a \in S} \X Room
          /\ \A a \in S : \A r \in Room : <<a.token, r>> \in Q <=> a.sockfd \in ToSet(susc_room[r])
        BY ONLY <1>5, SubsAre
    <2>2. Q \subseteq {a.token : a \in S2} \X Room
        BY <1>5, <2>1
    <2>3. \A r \in Room : <<t, r>> \notin Q /\ fd \notin ToSet(susc_room[r])
        BY <1>1, <1>7, <2>1, FreeNowhere
    <2>4. \A a \in S2 : \A r \in Room : <<a.token, r>> \in Q <=> a.sockfd \in ToSet(susc_room'[r])
        BY <1>3, <1>4, <1>5, <2>1, <2>3
    <2> HIDE DEF S, S2, Q
    <2> QED
        BY <1>5, <2>2, <2>4, SubsEqual
<1>14. /\ Endpoints' = [u \in DOMAIN Endpoints \cup {t} |->
                            IF u = t THEN c ELSE Endpoints[u]]
       /\ Subs' = Subs /\ t \notin DOMAIN Endpoints
    BY <1>10, <1>12, <1>13 DEF Endpoints, Subs
<1>15. c \in Client
    BY <1>1
<1> HIDE DEF c, t
<1> QED
    BY <1>6, <1>14, <1>15, Opens

\* What a failed accept leaves in the list is no session.
LEMMA AcceptFailsStep ==
    ASSUME OwnedInv, OwnedInv', AcceptFails, UNCHANGED <<cliente, packet>>
    PROVE  PubSubStep
<1>1. /\ owner' = Append(owner, NoClient) /\ susc_room' = susc_room /\ fdtab' = fdtab
      /\ connections' = Append(connections, NewConnection(BadFd))
    BY DEF AcceptFails, ipc, tcp
<1>2. PICK e : e = NewConnection(BadFd)
    OBVIOUS
<1>3. Entries' = Entries \cup {e} /\ e.sockfd = BadFd
    BY <1>1, <1>2, IssueToken DEF cliente
<1>4. Sessions' = Sessions
    BY <1>3, SessionsNamed, SessionsNamedAfter
<1> QED
    BY <1>1, <1>4, Stutters DEF Endpoints, Subs

\* A session that ends, in the view.
LEMMA SessionEnds ==
    ASSUME OwnedInv, OwnedInv', TokensBounded,
           NEW e \in Sessions, Sessions' = Sessions \ {e},
           \A a \in Sessions \ {e} :
                /\ fdtab'[a.sockfd] = fdtab[a.sockfd]
                /\ \A r \in Room : a.sockfd \in ToSet(susc_room'[r]) <=>
                                   a.sockfd \in ToSet(susc_room[r])
    PROVE  /\ e.token \in 1 .. MaxTokens /\ e.token \in DOMAIN Endpoints
           /\ Endpoints' = [v \in DOMAIN Endpoints \ {e.token} |-> Endpoints[v]]
           /\ Subs' = {s \in Subs : s[1] # e.token}
           /\ \A r \in Room : <<e.token, r>> \in Subs <=> e.sockfd \in ToSet(susc_room[r])
           /\ Subs \subseteq (DOMAIN Endpoints) \X Room
<1> DEFINE S  == Sessions
           S2 == Sessions'
           t  == e.token
           f  == EndpointsIn(S, fdtab)
           T  == DOMAIN f \ {t}
           g  == [u \in T |-> f[u]]
           Q  == SubsIn(S, susc_room)
           P  == {s \in Q : s[1] # t}
<1>1. Named(S) /\ Named(S2) /\ S2 = S \ {e} /\ e \in S
    BY SessionsNamed, SessionsNamedAfter
<1>2. t \in 1 .. MaxTokens
    BY <1>1, SessionsNamed, TokenBound
<1>3. /\ DOMAIN f = {a.token : a \in S}
      /\ \A a \in S : f[a.token] = fdtab[a.sockfd]
    BY ONLY <1>1, EndpointsAre
<1>4. /\ Q \subseteq {a.token : a \in S} \X Room
      /\ \A a \in S : \A r \in Room : <<a.token, r>> \in Q <=> a.sockfd \in ToSet(susc_room[r])
    BY ONLY <1>1, SubsAre
<1>5. \A a \in S2 : a \in S /\ a.token # t
    BY <1>1 DEF Named
<1>6. T = {a.token : a \in S2}
    BY <1>1, <1>3, <1>5
<1>7. \A a \in S2 : g[a.token] = fdtab'[a.sockfd]
    BY <1>1, <1>3, <1>5
<1>8. EndpointsIn(S2, fdtab') = g
    <2>1. g = [u \in T |-> g[u]]
        OBVIOUS
    <2> HIDE DEF S, S2, T, g
    <2> QED
        BY <1>1, <1>6, <1>7, <2>1, EndpointsEqual
<1>9. SubsIn(S2, susc_room') = P
    <2>1. P \subseteq {a.token : a \in S2} \X Room
        BY <1>3, <1>4, <1>6
    <2>2. \A a \in S2 : \A r \in Room : <<a.token, r>> \in P <=> a.sockfd \in ToSet(susc_room'[r])
        BY <1>1, <1>4, <1>5
    <2> HIDE DEF S, S2, P
    <2> QED
        BY <1>1, <2>1, <2>2, SubsEqual
<1> QED
    BY <1>1, <1>2, <1>3, <1>4, <1>8, <1>9 DEF Endpoints, Subs

\* A rejected AUTH ends the session it gives up, which was in no room.
LEMMA RejectStep ==
    ASSUME OwnedInv, OwnedInv', RoomsInv, TokensBounded,
           NEW fd \in Fd, RecvAuthRejected(fd)
    PROVE  PubSubStep
<1>1. UNCHANGED <<fdtab, susc_room>>
    BY DEF RecvAuthRejected
<1>2. CASE Entries' = Entries
    <2>1. Sessions' = Sessions
        BY <1>2, SessionsNamed, SessionsNamedAfter
    <2> QED
        BY <1>1, <2>1, Stutters DEF Endpoints, Subs
<1>3. CASE Entries' # Entries
    <2>1. /\ fdtab[fd] \in Client /\ old[fdtab[fd]] # 0 /\ Entries' \subseteq Entries
          /\ \A a \in Entries \ Entries' : a.sockfd = fd /\ owner[a.token] = fdtab[fd]
        BY <1>3, RejectFacts
    <2>2. PICK e \in Entries : e \notin Entries'
        BY <1>3, <2>1
    <2>3. fd # BadFd
        BY IpcAssumption DEF Fd, BadFd
    <2>4. Entries' = Entries \ {e}
        BY <2>1, <2>2, <2>3 DEF OwnedInv, EntriesOwned
    <2>5. Sessions' = Sessions \ {e} /\ e \in Sessions
        BY <2>1, <2>2, <2>3, <2>4, SessionsNamed, SessionsNamedAfter
    <2>6. \A r \in Room : e.sockfd \notin ToSet(susc_room[r])
        <3>1. e.token \in DOMAIN owner
            BY DEF OwnedInv, EntriesOwned, EntryOwned
        <3>2. Transient(e.token)
            BY <2>1, <2>2, <3>1 DEF Transient
        <3> QED
            BY <3>2 DEF RoomsInv, TransientNowhere
    <2> DEFINE t == e.token
    <2>7. /\ t \in 1 .. MaxTokens /\ t \in DOMAIN Endpoints
          /\ Endpoints' = [v \in DOMAIN Endpoints \ {t} |-> Endpoints[v]]
          /\ Subs' = {s \in Subs : s[1] # t}
          /\ \A r \in Room : <<t, r>> \in Subs <=> e.sockfd \in ToSet(susc_room[r])
          /\ Subs \subseteq (DOMAIN Endpoints) \X Room
        BY <1>1, <2>5, SessionEnds
    <2>8. \A s \in Subs : s[1] # t
        <3> SUFFICES ASSUME NEW s \in Subs, s[1] = t
                     PROVE  FALSE
            OBVIOUS
        <3>1. s = <<t, s[2]>> /\ s[2] \in Room
            BY <2>7
        <3> QED
            BY <2>6, <2>7, <3>1
    <2>9. Subs' = Subs
        BY <2>7, <2>8
    <2> HIDE DEF t
    <2> QED
        BY <2>7, <2>8, <2>9, Ends
<1> QED
    BY <1>2, <1>3

\* The collector ends a session, with its subscriptions: it has some.
LEMMA CollectStep ==
    ASSUME OwnedInv, OwnedInv', RoomsInv, TokensBounded, CollectConnection
    PROVE  PubSubStep
<1>1. PICK e \in Entries :
        /\ Entries' = Entries \ {e} /\ Expired(e)
        /\ fdtab' = Closed(e.sockfd)
        /\ susc_room' = [r \in Room |-> DeleteFd(susc_room[r], e.sockfd)]
    BY CollectFacts
<1>2. \A r \in Room : ToSet(susc_room'[r]) = ToSet(susc_room[r]) \ {e.sockfd}
    <2>1. ASSUME NEW r \in Room
          PROVE  ToSet(DeleteFd(susc_room[r], e.sockfd)) = ToSet(susc_room[r]) \ {e.sockfd}
        <3>1. susc_room[r] \in Seq(Fd \cup {BadFd}) /\ RoomDistinct(susc_room[r])
            BY RoomTypes DEF RoomsInv, RoomsOwned
        <3> QED
            BY <3>1, DeleteFdElements
    <2> QED
        BY <1>1, <2>1
<1>3. \A a \in Sessions : a # e =>
            /\ fdtab'[a.sockfd] = fdtab[a.sockfd]
            /\ \A r \in Room : a.sockfd \in ToSet(susc_room'[r]) <=>
                               a.sockfd \in ToSet(susc_room[r])
    <2> SUFFICES ASSUME NEW a \in Sessions, a # e
                 PROVE  /\ fdtab'[a.sockfd] = fdtab[a.sockfd]
                        /\ \A r \in Room : a.sockfd \in ToSet(susc_room'[r]) <=>
                                           a.sockfd \in ToSet(susc_room[r])
        OBVIOUS
    <2>1. a \in Entries /\ a.sockfd # BadFd /\ a.sockfd \in Fd
        BY SessionsNamed DEF Named
    <2>2. a.sockfd # e.sockfd
        BY <2>1 DEF OwnedInv, EntriesOwned
    <2> QED
        BY <1>1, <1>2, <2>1, <2>2 DEF Closed
<1>4. CASE e.sockfd = BadFd
    <2>1. Sessions' = Sessions /\ e \notin Sessions
        BY <1>1, <1>4, SessionsNamed, SessionsNamedAfter
    <2> DEFINE S  == Sessions
               S2 == Sessions'
    <2>2. Named(S) /\ Named(S2) /\ Alike(S, S2)
        BY <2>1, SessionsNamed DEF Alike
    <2>3. \A a \in S : /\ fdtab'[a.sockfd] = fdtab[a.sockfd]
                       /\ \A r \in Room : a.sockfd \in ToSet(susc_room'[r]) <=>
                                          a.sockfd \in ToSet(susc_room[r])
        BY <1>3, <2>1
    <2> HIDE DEF S, S2
    <2>4. EndpointsIn(S2, fdtab') = EndpointsIn(S, fdtab)
        BY <2>2, <2>3, SameEndpoints
    <2>5. SubsIn(S2, susc_room') = SubsIn(S, susc_room)
        BY <2>2, <2>3, SameSubs
    <2> QED
        BY <2>4, <2>5, Stutters DEF Endpoints, Subs, S, S2
<1>5. CASE e.sockfd # BadFd
    <2>1. Sessions' = Sessions \ {e} /\ e \in Sessions
        BY <1>1, <1>5, SessionsNamed, SessionsNamedAfter
    <2> DEFINE t == e.token
    <2>2. /\ t \in 1 .. MaxTokens /\ t \in DOMAIN Endpoints
          /\ Endpoints' = [v \in DOMAIN Endpoints \ {t} |-> Endpoints[v]]
          /\ Subs' = {s \in Subs : s[1] # t}
          /\ \A r \in Room : <<t, r>> \in Subs <=> e.sockfd \in ToSet(susc_room[r])
        BY <1>3, <2>1, SessionEnds
    <2>3. \E r \in Room : e.sockfd \in ToSet(susc_room[r])
        <3>1. e.susc_counter = Cardinality(SubsOf(e.sockfd))
            BY <1>5 DEF RoomsInv, Counted
        <3>2. e.susc_counter > 0
            BY <1>1 DEF Expired
        <3>3. SubsOf(e.sockfd) # {}
            BY <3>1, <3>2, FS_EmptySet
        <3> QED
            BY <3>3 DEF SubsOf
    <2>4. \E s \in Subs : s[1] = t
        <3>1. PICK r \in Room : <<t, r>> \in Subs
            BY <2>2, <2>3
        <3>2. <<t, r>>[1] = t
            OBVIOUS
        <3> QED
            BY <3>1, <3>2
    <2> HIDE DEF t
    <2> QED
        BY <2>2, <2>4, Ends
<1> QED
    BY <1>4, <1>5

\* An accepted AUTH moves the old session, with its subscriptions, to the client
\* that asked, and ends the new one, which had none.
LEMMA ResumeStep ==
    ASSUME OwnedInv, OwnedInv', RoomsInv, TokensBounded,
           NEW fd \in Fd, RecvAuthAccepted(fd)
    PROVE  PubSubStep
<1>1. PICK e \in Entries, orig \in Entries, kept \in Connection :
        /\ fdtab[fd] \in Client
        /\ e.token \in DOMAIN owner /\ owner[e.token] = fdtab[fd]
        /\ old[fdtab[fd]] # 0
        /\ e.sockfd = fd /\ orig.sockfd \notin {fd, BadFd}
        /\ kept = [orig EXCEPT !.sockfd = fd]
        /\ fdtab' = Closed(orig.sockfd)
        /\ susc_room' = [r \in Room |-> ReplaceFd(susc_room[r], orig.sockfd, fd)]
        /\ Entries' = (Entries \ {e, orig}) \cup {kept}
    BY AcceptedAuth
<1>2. kept.sockfd = fd /\ kept.token = orig.token /\ fd # BadFd
    <2>1. orig \in Connection
        BY OwnedTypes
    <2> QED
        BY <1>1, <2>1, IpcAssumption DEF Connection, Fd, BadFd
<1> DEFINE S  == Sessions
           S2 == Sessions'
           t  == orig.token
           u  == e.token
<1>3. /\ Named(S) /\ Named(S2) /\ e \in S /\ orig \in S
      /\ S2 = (S \ {e, orig}) \cup {kept}
    BY <1>1, <1>2, SessionsNamed, SessionsNamedAfter
<1>4. t \in 1 .. MaxTokens /\ u \in 1 .. MaxTokens /\ t # u /\ orig # e
    BY <1>1, <1>3, TokenBound DEF Named
<1>5. \A a \in S : a \in {e, orig} \/ /\ a.sockfd \notin {fd, orig.sockfd}
                                      /\ a.token \notin {t, u} /\ a.sockfd \in Fd
    <2>1. \A a \in S : a.sockfd = fd <=> a.token = u
        BY <1>1, <1>3, FdNames
    <2>2. \A a \in S : a.sockfd = orig.sockfd <=> a.token = t
        BY <1>3, FdNames
    <2> QED
        BY <1>3, <2>1, <2>2 DEF Named
<1>6. \A r \in Room : fd \notin ToSet(susc_room[r])
    <2>1. Transient(e.token)
        BY <1>1 DEF Transient
    <2> QED
        BY <1>1, <2>1 DEF RoomsInv, TransientNowhere
<1>7. \A r \in Room :
        /\ fd \in ToSet(susc_room'[r]) <=> orig.sockfd \in ToSet(susc_room[r])
        /\ \A g : g \notin {fd, orig.sockfd} =>
                    (g \in ToSet(susc_room'[r]) <=> g \in ToSet(susc_room[r]))
    <2> SUFFICES ASSUME NEW r \in Room
                 PROVE  /\ fd \in ToSet(susc_room'[r]) <=> orig.sockfd \in ToSet(susc_room[r])
                        /\ \A g : g \notin {fd, orig.sockfd} =>
                            (g \in ToSet(susc_room'[r]) <=> g \in ToSet(susc_room[r]))
        OBVIOUS
    <2> DEFINE room == susc_room[r]
               from == orig.sockfd
    <2>1. room \in Seq(Fd \cup {BadFd}) /\ RoomDistinct(room) /\ fd \notin ToSet(room)
          /\ fd \in Fd \cup {BadFd}
        BY <1>6, RoomTypes DEF RoomsInv, RoomsOwned
    <2>2. susc_room'[r] = ReplaceFd(room, from, fd)
        BY <1>1
    <2> HIDE DEF room, from
    <2>3. /\ from \in ToSet(room) =>
                ToSet(ReplaceFd(room, from, fd)) = (ToSet(room) \ {from}) \cup {fd}
          /\ from \notin ToSet(room) => ToSet(ReplaceFd(room, from, fd)) = ToSet(room)
        BY ONLY <2>1, ReplaceFdElements
    <2> QED
        BY <2>1, <2>2, <2>3 DEF room, from
<1> DEFINE f == EndpointsIn(S, fdtab)
           T == DOMAIN f \ {u}
           w == [v \in T |-> f[v]]
           g == [w EXCEPT ![t] = f[u]]
           Q == SubsIn(S, susc_room)
<1>8. /\ DOMAIN f = {a.token : a \in S}
      /\ \A a \in S : f[a.token] = fdtab[a.sockfd]
    BY ONLY <1>3, EndpointsAre
<1>9. /\ Q \subseteq {a.token : a \in S} \X Room
      /\ \A a \in S : \A r \in Room : <<a.token, r>> \in Q <=> a.sockfd \in ToSet(susc_room[r])
    BY ONLY <1>3, SubsAre
<1>10. T = {a.token : a \in S2} /\ t \in T
    BY <1>2, <1>3, <1>4, <1>5, <1>8
<1>11. g = [v \in T |-> IF v = t THEN f[u] ELSE f[v]]
    BY <1>10
<1>12. \A a \in S2 : g[a.token] = fdtab'[a.sockfd]
    <2>1. g[kept.token] = fdtab'[kept.sockfd]
        <3>1. fdtab'[fd] = fdtab[fd] /\ f[u] = fdtab[fd]
            BY <1>1, <1>3, <1>8 DEF Closed
        <3> QED
            BY <1>2, <1>10, <1>11, <3>1
    <2>2. ASSUME NEW a \in S \ {e, orig}
          PROVE  g[a.token] = fdtab'[a.sockfd]
        <3>1. a.token \in T /\ a.token # t /\ f[a.token] = fdtab[a.sockfd]
            BY <1>5, <1>8, <2>2
        <3>2. fdtab'[a.sockfd] = fdtab[a.sockfd]
            BY <1>1, <1>5, <2>2 DEF Closed
        <3> QED
            BY <1>11, <3>1, <3>2
    <2> QED
        BY <1>3, <2>1, <2>2
<1>13. EndpointsIn(S2, fdtab') = g
    <2>1. g = [v \in T |-> g[v]]
        BY <1>11
    <2> HIDE DEF S, S2, T, g
    <2> QED
        BY <1>3, <1>10, <1>12, <2>1, EndpointsEqual
<1>14. \A s \in Q : s[1] # u
    <2> SUFFICES ASSUME NEW s \in Q, s[1] = u
                 PROVE  FALSE
        OBVIOUS
    <2>1. s = <<e.token, s[2]>> /\ s[2] \in Room
        BY <1>9
    <2> QED
        BY <1>1, <1>3, <1>6, <1>9, <2>1
<1>15. SubsIn(S2, susc_room') = Q
    <2>1. Q \subseteq {a.token : a \in S2} \X Room
        BY <1>8, <1>9, <1>10, <1>14
    <2>2. \A a \in S2 : \A r \in Room : <<a.token, r>> \in Q <=> a.sockfd \in ToSet(susc_room'[r])
        <3>1. \A r \in Room : <<t, r>> \in Q <=> fd \in ToSet(susc_room'[r])
            BY <1>3, <1>7, <1>9
        <3>2. \A a \in S \ {e, orig} : \A r \in Room :
                    <<a.token, r>> \in Q <=> a.sockfd \in ToSet(susc_room'[r])
            BY <1>5, <1>7, <1>9
        <3> QED
            BY <1>2, <1>3, <3>1, <3>2
    <2> HIDE DEF S, S2, Q
    <2> QED
        BY <1>3, <2>1, <2>2, SubsEqual
<1>16. /\ {t, u} \subseteq DOMAIN Endpoints
       /\ \A s \in Subs : s[1] # u
       /\ Endpoints' = [[v \in DOMAIN Endpoints \ {u} |-> Endpoints[v]]
                            EXCEPT ![t] = Endpoints[u]]
       /\ Subs' = Subs
    BY <1>3, <1>8, <1>13, <1>14, <1>15 DEF Endpoints, Subs
<1> HIDE DEF t, u
<1> QED
    BY <1>4, <1>16, Resumes

\* Every step is a step of PubSub, or PubSub does not see it.
LEMMA SystemStep ==
    ASSUME OwnedInv, OwnedInv', RoomsInv, TokensBounded, TokensBounded', [Next]_vars
    PROVE  PubSubStep
<1>1. CASE Unmoved
    <2>1. CASE susc_room' = susc_room
        BY <1>1, <2>1, QuietStep
    <2>2. CASE (CmdAdd \/ CmdDel) /\ UNCHANGED cliente
        BY <2>2, CommandStep
    <2>3. CASE \E fd \in Fd : RecvAuthAccepted(fd)
        BY <2>3, ResumeStep
    <2>4. CASE CollectConnection
        BY <2>4, CollectStep
    <2> QED
        BY <2>1, <2>2, <2>3, <2>4, RoomMoves
<1>2. CASE Accept
    BY <1>2, AcceptAlone, AcceptStep
<1>3. CASE AcceptFails /\ UNCHANGED <<cliente, productor, cmds>>
    BY <1>3, AcceptFailsStep DEF AcceptFails
<1>4. CASE \E fd \in Fd : RecvAuthRejected(fd) \/ RecvAuthAccepted(fd)
    BY <1>4, RejectStep, ResumeStep
<1>5. CASE CollectConnection
    BY <1>5, CollectStep
<1> QED
    BY <1>1, <1>2, <1>3, <1>4, <1>5, SessionMoves

LEMMA SystemStart ==
    ASSUME Init
    PROVE  Abstract!Init
<1>1. connections = <<>> /\ ToSet(<<>>) = {}
    BY DEF Init, ServerInit, ToSet
<1>2. Sessions = {}
    BY <1>1 DEF Sessions
<1>3. Endpoints = <<>>
    <2>1. Endpoints = [t \in {} |-> NoClient]
        BY <1>2 DEF Endpoints, EndpointsIn
    <2> QED
        BY <2>1
<1>4. Subs = {}
    BY <1>2 DEF Subs, SubsIn
<1> QED
    BY <1>3, <1>4
       DEF Abstract!Init, Endpoints, Subs, EndpointsIn, SubsIn, SessionWith, InRoom, At

\* Seen through SystemProps, the server does what PubSub promises: a session
\* appears with an accept; it is subscribed and unsubscribed by the commands that
\* name it; an AUTH with two tokens that are known hands it over, with all its
\* subscriptions, in one step; and it ends by a rejected AUTH when it has no
\* subscription, or by the collector when it has some, and its subscriptions with it.
\* No other event, message, crash or death of a client touches sessions and
\* subscriptions.  As for the rooms, the operator must not name the session of a
\* client that is about to recover another one.
THEOREM SubscriptionsImplemented == OperatorWaits => (Spec => Subscriptions)
<1> SUFFICES ASSUME OperatorWaits
             PROVE  Spec => Subscriptions
    OBVIOUS
<1> DEFINE Inv == OwnedInv /\ RoomsInv /\ TokensBounded
<1>1. Init => Inv
    BY OwnedInit, RoomInit, BoundedInit
<1>2. Inv /\ [Next]_vars => Inv'
    BY OwnedStep, RoomStep, BoundedStep
<1> DEFINE view == <<[t \in {conn.token : conn \in Sessions} |->
                        At(SessionWith(t).sockfd)],
                     {s \in {conn.token : conn \in Sessions} \X Room :
                        InRoom(SessionWith(s[1]).sockfd, s[2])}>>
<1>3. view = <<Endpoints, Subs>> /\ view' = <<Endpoints, Subs>>'
    BY DEF Endpoints, Subs, EndpointsIn, SubsIn, SessionWith, InRoom, At
<1>4. Inv /\ Inv' /\ [Next]_vars => [Abstract!Next]_view
    <2> SUFFICES ASSUME Inv, Inv', [Next]_vars
                 PROVE  Abstract!Next \/ view' = view
        OBVIOUS
    <2>1. PubSubStep
        BY SystemStep
    <2> HIDE DEF view
    <2> QED
        BY <1>3, <2>1 DEF PubSubStep
<1>5. Init => Abstract!Init
    BY SystemStart
<1> HIDE DEF Inv, view
<1>6. Spec => Abstract!Init /\ [][Abstract!Next]_view
    BY <1>1, <1>2, <1>4, <1>5, PTL DEF Spec
<1> QED
    BY <1>6, PTL DEF Subscriptions, Abstract!Spec, view

-----------------------------------------------------------------------------
(* What kills the server, what moves a timestamp, and whom it hears.       *)

\* Where the stack keeps nothing, a read at the end of file finds no packet.
SlotEmpty == StaleStack \/ packet = Garbage

LEMMA SlotEmptyStep == OwnedInv /\ SlotEmpty /\ [Next]_vars => SlotEmpty'
<1> SUFFICES ASSUME OwnedInv, SlotEmpty, [Next]_vars, ~StaleStack
             PROVE  packet' = Garbage
    BY DEF SlotEmpty
<1>0. ~StaleStack
    OBVIOUS
<1>1. packet = Garbage
    BY DEF SlotEmpty
<1>2. ASSUME \/ Clients \/ Operators \/ Thread \/ Kernel \/ Tick
             \/ UNCHANGED vars \/ Producers
      PROVE  packet' = packet
    BY <1>2 DEF Clients, Operators, Operator, Thread, FtSetup, Kernel, Tick, vars,
                server, Producers
<1>3. ASSUME \/ Poll \/ Resent \/ Resend \/ NoMessage \/ MqReceive \/ CliEvent
             \/ Accept \/ AcceptFails
             \/ CollectConnections \/ CollectConnection \/ ConnectionsCollected
             \/ CollectPackets \/ CollectPacket \/ PacketsCollected
      PROVE  packet' = packet
    BY <1>3 DEF Poll, Resent, Resend, CliEvent, NoCommand, RefuseCommand,
                CmdAdd, CmdDel, CmdLog, NoMessage, MqReceive, Accept, AcceptFails,
                CollectConnections, CollectConnection, ConnectionsCollected,
                CollectPackets, CollectPacket, PacketsCollected
<1>4. ASSUME NEW fd \in Fd, \/ HangUp(fd) \/ ReadFails(fd) \/ ReadInvalid(fd)
                            \/ RecvAck(fd) \/ RecvUnknownAck(fd)
                            \/ RecvAuthRejected(fd) \/ RecvAuthAccepted(fd)
      PROVE  packet' = packet \/ packet' = Garbage
    <2>1. CASE HangUp(fd) \/ ReadFails(fd)
        BY <2>1 DEF HangUp, ReadFails
    <2>2. CASE \E p \in Buffered(fd) : Read(fd, p)
        BY <1>0, <2>2 DEF Read
    <2> QED
        BY <1>4, <2>1, <2>2 DEF ReadInvalid, RecvAck, RecvUnknownAck,
                                RecvAuthRejected, RecvAuthAccepted
<1> QED
    BY <1>1, <1>2, <1>3, <1>4 DEF Next, Server, ServerStep, ClientEvent

\* An ACK that is read waits on the connection, or comes from the slot at its end.
LEMMA AckRead ==
    ASSUME OwnedInv, NEW fd \in Fd, NEW p \in Buffered(fd), p.mtype = "ACK"
    PROVE  /\ fdtab[fd] \in Client
           /\ \/ up[fdtab[fd]] # <<>> /\ p \in ToSet(up[fdtab[fd]])
              \/ up[fdtab[fd]] = <<>> /\ peer[fdtab[fd]] = "closed" /\ p = packet
<1> DEFINE c == fdtab[fd]
<1>1. c \in Client /\ At(fd) = c /\ up[c] \in Seq(Packet)
    BY OwnedTypes DEF Buffered, At
<1>2. CASE up[c] # <<>>
    <2>1. p = Head(up[c])
        BY <1>1, <1>2, OwnedTypes DEF Buffered
    <2> QED
        BY <1>1, <1>2, <2>1, HeadTailElements
<1>3. CASE up[c] = <<>>
    <2>1. peer[c] = "closed" /\ (p = packet \/ p = Garbage)
        BY <1>1, <1>3 DEF Buffered
    <2> QED
        BY <1>1, <1>3, <2>1 DEF Garbage
<1> QED
    BY <1>2, <1>3

\* Only an ACK that names no session kills the server.
LEMMA CrashMoves ==
    ASSUME OwnedInv, [Next]_vars, pc # "crashed", pc' = "crashed"
    PROVE  \E fd \in Fd : RecvUnknownAck(fd)
<1>1. ASSUME \/ Clients \/ Operators \/ Thread \/ Kernel \/ Tick
             \/ UNCHANGED vars \/ Producers
      PROVE  pc' = pc
    BY <1>1 DEF Clients, Operators, Operator, Thread, FtSetup, Kernel, Tick, vars,
                server, Producers
<1>2. ASSUME \/ Poll \/ Resent \/ Resend \/ NoMessage \/ MqReceive \/ CliEvent
             \/ Accept \/ AcceptFails
             \/ CollectConnections \/ CollectConnection \/ ConnectionsCollected
             \/ CollectPackets \/ CollectPacket \/ PacketsCollected
      PROVE  pc' # "crashed"
    BY <1>2 DEF Poll, Resent, Resend, CliEvent, NoCommand, RefuseCommand, Commanded,
                CmdAdd, CmdDel, CmdLog, NoMessage, MqReceive, Accept, AcceptFails,
                CollectConnections, CollectConnection, ConnectionsCollected,
                CollectPackets, CollectPacket, PacketsCollected, Handled
<1>3. ASSUME \E fd \in Fd : \/ HangUp(fd) \/ ReadFails(fd) \/ ReadInvalid(fd)
                            \/ RecvAck(fd)
                            \/ RecvAuthRejected(fd) \/ RecvAuthAccepted(fd)
      PROVE  pc' # "crashed"
    BY <1>3 DEF HangUp, ReadFails, ReadInvalid, RecvAck,
                RecvAuthRejected, RecvAuthAccepted, Handled
<1> QED
    BY <1>1, <1>2, <1>3 DEF Next, Server, ServerStep, ClientEvent

\* README.md:26 is broken in one way only: the server dies while it reads a client
\* that came to recover a session, or, where the stack keeps what was read before,
\* at the end of file of a client that is gone.
THEOREM CrashesExplained == Spec => CrashExplained
<1> DEFINE Dies == pc # "crashed" /\ pc' = "crashed" =>
                     \E fd \in Fd :
                        /\ fdtab[fd] # NoClient /\ In(fd) \in events
                        /\ \/ old[fdtab[fd]] # 0
                           \/ /\ StaleStack /\ packet.mtype = "ACK"
                              /\ up[fdtab[fd]] = <<>> /\ peer[fdtab[fd]] = "closed"
<1>1. OwnedInv /\ SlotEmpty /\ AckOfPlainClientSafe /\ [Next]_vars => Dies
    <2> SUFFICES ASSUME OwnedInv, SlotEmpty, AckOfPlainClientSafe, [Next]_vars,
                        pc # "crashed", pc' = "crashed"
                 PROVE  \E fd \in Fd :
                        /\ fdtab[fd] # NoClient /\ In(fd) \in events
                        /\ \/ old[fdtab[fd]] # 0
                           \/ /\ StaleStack /\ packet.mtype = "ACK"
                              /\ up[fdtab[fd]] = <<>> /\ peer[fdtab[fd]] = "closed"
        OBVIOUS
    <2>1. PICK fd \in Fd : RecvUnknownAck(fd)
        BY CrashMoves
    <2>2. PICK p \in Buffered(fd) : /\ p.mtype = "ACK" /\ In(fd) \in events
                                    /\ FindToken(connections, p.payload[1]) = 0
        BY <2>1 DEF RecvUnknownAck, Read, Handling
    <2>3. /\ fdtab[fd] \in Client /\ fdtab[fd] # NoClient
          /\ \/ up[fdtab[fd]] # <<>> /\ p \in ToSet(up[fdtab[fd]])
             \/ up[fdtab[fd]] = <<>> /\ peer[fdtab[fd]] = "closed" /\ p = packet
        BY <2>2, AckRead, OwnedTypes
    <2>4. p.payload[1] \notin LiveTokens
        BY <2>2, TokenFound, OwnedTypes, ElementsDef DEF LiveTokens
    <2>5. p \in ToSet(up[fdtab[fd]]) => old[fdtab[fd]] # 0
        BY <2>2, <2>3, <2>4 DEF AckOfPlainClientSafe
    <2>6. p = packet => StaleStack
        BY <2>2 DEF SlotEmpty, Garbage
    <2> QED
        BY <2>2, <2>3, <2>5, <2>6
<1>2. Init => OwnedInv /\ SlotEmpty
    BY OwnedInit DEF Init, ServerInit, SlotEmpty
<1>3. OwnedInv /\ SlotEmpty /\ [Next]_vars => (OwnedInv /\ SlotEmpty)'
    BY OwnedStep, SlotEmptyStep
<1>4. OwnedInv /\ SlotEmpty /\ AckOfPlainClientSafe /\ [Next]_vars => [Dies]_vars
    BY <1>1
<1>5. Spec => [][Dies]_vars
    <2> HIDE DEF Dies
    <2> QED
        BY <1>2, <1>3, <1>4, PlainAcksSafe, PTL DEF Spec
<1> QED
    BY <1>5, PTL DEF CrashExplained, Dies

\* A queue that is read is another queue.
LEMMA TailDiffers ==
    ASSUME NEW S, NEW s \in Seq(S), s # <<>>
    PROVE  Tail(s) # s
<1> DEFINE t == Tail(s)
<1>1. Len(t) = Len(s) - 1 /\ Len(s) \in Nat
    BY HeadTailProperties
<1> HIDE DEF t
<1>2. t # s
    BY <1>1
<1> QED
    BY <1>2 DEF t

\* What a step does to the list of sessions.
LEMMA ListMoves ==
    ASSUME OwnedInv, [Next]_vars
    PROVE  \/ connections' = connections
           \/ CmdAdd \/ CmdDel \/ CmdLog \/ \E fd \in Fd : RecvAck(fd)
           \/ (Accept \/ AcceptFails) /\ UNCHANGED cliente
           \/ \E fd \in Fd : RecvAuthRejected(fd) \/ RecvAuthAccepted(fd)
           \/ CollectConnection
<1>1. CASE Clients \/ Producers \/ Operators \/ Thread \/ Kernel \/ Tick \/ UNCHANGED vars
    BY <1>1 DEF Clients, Producers, Operators, Operator, Thread, FtSetup, Kernel,
                Tick, vars, server
<1>2. ASSUME \/ Poll \/ Resent \/ Resend \/ NoCommand \/ RefuseCommand
             \/ NoMessage \/ MqReceive
             \/ CollectConnections \/ ConnectionsCollected
             \/ CollectPackets \/ CollectPacket \/ PacketsCollected
      PROVE  connections' = connections
    BY <1>2 DEF Poll, Resent, Resend, NoCommand, RefuseCommand, NoMessage,
                MqReceive, CollectConnections, ConnectionsCollected,
                CollectPackets, CollectPacket, PacketsCollected
<1>3. ASSUME \E fd \in Fd : \/ HangUp(fd) \/ ReadFails(fd) \/ ReadInvalid(fd)
                            \/ RecvUnknownAck(fd)
      PROVE  connections' = connections
    BY <1>3 DEF HangUp, ReadFails, ReadInvalid, RecvUnknownAck
<1> QED
    BY <1>1, <1>2, <1>3 DEF Next, Server, ServerStep, ClientEvent, CliEvent

\* Signs of life and commands are all that touches the timestamp of a session.
LEMMA StampMoves ==
    ASSUME OwnedInv, [Next]_vars, NEW b \in Entries, NEW a \in Entries',
           a.token = b.token
    PROVE  \/ a.timestamp = b.timestamp
           \/ CmdAdd \/ CmdDel \/ CmdLog \/ \E fd \in Fd : RecvAck(fd)
<1>0. /\ connections \in Seq(Connection) /\ TokensDistinct(connections)
      /\ b \in Connection /\ b.token \in DOMAIN owner
    BY OwnedTypes DEF OwnedInv, EntriesOwned, EntryOwned
<1>1. a \in Entries => a.timestamp = b.timestamp
    BY <1>0, TokenNames DEF Entries
<1>2. CASE connections' = connections
    BY <1>1, <1>2 DEF Entries
<1>3. ASSUME NEW x \in Client \cup {NoClient}, NEW fd \in Fd \cup {BadFd},
             owner' = Append(owner, x), UNCHANGED <<cliente, packet>>,
             connections' = Append(connections, NewConnection(fd)),
             \A f \in Fd : f # fd => fdtab'[f] = fdtab[f]
      PROVE  a \in Entries
    <2>1. /\ Len(owner) + 1 \notin DOMAIN owner
          /\ Entries' = Entries \cup {NewConnection(fd)}
          /\ NewConnection(fd).token = Len(owner) + 1
        BY <1>3, IssueToken DEF cliente
    <2> QED
        BY <1>0, <2>1
<1>4. CASE Accept /\ UNCHANGED cliente
    <2>1. PICK fd \in Fd :
             /\ Head(backlog) \in Client
             /\ fdtab' = [fdtab EXCEPT ![fd] = Head(backlog)]
             /\ owner' = Append(owner, Head(backlog))
             /\ connections' = Append(connections, NewConnection(fd))
        BY <1>4, AcceptFacts
    <2>2. \A f \in Fd : f # fd => fdtab'[f] = fdtab[f]
        BY <2>1
    <2>3. UNCHANGED <<cliente, packet>>
        BY <1>4 DEF Accept
    <2> QED
        BY <1>1, <1>3, <2>1, <2>2, <2>3
<1>5. CASE AcceptFails /\ UNCHANGED cliente
    BY <1>1, <1>3, <1>5 DEF AcceptFails, ipc, tcp
<1>6. CASE \E fd \in Fd : RecvAuthRejected(fd)
    BY <1>1, <1>6, RejectFacts
<1>7. ASSUME NEW fd \in Fd, RecvAuthAccepted(fd)
      PROVE  a.timestamp = b.timestamp
    <2>1. PICK e \in Entries, orig \in Entries, kept \in Connection :
            /\ kept = [orig EXCEPT !.sockfd = fd]
            /\ Entries' = (Entries \ {e, orig}) \cup {kept}
        BY <1>7, AcceptedAuth
    <2>2. kept.token = orig.token /\ kept.timestamp = orig.timestamp
        <3>1. orig \in Connection
            BY OwnedTypes
        <3> QED
            BY <2>1, <3>1 DEF Connection
    <2>3. a = kept => orig = b
        BY <1>0, <2>2, TokenNames DEF Entries
    <2> QED
        BY <1>1, <2>1, <2>2, <2>3
<1>8. CASE CollectConnection
    BY <1>1, <1>8, CollectFacts
<1> QED
    BY <1>2, <1>4, <1>5, <1>6, <1>7, <1>8, ListMoves

\* Informe.md:22 holds where the stack keeps nothing: the timestamp of a session
\* moves only with an answer that is taken from a connection, or with a command.
THEOREM StampsNeedAcks == ~StaleStack => (Spec => StampNeedsAck)
<1> SUFFICES ASSUME ~StaleStack
             PROVE  Spec => StampNeedsAck
    OBVIOUS
<1> DEFINE Moves == \A i \in DOMAIN connections, j \in DOMAIN connections' :
                      (connections[i].token = connections'[j].token
                       /\ connections[i].timestamp # connections'[j].timestamp) =>
                          fifo' # fifo \/ up' # up
<1>1. OwnedInv /\ OwnedInv' /\ SlotEmpty /\ [Next]_vars => Moves
    <2> SUFFICES ASSUME OwnedInv, OwnedInv', SlotEmpty, [Next]_vars,
                        NEW i \in DOMAIN connections, NEW j \in DOMAIN connections',
                        connections[i].token = connections'[j].token,
                        connections[i].timestamp # connections'[j].timestamp
                 PROVE  fifo' # fifo \/ up' # up
        OBVIOUS
    <2>1. connections[i] \in Entries /\ connections'[j] \in Entries'
        <3>1. connections \in Seq(Connection) /\ connections' \in Seq(Connection)
            BY DEF OwnedInv, TypeInv, TypeOK, ServerTypeOK
        <3> QED
            BY <3>1, ElementsDef DEF Entries
    <2>2. CmdAdd \/ CmdDel \/ CmdLog \/ \E fd \in Fd : RecvAck(fd)
        BY <2>1, StampMoves
    <2>3. CASE CmdAdd \/ CmdDel \/ CmdLog
        <3>1. fifo # <<>> /\ fifo' = Tail(fifo)
            BY <2>3 DEF CmdAdd, CmdDel, CmdLog, Commanded
        <3>2. fifo \in Seq(Command)
            BY OwnedTypes DEF IpcTypeOK
        <3>3. Tail(fifo) # fifo
            BY ONLY <3>1, <3>2, TailDiffers
        <3> QED
            BY <3>1, <3>3
    <2>4. ASSUME NEW fd \in Fd, RecvAck(fd)
          PROVE  up' # up
        <3>1. PICK p \in Buffered(fd) : p.mtype = "ACK" /\ up' = AfterRead(fd)
            BY <2>4 DEF RecvAck
        <3> DEFINE c == fdtab[fd]
        <3>2. /\ c \in Client
              /\ \/ up[c] # <<>>
                 \/ p = packet
            BY <3>1, AckRead
        <3>3. up[c] # <<>>
            BY <3>1, <3>2 DEF SlotEmpty, Garbage
        <3>4. up'[c] = Tail(up[c]) /\ up[c] \in Seq(Packet)
            BY <3>1, <3>2, <3>3, OwnedTypes DEF AfterRead, At
        <3> HIDE DEF c
        <3>5. Tail(up[c]) # up[c]
            BY ONLY <3>3, <3>4, TailDiffers
        <3> QED
            BY <3>4, <3>5
    <2> QED
        BY <2>2, <2>3, <2>4
<1>2. Init => OwnedInv /\ SlotEmpty
    BY OwnedInit DEF Init, ServerInit, SlotEmpty
<1>3. OwnedInv /\ SlotEmpty /\ [Next]_vars => (OwnedInv /\ SlotEmpty)'
    BY OwnedStep, SlotEmptyStep
<1>4. OwnedInv /\ OwnedInv' /\ SlotEmpty /\ [Next]_vars => [Moves]_vars
    BY <1>1
<1>5. Spec => [][Moves]_vars
    <2> HIDE DEF Moves
    <2> QED
        BY <1>2, <1>3, <1>4, PTL DEF Spec
<1> QED
    BY <1>5, PTL DEF StampNeedsAck, Moves

-----------------------------------------------------------------------------
\* A client that has not started has no -t yet.
Newborn == \A c \in Client : peer[c] = "unborn" => old[c] = 0

LEMMA NewbornStep == OwnedInv /\ Newborn /\ [Next]_vars => Newborn'
<1> SUFFICES ASSUME OwnedInv, Newborn, [Next]_vars, NEW c \in Client,
                    peer'[c] = "unborn"
             PROVE  old'[c] = 0
    BY DEF Newborn
<1>0. /\ peer \in [Client -> {"unborn", "open", "closed"}]
      /\ old \in [Client -> Nat]
    BY OwnedTypes DEF IpcTypeOK
<1>1. ASSUME NEW d \in Client, NEW t, Start(d, t)
      PROVE  peer[c] = "unborn" /\ old'[c] = old[c]
    BY <1>0, <1>1 DEF Start
<1>2. ASSUME NEW d \in Client, ClientStep(d) \/ Kill(d)
      PROVE  peer[c] = "unborn" /\ old'[c] = old[c]
    <2>1. old' = old /\ (peer' = peer \/ peer' = [peer EXCEPT ![d] = "closed"])
        BY <1>2 DEF ClientStep, RecvConnAccepted, RecvData, RecvFin,
                    RecvUnanswered, Kill, Recv
    <2> QED
        BY <1>0, <2>1
<1>3. ASSUME ~Clients
      PROVE  peer[c] = "unborn" /\ old'[c] = old[c]
    BY <1>3, PeerKept DEF cliente
<1> QED
    BY <1>1, <1>2, <1>3 DEF Newborn, Clients

\* Once a client has come to recover a session, some client has for ever.
LEMMA PlainBack ==
    OwnedInv /\ Newborn /\ [Next]_vars /\ PlainClients' => PlainClients
BY ClienteMoves DEF PlainClients, Newborn

\* The server hears the clients: events of a hang-up are about connections that
\* were reset, and it forgets none between two calls of epoll_wait.
PolledInv ==
    /\ \A fd \in Fd : Hup(fd) \in events => fdtab[fd] \in reset
    /\ pc \notin {"events", "resend"} => events = {}
    /\ \A fd \in Fd : fdtab[fd] \in Client \ reset => fd \in epoll

\* Without a client that recovers a session, no AUTH is accepted.
LEMMA PlainReads ==
    ASSUME OwnedInv, PlainClients, NEW fd \in Fd
    PROVE  ~RecvAuthAccepted(fd)
<1> SUFFICES ASSUME RecvAuthAccepted(fd)
             PROVE  FALSE
    OBVIOUS
<1> DEFINE c == fdtab[fd]
<1>1. c \in Client /\ up[c] # <<>> /\ Head(up[c]).mtype = "AUTH" /\ up[c] \in Seq(Packet)
    BY AuthRead, OwnedTypes
<1>2. Request(Head(up[c]), c)
    BY <1>1, HeadTailElements DEF OwnedInv, Travelling
<1> QED
    BY <1>1, <1>2 DEF Request, PlainClients

LEMMA PolledStep == OwnedInv /\ PlainClients /\ PolledInv /\ [Next]_vars => PolledInv'
<1> SUFFICES ASSUME OwnedInv, PlainClients, PolledInv, [Next]_vars
             PROVE  PolledInv'
    OBVIOUS
<1>0. /\ fdtab \in [Fd -> Client \cup {NoClient}] /\ NoClient \notin Client
      /\ reset \subseteq Client
    BY OwnedTypes DEF IpcTypeOK
<1>1. ASSUME UNCHANGED <<fdtab, epoll, events, pc>>, reset \subseteq reset'
      PROVE  PolledInv'
    BY <1>1 DEF PolledInv
<1>2. CASE Clients \/ Producers \/ Operators \/ Thread \/ Kernel \/ Tick \/ UNCHANGED vars
    <2>1. UNCHANGED <<fdtab, epoll, events, pc>> /\ reset \subseteq reset'
        BY <1>2 DEF Clients, Start, ClientStep, RecvConnAccepted, RecvData,
                    RecvFin, RecvUnanswered, Recv, Kill, Producers, Stamp, MqSend,
                    GiveUp, Operators, Operator, Thread, FtSetup, Kernel,
                    KernelReset, Tick, vars, ipc, tcp, server
    <2> QED
        BY <1>1, <2>1
<1>3. CASE Poll
    <2>1. UNCHANGED <<fdtab, epoll, reset>>
        BY <1>3 DEF Poll, ipc, tcp
    <2>2. events' = Ready /\ (Ready # {} => pc' = "events")
        BY <1>3 DEF Poll
    <2>3. \A fd \in Fd : Hup(fd) \in Ready => fdtab[fd] \in reset
        BY DEF Ready, Hup, In, Listen, At
    <2> QED
        BY <2>1, <2>2, <2>3 DEF PolledInv
<1>4. CASE Accept
    <2>1. PICK fd \in Fd : /\ fdtab[fd] = NoClient
                           /\ fdtab' = [fdtab EXCEPT ![fd] = Head(backlog)]
                           /\ epoll' = epoll \cup {fd}
        <3> DEFINE fd == Min(FreeFd)
        <3>1. FreeFd \in SUBSET Nat /\ FreeFd # {}
            BY <1>4, IpcAssumption DEF Accept, FreeFd, Fd
        <3>2. fd \in FreeFd
            BY <3>1, MinNat
        <3>3. fdtab' = [fdtab EXCEPT ![fd] = Head(backlog)] /\ epoll' = epoll \cup {fd}
            BY <1>4 DEF Accept
        <3> HIDE DEF fd
        <3> QED
            BY <3>2, <3>3 DEF FreeFd
    <2>2. UNCHANGED reset /\ Handled(Listen)
        BY <1>4 DEF Accept
    <2>3. \A f \in Fd : f # fd => fdtab'[f] = fdtab[f]
        BY <1>0, <2>1
    <2>4. \A f \in Fd : Hup(f) \in events => f # fd
        BY <1>0, <2>1 DEF PolledInv
    <2> QED
        BY <2>1, <2>2, <2>3, <2>4 DEF PolledInv, Handled
<1>5. CASE AcceptFails
    BY <1>5 DEF AcceptFails, ipc, tcp, PolledInv, Handled
<1>6. ASSUME NEW fd \in Fd, HangUp(fd)
      PROVE  PolledInv'
    <2>1. UNCHANGED <<fdtab, reset>>
        BY <1>6 DEF HangUp, ipc, tcp
    <2>2. epoll' = epoll \ {fd} /\ Hup(fd) \in events /\ Handled(Hup(fd))
        BY <1>6 DEF HangUp, Handling
    <2> QED
        BY <2>1, <2>2 DEF PolledInv, Handled
<1>7. ASSUME NEW fd \in Fd, \/ ReadFails(fd) \/ ReadInvalid(fd) \/ RecvAck(fd)
                            \/ RecvAuthRejected(fd)
      PROVE  PolledInv'
    <2>1. UNCHANGED <<fdtab, reset, epoll>> /\ Handled(In(fd))
        BY <1>7 DEF ReadFails, ReadInvalid, RecvAck, RecvAuthRejected, ipc, tcp
    <2> QED
        BY <2>1 DEF PolledInv, Handled
<1>8. ASSUME NEW fd \in Fd, RecvUnknownAck(fd)
      PROVE  PolledInv'
    BY <1>8 DEF RecvUnknownAck, PolledInv
<1>9. CASE Resend \/ Resent
    <2>1. UNCHANGED <<fdtab, reset, epoll, events>>
        BY <1>9 DEF Resend, Resent, ipc, tcp
    <2>2. pc' \in {"events", "resend"} \/ events = {}
        BY <1>9 DEF Resend, Resent
    <2> QED
        BY <2>1, <2>2 DEF PolledInv
<1>10. CASE \/ NoMessage \/ MqReceive \/ CliEvent
            \/ CollectConnections \/ ConnectionsCollected
            \/ CollectPackets \/ CollectPacket \/ PacketsCollected
    <2>1. UNCHANGED <<fdtab, reset, epoll, events>> /\ pc \notin {"events", "resend"}
        BY <1>10 DEF CliEvent, NoCommand, RefuseCommand, Commanded, CmdAdd, CmdDel,
                     CmdLog, NoMessage, MqReceive, CollectConnections,
                     ConnectionsCollected, CollectPackets, CollectPacket,
                     PacketsCollected, ipc, tcp
    <2> QED
        BY <2>1 DEF PolledInv
<1>11. CASE CollectConnection
    <2>1. PICK fd : fdtab' = Closed(fd) /\ epoll' = epoll \ {fd}
        BY <1>11 DEF CollectConnection
    <2>2. UNCHANGED <<reset, events, pc>> /\ events = {}
        BY <1>11 DEF CollectConnection, PolledInv
    <2> QED
        BY <1>0, <2>1, <2>2 DEF PolledInv, Closed
<1> QED
    BY <1>2, <1>3, <1>4, <1>5, <1>6, <1>7, <1>8, <1>9, <1>10, <1>11, PlainReads
       DEF Next, Server, ServerStep, ClientEvent

\* README.md:26 again: as long as nobody recovers a session, the server hears every
\* client whose connection it holds and that was not reset.  Hang-ups, failed
\* accepts, rejected reads and the collector silence nobody; only an AUTH, which
\* closes a descriptor while events are left to handle, can.
THEOREM PlainClientsPolled == Spec => []PlainPolled
<1> DEFINE Inv == OwnedInv /\ Newborn /\ (PlainClients => PolledInv)
<1>1. Init => Inv
    BY OwnedInit, IpcAssumption
       DEF Init, IpcInit, ClienteInit, ServerInit, Newborn, PolledInv
<1>2. Inv /\ [Next]_vars => Inv'
    BY OwnedStep, NewbornStep, PlainBack, PolledStep
<1>3. Inv => PlainPolled
    BY DEF PlainPolled, PolledInv
<1> HIDE DEF Inv
<1> QED
    BY <1>1, <1>2, <1>3, PTL DEF Spec

-----------------------------------------------------------------------------
(* A turn of the loop ends.                                                *)

\* The loop that sends packets again stops behind the last one.
IterBounded == pc = "resend" => iter <= Len(buffer_packets) + 1

\* What the steps of the others leave to the server.
LEMMA OthersWait ==
    ASSUME [Next]_vars, ~Server
    PROVE  UNCHANGED <<pc, events, buffer_packets, iter, connections>>
BY DEF Next, Clients, Producers, Operators, Operator, Thread, FtSetup, Kernel,
       Tick, vars, server, resending

\* The lists and counters a turn works on.
LEMMA WorkTypes ==
    ASSUME TypeInv
    PROVE  /\ Len(buffer_packets) \in Nat /\ Len(connections) \in Nat /\ iter \in Nat
           /\ IsFiniteSet(events) /\ Cardinality(events) \in Nat
           /\ \A e \in events : Cardinality(events \ {e}) = Cardinality(events) - 1
<1>1. /\ Len(buffer_packets) \in Nat /\ Len(connections) \in Nat /\ iter \in Nat
      /\ events \subseteq Event
    BY DEF TypeInv, TypeOK, ServerTypeOK
<1>2. IsFiniteSet(Event)
    <2>1. IsFiniteSet(Fd)
        BY IpcAssumption, FS_Interval DEF Fd
    <2>2. IsFiniteSet(Fd \cup {BadFd})
        BY <2>1, FS_AddElement
    <2>3. IsFiniteSet({"listen", "in", "hup"})
        <3>1. IsFiniteSet({})
            BY FS_EmptySet
        <3>2. IsFiniteSet({"listen"})
            BY <3>1, FS_AddElement
        <3>3. IsFiniteSet({"listen"} \cup {"in"})
            BY <3>2, FS_AddElement
        <3>4. IsFiniteSet(({"listen"} \cup {"in"}) \cup {"hup"})
            BY <3>3, FS_AddElement
        <3>5. {"listen", "in", "hup"} = ({"listen"} \cup {"in"}) \cup {"hup"}
            OBVIOUS
        <3> QED
            BY <3>4, <3>5
    <2> DEFINE kinds == {"listen", "in", "hup"}
               fds   == Fd \cup {BadFd}
    <2>4. Event = kinds \X fds
        BY DEF Event
    <2> HIDE DEF kinds, fds
    <2>5. IsFiniteSet(kinds \X fds)
        BY <2>2, <2>3, FS_Product DEF kinds, fds
    <2> QED
        BY <2>4, <2>5
<1>3. IsFiniteSet(events)
    BY <1>1, <1>2, FS_Subset
<1> QED
    BY <1>1, <1>3, FS_CardinalityType, FS_RemoveElement

LEMMA IterStep == TypeInv /\ TypeInv' /\ IterBounded /\ [Next]_vars => IterBounded'
<1> SUFFICES ASSUME TypeInv, TypeInv', IterBounded, [Next]_vars, pc' = "resend"
             PROVE  iter' <= Len(buffer_packets') + 1
    BY DEF IterBounded
<1>0. Len(buffer_packets) \in Nat /\ iter \in Nat
    BY WorkTypes
<1>1. CASE ~Server
    BY <1>1, OthersWait DEF IterBounded
<1>2. CASE Resend
    BY <1>0, <1>2 DEF Resend
<1>3. ASSUME NEW fd \in Fd, RecvAuthAccepted(fd)
      PROVE  iter' = 1 /\ buffer_packets' = buffer_packets
    BY <1>3 DEF RecvAuthAccepted
<1>4. ASSUME \/ Poll \/ Resent \/ NoMessage \/ MqReceive \/ CliEvent
             \/ Accept \/ AcceptFails
             \/ CollectConnections \/ CollectConnection \/ ConnectionsCollected
             \/ CollectPackets \/ CollectPacket \/ PacketsCollected
      PROVE  pc' # "resend"
    BY <1>4 DEF Poll, Resent, CliEvent, NoCommand, RefuseCommand, Commanded,
                CmdAdd, CmdDel, CmdLog, NoMessage, MqReceive, Accept, AcceptFails,
                CollectConnections, CollectConnection, ConnectionsCollected,
                CollectPackets, CollectPacket, PacketsCollected, Handled
<1>5. ASSUME \E fd \in Fd : \/ HangUp(fd) \/ ReadFails(fd) \/ ReadInvalid(fd)
                            \/ RecvAck(fd) \/ RecvUnknownAck(fd)
                            \/ RecvAuthRejected(fd)
      PROVE  pc' # "resend"
    BY <1>5 DEF HangUp, ReadFails, ReadInvalid, RecvAck, RecvUnknownAck,
                RecvAuthRejected, Handled
<1> QED
    BY <1>0, <1>1, <1>2, <1>3, <1>4, <1>5 DEF Server, ServerStep, ClientEvent

\* Work, part by part of the loop.
LEMMA WorkIs ==
    /\ pc = "events" => Work = <<6, Cardinality(events), 0>>
    /\ pc = "resend" => Work = <<6, Cardinality(events), Len(buffer_packets) + 2 - iter>>
    /\ pc = "cli" => Work = <<5, 0, 0>>
    /\ pc = "mq" => Work = <<4, 0, 0>>
    /\ pc = "gc_conn" => Work = <<3, 0, 0>>
    /\ pc = "gc_conn_loop" => Work = <<2, Len(connections), 0>>
    /\ pc = "gc_pkt" => Work = <<1, 0, 0>>
    /\ pc = "gc_pkt_loop" => Work = <<0, Len(buffer_packets), 0>>
BY DEF Work

LEMMA WorkThen ==
    /\ pc' = "events" => Work' = <<6, Cardinality(events'), 0>>
    /\ pc' = "resend" => Work' = <<6, Cardinality(events'), Len(buffer_packets') + 2 - iter'>>
    /\ pc' = "cli" => Work' = <<5, 0, 0>>
    /\ pc' = "mq" => Work' = <<4, 0, 0>>
    /\ pc' = "gc_conn" => Work' = <<3, 0, 0>>
    /\ pc' = "gc_conn_loop" => Work' = <<2, Len(connections'), 0>>
    /\ pc' = "gc_pkt" => Work' = <<1, 0, 0>>
    /\ pc' = "gc_pkt_loop" => Work' = <<0, Len(buffer_packets'), 0>>
BY DEF Work

\* The order of the parts.
LEMMA NextPart ==
    ASSUME \/ pc = "events" /\ pc' = "cli"
           \/ pc = "resend" /\ pc' = "cli"
           \/ pc = "cli" /\ pc' = "mq"
           \/ pc = "mq" /\ pc' = "gc_conn"
           \/ pc = "gc_conn" /\ pc' \in {"gc_conn_loop", "gc_pkt"}
           \/ pc = "gc_conn_loop" /\ pc' = "gc_pkt"
           \/ pc = "gc_pkt" /\ pc' = "gc_pkt_loop"
    PROVE  Before(Work', Work)
<1>1. \A a, b, c, d, e, f : <<a, b, c>>[1] = a /\ <<d, e, f>>[1] = d
    OBVIOUS
<1>2. Work'[1] < Work[1]
    BY WorkIs, WorkThen
<1> QED
    BY <1>2 DEF Before

\* An event is handled once.
LEMMA EventDone ==
    ASSUME TypeInv, NEW e \in events, pc = "events", Handled(e)
    PROVE  Before(Work', Work)
<1>1. CASE pc' = "cli"
    BY <1>1, NextPart
<1>2. CASE pc' = "events"
    <2>1. Cardinality(events') = Cardinality(events) - 1 /\ Cardinality(events) \in Nat
        BY WorkTypes DEF Handled
    <2>2. Work = <<6, Cardinality(events), 0>> /\ Work' = <<6, Cardinality(events'), 0>>
        BY <1>2, WorkIs, WorkThen
    <2> QED
        BY <2>1, <2>2 DEF Before
<1> QED
    BY <1>1, <1>2 DEF Handled

\* Each step of the server leaves less to do, or ends the turn.
LEMMA ServerWorks ==
    ASSUME TypeInv, TypeInv', IterBounded, Server, pc \notin {"poll", "crashed"}
    PROVE  pc' \in {"poll", "crashed"} \/ Before(Work', Work)
<1>0. /\ Len(buffer_packets) \in Nat /\ Len(connections) \in Nat /\ iter \in Nat
      /\ IsFiniteSet(events) /\ Cardinality(events) \in Nat
      /\ \A e \in events : Cardinality(events \ {e}) = Cardinality(events) - 1
    BY WorkTypes
<1>1. ASSUME \/ Accept \/ AcceptFails
             \/ \E fd \in Fd : \/ HangUp(fd) \/ ReadFails(fd) \/ ReadInvalid(fd)
                               \/ RecvAck(fd) \/ RecvAuthRejected(fd)
      PROVE  Before(Work', Work)
    <2>1. \E e \in events : pc = "events" /\ Handled(e)
        BY <1>1 DEF Accept, AcceptFails, HangUp, ReadFails, ReadInvalid, RecvAck,
                    RecvAuthRejected, Read, Handling
    <2> QED
        BY <2>1, EventDone
<1>2. ASSUME NEW fd \in Fd, RecvAuthAccepted(fd)
      PROVE  Before(Work', Work)
    <2>1. /\ pc = "events" /\ In(fd) \in events /\ events' = events \ {In(fd)}
          /\ pc' = "resend"
        BY <1>2 DEF RecvAuthAccepted, Read, Handling
    <2>2. Cardinality(events') = Cardinality(events) - 1
        BY <1>0, <2>1
    <2>3. /\ Work = <<6, Cardinality(events), 0>>
          /\ Work' = <<6, Cardinality(events'), Len(buffer_packets') + 2 - iter'>>
        BY <2>1, WorkIs, WorkThen
    <2> QED
        BY <1>0, <2>2, <2>3 DEF Before
<1>3. ASSUME NEW fd \in Fd, RecvUnknownAck(fd)
      PROVE  pc' = "crashed"
    BY <1>3 DEF RecvUnknownAck
<1>4. CASE Resend
    <2>1. /\ pc = "resend" /\ pc' = "resend" /\ iter' = iter + 1
          /\ events' = events /\ buffer_packets' = buffer_packets
        BY <1>4 DEF Resend
    <2>2. /\ Work = <<6, Cardinality(events), Len(buffer_packets) + 2 - iter>>
          /\ Work' = <<6, Cardinality(events), Len(buffer_packets) + 2 - (iter + 1)>>
        BY <2>1, WorkIs, WorkThen
    <2>3. Len(buffer_packets) + 2 - (iter + 1) < Len(buffer_packets) + 2 - iter
        BY ONLY <1>0
    <2> QED
        BY <2>2, <2>3 DEF Before
<1>5. CASE Resent
    <2>1. /\ pc = "resend" /\ pc' \in {"cli", "events"} /\ events' = events
        BY <1>5 DEF Resent
    <2>2. CASE pc' = "events"
        <3>1. /\ Work = <<6, Cardinality(events), Len(buffer_packets) + 2 - iter>>
              /\ Work' = <<6, Cardinality(events), 0>>
            BY <2>1, <2>2, WorkIs, WorkThen
        <3>2. 0 < Len(buffer_packets) + 2 - iter
            BY <1>0, <2>1 DEF IterBounded
        <3> QED
            BY <3>1, <3>2 DEF Before
    <2> QED
        BY <2>1, <2>2, NextPart
<1>6. CASE CliEvent
    <2>1. pc = "cli" /\ pc' = "mq"
        BY <1>6 DEF CliEvent, NoCommand, RefuseCommand, Commanded, CmdAdd, CmdDel, CmdLog
    <2> QED
        BY <2>1, NextPart
<1>7. CASE NoMessage \/ MqReceive
    <2>1. pc = "mq" /\ pc' = "gc_conn"
        BY <1>7 DEF NoMessage, MqReceive
    <2> QED
        BY <2>1, NextPart
<1>8. CASE \/ CollectConnections \/ ConnectionsCollected
           \/ CollectPackets \/ PacketsCollected
    <2>1. \/ pc = "gc_conn" /\ pc' \in {"gc_conn_loop", "gc_pkt"}
          \/ pc = "gc_conn_loop" /\ pc' = "gc_pkt"
          \/ pc = "gc_pkt" /\ pc' = "gc_pkt_loop"
          \/ pc' = "poll"
        BY <1>8 DEF CollectConnections, ConnectionsCollected, CollectPackets,
                    PacketsCollected
    <2> QED
        BY <2>1, NextPart
<1>9. CASE CollectConnection
    <2>1. PICK i \in DOMAIN connections : connections' = RemoveAt(connections, i)
        BY <1>9 DEF CollectConnection
    <2>2. pc = "gc_conn_loop" /\ pc' = "gc_conn_loop"
        BY <1>9 DEF CollectConnection
    <2>3. connections \in Seq(Connection)
        BY DEF TypeInv, TypeOK, ServerTypeOK
    <2>4. Len(connections') = Len(connections) - 1
        BY <2>1, <2>3, RemoveAtProperties
    <2>5. /\ Work = <<2, Len(connections), 0>>
          /\ Work' = <<2, Len(connections'), 0>>
        BY <2>2, WorkIs, WorkThen
    <2> QED
        BY <1>0, <2>4, <2>5 DEF Before
<1>10. CASE CollectPacket
    <2>1. PICK i \in DOMAIN buffer_packets : buffer_packets' = RemoveAt(buffer_packets, i)
        BY <1>10 DEF CollectPacket
    <2>2. pc = "gc_pkt_loop" /\ pc' = "gc_pkt_loop"
        BY <1>10 DEF CollectPacket
    <2>3. buffer_packets \in Seq(Packet)
        BY DEF TypeInv, TypeOK, ServerTypeOK
    <2>4. Len(buffer_packets') = Len(buffer_packets) - 1
        BY <2>1, <2>3, RemoveAtProperties
    <2>5. /\ Work = <<0, Len(buffer_packets), 0>>
          /\ Work' = <<0, Len(buffer_packets'), 0>>
        BY <2>2, WorkIs, WorkThen
    <2> QED
        BY <1>0, <2>4, <2>5 DEF Before
<1>11. ~Poll
    BY DEF Poll
<1> QED
    BY <1>1, <1>2, <1>3, <1>4, <1>5, <1>6, <1>7, <1>8, <1>9, <1>10, <1>11
       DEF Server, ServerStep, ClientEvent

\* A turn of the loop ends, whatever the other processes do meanwhile: the loops over
\* the events, the packets to send again, the sessions and the buffer cannot go on
\* for ever, nor can the steps between them.
THEOREM TurnsEnd == Spec => TurnEnds
<1> DEFINE Less == pc \notin {"poll", "crashed"} =>
                     /\ Work \in Nat \X Nat \X Nat
                     /\ Server => pc' \in {"poll", "crashed"} \/ Before(Work', Work)
                     /\ ~Server => pc' = pc /\ Work' = Work
<1>1. TypeInv /\ TypeInv' /\ IterBounded /\ [Next]_vars => Less
    <2> SUFFICES ASSUME TypeInv, TypeInv', IterBounded, [Next]_vars,
                        pc \notin {"poll", "crashed"}
                 PROVE  /\ Work \in Nat \X Nat \X Nat
                        /\ Server => pc' \in {"poll", "crashed"} \/ Before(Work', Work)
                        /\ ~Server => pc' = pc /\ Work' = Work
        OBVIOUS
    <2>1. Work \in Nat \X Nat \X Nat
        <3>1. pc \in {"events", "resend", "cli", "mq", "gc_conn", "gc_conn_loop",
                      "gc_pkt", "gc_pkt_loop"}
            BY DEF TypeInv, TypeOK, ServerTypeOK
        <3>2. pc = "resend" => Len(buffer_packets) + 2 - iter \in Nat
            BY WorkTypes DEF IterBounded
        <3> QED
            BY <3>1, <3>2, WorkTypes, WorkIs
    <2>2. ~Server => pc' = pc /\ Work' = Work
        BY OthersWait DEF Work
    <2> QED
        BY <2>1, <2>2, ServerWorks
<1>2. Init => TypeInv /\ IterBounded
    BY TypeInit DEF Init, ServerInit, IterBounded
<1>3. TypeInv /\ IterBounded /\ [Next]_vars => (TypeInv /\ IterBounded)'
    BY TypeStep, IterStep
<1>4. TypeInv /\ TypeInv' /\ IterBounded /\ [Next]_vars => [Less]_vars
    BY <1>1
<1>5. Spec => [][Less]_vars
    <2> HIDE DEF Less
    <2> QED
        BY <1>2, <1>3, <1>4, PTL DEF Spec
<1> QED
    BY <1>5, PTL DEF TurnEnds, Less
=============================================================================
