---------------------------- MODULE FramingProofs ----------------------------
(***************************************************************************)
(* What short reads and writes do to a connection, for packets and socket  *)
(* buffers of any size: a packet that was cut is never handled, nothing is *)
(* handled twice while the connection is open, and as long as no count was *)
(* short both ends stay in frame.                                          *)
(***************************************************************************)
EXTENDS Framing, FiniteSetTheorems, SequenceTheorems, TLAPS

Byte   == (0 .. MaxSends) \X (1 .. Size)
Buffer == [1 .. Size -> Byte]

-----------------------------------------------------------------------------
(* Sequences and numbers.                                                  *)

\* The smaller of two numbers.
LEMMA MinOfTwo ==
    ASSUME NEW a \in Int, NEW b \in Int
    PROVE  Min({a, b}) \in {a, b} /\ Min({a, b}) <= a /\ Min({a, b}) <= b
<1> DEFINE S == {a, b}
<1>1. \E x \in S : \A y \in S : x <= y
    OBVIOUS
<1>2. Min(S) \in S /\ \A y \in S : Min(S) <= y
    BY <1>1 DEF Min
<1> QED
    BY <1>2

\* A sequence is what was taken from it and what was left.
LEMMA TakeAndLeave ==
    ASSUME NEW S, NEW s \in Seq(S), NEW k \in 0 .. Len(s)
    PROVE  /\ SubSeq(s, 1, k) \in Seq(S) /\ Len(SubSeq(s, 1, k)) = k
           /\ \A i \in 1 .. k : SubSeq(s, 1, k)[i] = s[i]
           /\ SubSeq(s, k + 1, Len(s)) \in Seq(S)
           /\ Len(SubSeq(s, k + 1, Len(s))) = Len(s) - k
           /\ \A i \in 1 .. Len(s) - k : SubSeq(s, k + 1, Len(s))[i] = s[k + i]
<1>1. Len(s) \in Nat /\ k \in Int /\ 1 \in Int /\ k + 1 \in Int /\ Len(s) \in Int
      /\ \A i \in 1 .. Len(s) : s[i] \in S
    OBVIOUS
<1>2. (\A i \in 1 .. k : s[i] \in S) /\ (\A i \in k + 1 .. Len(s) : s[i] \in S)
    BY <1>1
<1>3. /\ SubSeq(s, 1, k) \in Seq(S)
      /\ Len(SubSeq(s, 1, k)) = IF 1 <= k THEN k - 1 + 1 ELSE 0
      /\ \A i \in 1 .. k - 1 + 1 : SubSeq(s, 1, k)[i] = s[1 + i - 1]
    BY ONLY <1>1, <1>2, SubSeqProperties
<1>4. /\ SubSeq(s, k + 1, Len(s)) \in Seq(S)
      /\ Len(SubSeq(s, k + 1, Len(s))) =
            IF k + 1 <= Len(s) THEN Len(s) - (k + 1) + 1 ELSE 0
      /\ \A i \in 1 .. Len(s) - (k + 1) + 1 :
            SubSeq(s, k + 1, Len(s))[i] = s[k + 1 + i - 1]
    BY ONLY <1>1, <1>2, SubSeqProperties
<1>5. Len(SubSeq(s, 1, k)) = k /\ \A i \in 1 .. k : SubSeq(s, 1, k)[i] = s[i]
    BY <1>1, <1>3
<1>6. Len(SubSeq(s, k + 1, Len(s))) = Len(s) - k
    BY <1>1, <1>4
<1>7. \A i \in 1 .. Len(s) - k : SubSeq(s, k + 1, Len(s))[i] = s[k + i]
    BY <1>1, <1>4
<1> QED
    BY <1>3, <1>4, <1>5, <1>6, <1>7

\* One sequence after another.
LEMMA Joined ==
    ASSUME NEW S, NEW a \in Seq(S), NEW b \in Seq(S)
    PROVE  /\ a \o b \in Seq(S) /\ Len(a) \in Nat /\ Len(b) \in Nat
           /\ Len(a \o b) = Len(a) + Len(b) /\ DOMAIN (a \o b) = 1 .. Len(a) + Len(b)
           /\ \A i \in 1 .. Len(a) : (a \o b)[i] = a[i]
           /\ \A i \in 1 .. Len(b) : (a \o b)[Len(a) + i] = b[i]
<1>1. /\ a \o b \in Seq(S) /\ Len(a \o b) = Len(a) + Len(b)
      /\ \A i \in 1 .. Len(a) + Len(b) :
            (a \o b)[i] = IF i <= Len(a) THEN a[i] ELSE b[i - Len(a)]
    BY ConcatProperties
<1>2. Len(a) \in Nat /\ Len(b) \in Nat
    OBVIOUS
<1>3. \A i \in 1 .. Len(b) : (a \o b)[Len(a) + i] = b[i]
    <2> TAKE i \in 1 .. Len(b)
    <2>1. Len(a) + i \in 1 .. Len(a) + Len(b) /\ ~(Len(a) + i <= Len(a))
          /\ (Len(a) + i) - Len(a) = i
        BY <1>2
    <2> QED
        BY <1>1, <2>1
<1> QED
    BY <1>1, <1>2, <1>3

\* Sizes of whole packets.
LEMMA Multiples ==
    ASSUME NEW q \in Nat
    PROVE  /\ q * Size \in Nat /\ 0 * Size = 0
           /\ (q * Size) % Size = 0 /\ (q * Size) \div Size = q
           /\ (q + 1) * Size = q * Size + Size
           /\ q * Size >= 1 => q >= 1 /\ q - 1 \in Nat /\ (q - 1) * Size = q * Size - Size
<1>1. Size \in Nat \ {0}
    BY FramingAssumption
<1>2. (q * Size) % Size = 0
    BY <1>1
<1>3. (q * Size) \div Size = q
    BY <1>1
<1>4. q * Size \in Nat /\ 0 * Size = 0 /\ (q + 1) * Size = q * Size + Size
    BY <1>1
<1>5. ASSUME q * Size >= 1
      PROVE  q >= 1 /\ q - 1 \in Nat /\ (q - 1) * Size = q * Size - Size
    <2>1. q # 0
        BY <1>4, <1>5
    <2> QED
        BY <1>1, <2>1
<1> QED
    BY <1>2, <1>3, <1>4, <1>5

\* More packets are as many bytes or more.
LEMMA MultiplesGrow ==
    ASSUME NEW q \in Nat, NEW r \in Nat, q < r
    PROVE  q * Size + Size <= r * Size
<1>1. Size \in Nat
    BY FramingAssumption
<1>2. ASSUME NEW a \in Nat, NEW b \in Nat, a <= b
      PROVE  a * Size <= b * Size
    BY <1>1, <1>2
<1>3. (q + 1) * Size <= r * Size
    BY <1>2
<1> QED
    BY <1>3, Multiples

-----------------------------------------------------------------------------
(* Packets.                                                                *)

\* The bytes of a packet.
LEMMA BytesType ==
    ASSUME NEW n \in 0 .. MaxSends
    PROVE  /\ Bytes(n) \in Buffer /\ Bytes(n) \in Seq(Byte) /\ Len(Bytes(n)) = Size
           /\ \A i \in 1 .. Size : Bytes(n)[i] = <<n, i>>
<1>1. Size \in Nat
    BY FramingAssumption
<1> QED
    BY <1>1 DEF Bytes, Buffer, Byte

\* The parts of a byte are numbers.
LEMMA ByteNumbers ==
    ASSUME NEW b \in Byte
    PROVE  b[1] \in Nat /\ b[2] \in Nat /\ b[2] >= 1 /\ b[2] <= Size /\ b = <<b[1], b[2]>>
BY FramingAssumption DEF Byte

\* What the buffer holds after a read of some bytes.
LEMMA StoredType ==
    ASSUME NEW buf \in Buffer, NEW s \in Seq(Byte), NEW k \in 0 .. Len(s), k <= Size
    PROVE  /\ Stored(buf, SubSeq(s, 1, k)) \in Buffer
           /\ \A i \in 1 .. Size :
                Stored(buf, SubSeq(s, 1, k))[i] = IF i <= k THEN s[i] ELSE buf[i]
<1>1. Size \in Nat /\ Len(s) \in Nat /\ \A i \in 1 .. Len(s) : s[i] \in Byte
    BY FramingAssumption
<1>2. Len(SubSeq(s, 1, k)) = k /\ \A i \in 1 .. k : SubSeq(s, 1, k)[i] = s[i]
    BY TakeAndLeave
<1>3. \A i \in 1 .. Size :
        Stored(buf, SubSeq(s, 1, k))[i] = IF i <= k THEN s[i] ELSE buf[i]
    BY <1>1, <1>2 DEF Stored
<1>4. \A i \in 1 .. Size : (IF i <= k THEN s[i] ELSE buf[i]) \in Byte
    BY <1>1 DEF Buffer
<1>5. Stored(buf, SubSeq(s, 1, k)) =
        [i \in 1 .. Size |-> Stored(buf, SubSeq(s, 1, k))[i]]
    BY DEF Stored
<1> QED
    BY <1>3, <1>4, <1>5 DEF Buffer

\* A packet that passes the check is one packet, from its first byte to its last.
LEMMA IntactBytes ==
    ASSUME NEW buf \in Buffer, Intact(buf)
    PROVE  /\ buf[1][1] \in 1 .. MaxSends
           /\ \A i \in 1 .. Size : buf[i] = <<buf[1][1], i>>
<1>1. 1 \in 1 .. Size
    BY FramingAssumption
<1>2. buf[1][1] \in 0 .. MaxSends /\ buf[1][1] # 0
    BY <1>1 DEF Intact, Buffer, Byte
<1>3. \A i \in 1 .. Size : Bytes(buf[1][1])[i] = <<buf[1][1], i>>
    BY DEF Bytes
<1> QED
    BY <1>2, <1>3 DEF Intact

-----------------------------------------------------------------------------
(* The steps.                                                              *)

\* What is known of every state: the types, the numbers that were given to
\* packets, and the room in the socket.
Numbers ==
    /\ Len(sent) <= MaxSends /\ Len(down) <= SndBuf
    /\ \A i \in DOMAIN down : down[i][1] <= Len(sent)
    /\ \A i \in 1 .. Size : rcv_packet[i][1] <= Len(sent)
    /\ \A i \in DOMAIN up : up[i][1] <= acks
    /\ \A i \in DOMAIN handled : handled[i] <= Len(sent)
    /\ cut \subseteq 1 .. Len(sent)

\* t is what is left of s after k bytes, or the beginning of that.
Part(t, s, k) ==
    /\ t \in Seq(Byte) /\ k \in 0 .. Len(s) /\ Len(t) <= Len(s) - k
    /\ \A i \in 1 .. Len(t) : t[i] = s[k + i]

\* The client takes k bytes, none at the end of the connection, and handles buf.
ClientTakes(k, buf) ==
    /\ k \in 0 .. Len(down) /\ k <= Size /\ (conn = "open" => k >= 1)
    /\ buf \in Buffer /\ rcv_packet' = buf
    /\ \A i \in 1 .. Size : buf[i] = IF i <= k THEN down[i] ELSE rcv_packet[i]
    /\ short' = (short \/ k \notin {0, Size})
    /\ Handle(buf, SubSeq(down, k + 1, Len(down)))
    /\ UNCHANGED <<sent, packet, heard, cut>>

LEMMA ClientSteps ==
    ASSUME TypeOK, ClientStep
    PROVE  \E k \in Nat : \E buf \in Buffer : ClientTakes(k, buf)
<1>1. Len(down) \in Nat /\ down \in Seq(Byte) /\ rcv_packet \in Buffer /\ short \in BOOLEAN
      /\ Size \in Nat \ {0}
    <2>1. Size \in Nat \ {0}
        BY FramingAssumption
    <2>2. down \in Seq(Byte)
        BY DEF TypeOK, Byte
    <2>3. Len(down) \in Nat
        BY <2>2
    <2>4. rcv_packet \in Buffer /\ short \in BOOLEAN
        BY DEF TypeOK, Byte, Buffer
    <2> QED
        BY <2>1, <2>2, <2>3, <2>4
<1>2. CASE Recv
    <2>1. PICK k \in 1 .. Min({Size, Len(down)}) :
            LET buf == Stored(rcv_packet, SubSeq(down, 1, k))
            IN  /\ rcv_packet' = buf
                /\ short' = (short \/ k # Size)
                /\ Handle(buf, SubSeq(down, k + 1, Len(down)))
        BY <1>2 DEF Recv
    <2>2. k \in 1 .. Len(down) /\ k \in 0 .. Len(down) /\ k <= Size /\ k \in Nat /\ k >= 1
        <3>1. Min({Size, Len(down)}) \in Int /\ Min({Size, Len(down)}) <= Size
              /\ Min({Size, Len(down)}) <= Len(down)
            <4>1. Size \in Int /\ Len(down) \in Int
                BY <1>1
            <4>2. Min({Size, Len(down)}) \in {Size, Len(down)}
                  /\ Min({Size, Len(down)}) <= Size /\ Min({Size, Len(down)}) <= Len(down)
                BY ONLY <4>1, MinOfTwo
            <4> QED
                BY <4>1, <4>2
        <3>2. k \in 1 .. Min({Size, Len(down)})
            BY <2>1
        <3>3. k \in Int /\ k >= 1 /\ k <= Min({Size, Len(down)})
            BY <3>1, <3>2
        <3> QED
            BY <1>1, <3>1, <3>3
    <2> DEFINE buf == Stored(rcv_packet, SubSeq(down, 1, k))
    <2>3. buf \in Buffer
          /\ \A i \in 1 .. Size : buf[i] = IF i <= k THEN down[i] ELSE rcv_packet[i]
        BY <1>1, <2>2, StoredType
    <2>4. rcv_packet' = buf /\ short' = (short \/ k # Size)
          /\ Handle(buf, SubSeq(down, k + 1, Len(down)))
        BY <2>1
    <2> HIDE DEF buf
    <2>5. UNCHANGED <<sent, packet, heard, cut>>
        BY <1>2 DEF Recv
    <2>6. ClientTakes(k, buf)
        BY <2>2, <2>3, <2>4, <2>5 DEF ClientTakes
    <2> QED
        BY <2>2, <2>3, <2>6
<1>3. CASE RecvNothing
    <2>1. down = <<>> /\ conn # "open" /\ Handle(rcv_packet, <<>>)
          /\ UNCHANGED <<sent, rcv_packet, packet, heard, cut, short>>
        BY <1>3 DEF RecvNothing
    <2>2. Len(down) = 0 /\ SubSeq(down, 0 + 1, Len(down)) = <<>>
        BY <2>1, SubSeqEmpty
    <2>3. 0 \in 0 .. Len(down) /\ 0 <= Size /\ 0 \in Nat
          /\ \A i \in 1 .. Size : ~(i <= 0)
        BY <1>1
    <2>4. short' = (short \/ 0 \notin {0, Size})
        BY <1>1, <2>1
    <2>5. Handle(rcv_packet, SubSeq(down, 0 + 1, Len(down)))
        BY <2>1, <2>2
    <2>6. ClientTakes(0, rcv_packet)
        BY <1>1, <2>1, <2>3, <2>4, <2>5 DEF ClientTakes
    <2> QED
        BY <1>1, <2>3, <2>6
<1> QED
    BY <1>2, <1>3 DEF ClientStep

\* What becomes of the packet in the buffer.
LEMMA HandleForms ==
    ASSUME TypeOK, Numbers, NEW k \in Nat, NEW buf \in Buffer, ClientTakes(k, buf)
    PROVE  /\ Part(down', down, k) /\ (conn = "open" => Len(down') = Len(down) - k)
           /\ \A i \in 1 .. Size : buf[i][1] <= Len(sent)
           /\ \/ handled' = handled
              \/ /\ Intact(buf) /\ buf[1][1] \in 1 .. Len(sent)
                 /\ handled' = Append(handled, buf[1][1])
           /\ \/ UNCHANGED <<up, acks>>
              \/ /\ conn = "open" /\ acks < MaxSends
                 /\ acks' = acks + 1 /\ up' = up \o Bytes(acks + 1)
           /\ conn' \in {"open", "closed", "reset"} /\ (conn' = "open" <=> conn = "open")
           /\ client' \in {"running", "ended", "killed"} /\ threads' \in Nat
           /\ conn = "open" =>
                \/ /\ acks' = acks
                   /\ \/ handled' = handled
                      \/ /\ handled' = Append(handled, buf[1][1])
                         /\ sent[buf[1][1]] # "DATA"
                \/ /\ acks' = acks + 1 /\ handled' = Append(handled, buf[1][1])
                   /\ sent[buf[1][1]] = "DATA"
<1> DEFINE rest == SubSeq(down, k + 1, Len(down))
<1>1. /\ Handle(buf, rest)
      /\ k \in 0 .. Len(down) /\ k \in Nat /\ Len(down) \in Nat /\ down \in Seq(Byte)
      /\ threads \in Nat /\ conn \in {"open", "closed", "reset"}
      /\ client \in {"running", "ended", "killed"}
    BY DEF ClientTakes, TypeOK, Byte
<1>2. rest \in Seq(Byte) /\ Len(rest) = Len(down) - k
      /\ \A i \in 1 .. Len(down) - k : rest[i] = down[k + i]
    BY <1>1, TakeAndLeave
<1> HIDE DEF rest
<1>3. \A i \in 1 .. Size : buf[i][1] <= Len(sent)
    <2> TAKE i \in 1 .. Size
    <2>1. buf[i] = IF i <= k THEN down[i] ELSE rcv_packet[i]
        BY DEF ClientTakes
    <2>2. i <= k => i \in DOMAIN down
        BY <1>1
    <2> QED
        BY <2>1, <2>2 DEF Numbers
<1>4. Intact(buf) => buf[1][1] \in 1 .. Len(sent)
    <2>1. 1 \in 1 .. Size /\ Len(sent) \in Nat
        BY FramingAssumption DEF TypeOK
    <2> QED
        BY <1>3, <2>1, IntactBytes
<1>5. ASSUME NEW t, t \in Seq(Byte), Len(t) \in Nat, Len(t) <= Len(rest),
             \A i \in 1 .. Len(t) : t[i] = rest[i]
      PROVE  Part(t, down, k)
    <2>1. \A i \in 1 .. Len(t) : i \in 1 .. Len(down) - k
        BY <1>1, <1>2, <1>5
    <2> QED
        BY <1>1, <1>2, <1>5, <2>1 DEF Part
<1>6. Part(rest, down, k)
    BY <1>1, <1>2, <1>5
<1>7. ASSUME Reset(rest)
      PROVE  Part(down', down, k) /\ conn' = "reset"
    <2>1. PICK j \in 0 .. Len(rest) : down' = SubSeq(rest, 1, j)
        BY <1>7 DEF Reset
    <2>2. j \in Nat /\ j <= Len(rest)
        BY <1>1, <1>2, <2>1
    <2>3. down' \in Seq(Byte) /\ Len(down') = j /\ \A i \in 1 .. j : down'[i] = rest[i]
        BY <1>2, <2>1, TakeAndLeave
    <2>4. Part(down', down, k)
        BY <1>5, <2>2, <2>3
    <2> QED
        BY <1>7, <2>4 DEF Reset
<1>8. CASE /\ ~Intact(buf) /\ down' = rest
            /\ UNCHANGED <<handled, threads, acks, conn, client, up>>
    BY <1>1, <1>2, <1>3, <1>6, <1>8
<1>9. CASE Intact(buf) /\ sent[buf[1][1]] = "FT_SETUP"
    <2>1. threads' = threads + 1 /\ handled' = Append(handled, buf[1][1]) /\ down' = rest
          /\ UNCHANGED <<acks, conn, client, up>>
        BY <1>1, <1>9 DEF Handle
    <2> QED
        BY <1>1, <1>2, <1>3, <1>4, <1>6, <1>9, <2>1
<1>10. CASE Intact(buf) /\ sent[buf[1][1]] = "FIN"
    BY <1>1, <1>2, <1>3, <1>4, <1>6, <1>10 DEF Handle, Leave
<1>11. CASE Intact(buf) /\ sent[buf[1][1]] = "DATA"
    <2>1. SendAck(rest) /\ handled' = Append(handled, buf[1][1]) /\ threads' = threads
        BY <1>1, <1>11 DEF Handle
    <2>2. CASE conn = "open"
        BY <1>1, <1>2, <1>3, <1>4, <1>6, <1>11, <2>1, <2>2 DEF SendAck
    <2>3. CASE conn = "closed"
        BY <1>1, <1>3, <1>4, <1>7, <1>11, <2>1, <2>3 DEF SendAck
    <2>4. CASE conn = "reset"
        BY <1>1, <1>3, <1>4, <1>6, <1>11, <2>1, <2>4 DEF SendAck
    <2> QED
        BY <1>1, <2>2, <2>3, <2>4
<1> QED
    BY <1>1, <1>8, <1>10, <1>11, <1>9 DEF Handle

\* The server reads k bytes, which its buffer then begins with.
ServerTakes(k, buf) ==
    /\ conn = "open"
    /\ k \in 1 .. Len(up) /\ k <= Size
    /\ buf \in Buffer /\ packet' = buf
    /\ \A i \in 1 .. Size : buf[i] = IF i <= k THEN up[i] ELSE packet[i]
    /\ up' = SubSeq(up, k + 1, Len(up))
    /\ heard' = IF Intact(buf) THEN Append(heard, buf[1][1]) ELSE heard
    /\ short' = (short \/ k # Size)
    /\ UNCHANGED <<sent, down, conn, client, rcv_packet, threads, acks, handled, cut>>

LEMMA ReadAckSteps ==
    ASSUME TypeOK, ReadAck
    PROVE  \E k \in Nat : \E buf \in Buffer : ServerTakes(k, buf)
<1>1. up \in Seq(Byte) /\ packet \in Buffer
    BY DEF TypeOK, Byte, Buffer
<1>2. Size \in Nat /\ Len(up) \in Nat
    BY <1>1, FramingAssumption
<1>3. PICK k \in 1 .. Min({Size, Len(up)}) :
        LET buf == Stored(packet, SubSeq(up, 1, k))
        IN  /\ packet' = buf
            /\ up' = SubSeq(up, k + 1, Len(up))
            /\ heard' = IF Intact(buf) THEN Append(heard, buf[1][1]) ELSE heard
            /\ short' = (short \/ k # Size)
    BY DEF ReadAck
<1>4. k \in 1 .. Len(up) /\ k \in 0 .. Len(up) /\ k <= Size /\ k \in Nat
    <2>1. Size \in Int /\ Len(up) \in Int
        BY <1>2
    <2>2. Min({Size, Len(up)}) \in {Size, Len(up)}
          /\ Min({Size, Len(up)}) <= Size /\ Min({Size, Len(up)}) <= Len(up)
        BY ONLY <2>1, MinOfTwo
    <2>3. k \in Int /\ k >= 1 /\ k <= Min({Size, Len(up)})
        BY <1>3, <2>1, <2>2
    <2> QED
        BY <2>1, <2>2, <2>3
<1> DEFINE buf == Stored(packet, SubSeq(up, 1, k))
<1>5. buf \in Buffer
      /\ \A i \in 1 .. Size : buf[i] = IF i <= k THEN up[i] ELSE packet[i]
    BY <1>1, <1>4, StoredType
<1>6. /\ packet' = buf
      /\ up' = SubSeq(up, k + 1, Len(up))
      /\ heard' = IF Intact(buf) THEN Append(heard, buf[1][1]) ELSE heard
      /\ short' = (short \/ k # Size)
    BY <1>3
<1> HIDE DEF buf
<1>7. conn = "open"
      /\ UNCHANGED <<sent, down, conn, client, rcv_packet, threads, acks, handled, cut>>
    BY DEF ReadAck
<1>8. ServerTakes(k, buf)
    BY <1>4, <1>5, <1>6, <1>7 DEF ServerTakes
<1> QED
    BY <1>4, <1>5, <1>8

\* The server sends f bytes of packet number n.
ServerSends(kind, n, f) ==
    /\ conn = "open"
    /\ n = Len(sent) + 1 /\ n \in 1 .. MaxSends /\ f \in 0 .. Size
    /\ sent' = Append(sent, kind)
    /\ down' \in Seq(Byte) /\ Len(down') = Len(down) + f /\ Len(down') <= SndBuf
    /\ \A i \in 1 .. Len(down) : down'[i] = down[i]
    /\ \A i \in 1 .. f : down'[Len(down) + i] = <<n, i>>
    /\ cut' = IF f = Size THEN cut ELSE cut \cup {n}
    /\ short' = (short \/ f \notin {0, Size})
    /\ UNCHANGED <<up, conn, client, rcv_packet, threads, acks, packet, handled, heard>>

LEMMA SendSteps ==
    ASSUME TypeOK, Numbers, NEW kind \in Kind, Send(kind)
    PROVE  \E n, f \in Nat : ServerSends(kind, n, f)
<1> DEFINE n == Len(sent) + 1
           f == Fitting(n)
<1>1. down \in Seq(Byte) /\ sent \in Seq(Kind)
    BY DEF TypeOK, Byte
<1>2. Size \in Nat /\ Len(down) \in Nat /\ SndBuf \in Nat /\ MaxSends \in Nat /\ Len(sent) \in Nat
    BY <1>1, FramingAssumption
<1>3. n \in 1 .. MaxSends /\ n \in 0 .. MaxSends /\ n \in Nat
    BY <1>2 DEF Send
<1>4. f \in 0 .. Size /\ Len(down) + f <= SndBuf /\ f \in Nat
    <2>1. Size \in Int /\ SndBuf - Len(down) \in Int /\ SndBuf - Len(down) >= 0
        BY <1>2 DEF Numbers
    <2>2. f \in {Size, SndBuf - Len(down)} /\ f <= Size /\ f <= SndBuf - Len(down)
        BY <2>1, MinOfTwo DEF Fitting
    <2> QED
        BY <1>2, <2>1, <2>2
<1>5. /\ conn = "open" /\ sent' = Append(sent, kind)
      /\ down' = down \o SubSeq(Bytes(n), 1, f)
      /\ cut' = IF f = Size THEN cut ELSE cut \cup {n}
      /\ short' = (short \/ f \notin {0, Size})
      /\ UNCHANGED <<up, conn, client, rcv_packet, threads, acks, packet, handled, heard>>
    BY DEF Send
<1> HIDE DEF n, f
<1>6. Bytes(n) \in Seq(Byte) /\ Len(Bytes(n)) = Size
      /\ \A i \in 1 .. Size : Bytes(n)[i] = <<n, i>>
    BY <1>3, BytesType
<1> DEFINE b == SubSeq(Bytes(n), 1, f)
<1>7. b \in Seq(Byte) /\ Len(b) = f /\ \A i \in 1 .. f : b[i] = Bytes(n)[i]
    BY <1>4, <1>6, TakeAndLeave
<1>8. \A i \in 1 .. f : b[i] = <<n, i>>
    BY <1>2, <1>4, <1>6, <1>7
<1> HIDE DEF b
<1>9. /\ down \o b \in Seq(Byte) /\ Len(down \o b) = Len(down) + Len(b)
      /\ \A i \in 1 .. Len(down) : (down \o b)[i] = down[i]
      /\ \A i \in 1 .. Len(b) : (down \o b)[Len(down) + i] = b[i]
    BY <1>1, <1>7, Joined
<1>10. down' = down \o b
    BY <1>5 DEF b
<1>11. ServerSends(kind, n, f)
    BY <1>3, <1>4, <1>5, <1>7, <1>8, <1>9, <1>10 DEF ServerSends, n
<1> QED
    BY <1>3, <1>4, <1>11

\* The server closes its end.
LEMMA CloseForms ==
    ASSUME TypeOK, Close
    PROVE  /\ conn' \in {"closed", "reset"} /\ Part(down', down, 0)
           /\ up' = <<>>
           /\ UNCHANGED <<sent, client, rcv_packet, threads, acks, packet, handled, heard,
                          cut, short>>
<1>1. down \in Seq(Byte)
    BY DEF TypeOK, Byte
<1>2. Len(down) \in Nat /\ 0 \in 0 .. Len(down)
    BY <1>1
<1>3. CASE up = <<>> /\ conn' = "closed" /\ UNCHANGED <<up, down>>
    BY <1>1, <1>2, <1>3 DEF Close, Part
<1>4. CASE up # <<>> /\ up' = <<>> /\ Reset(down)
    <2>1. PICK j \in 0 .. Len(down) : down' = SubSeq(down, 1, j)
        BY <1>4 DEF Reset
    <2>2. down' \in Seq(Byte) /\ Len(down') = j /\ \A i \in 1 .. j : down'[i] = down[i]
        BY <1>1, <2>1, TakeAndLeave
    <2>3. Part(down', down, 0)
        BY <1>1, <1>2, <2>1, <2>2 DEF Part
    <2> QED
        BY <1>4, <2>3 DEF Close, Reset
<1> QED
    BY <1>3, <1>4 DEF Close

\* The elements of a part.
LEMMA PartElements ==
    ASSUME NEW s \in Seq(Byte), NEW t, NEW k, Part(t, s, k)
    PROVE  /\ t \in Seq(Byte) /\ Len(t) \in Nat /\ Len(t) <= Len(s) /\ k \in Nat
           /\ DOMAIN t = 1 .. Len(t) /\ DOMAIN s = 1 .. Len(s)
           /\ \A i \in DOMAIN t : k + i \in DOMAIN s /\ t[i] = s[k + i]
<1>1. t \in Seq(Byte) /\ k \in 0 .. Len(s) /\ Len(t) <= Len(s) - k
      /\ \A i \in 1 .. Len(t) : t[i] = s[k + i]
    BY DEF Part
<1>2. Len(s) \in Nat /\ Len(t) \in Nat /\ DOMAIN t = 1 .. Len(t) /\ DOMAIN s = 1 .. Len(s)
      /\ k \in Nat
    BY <1>1
<1>3. \A i \in 1 .. Len(t) : k + i \in 1 .. Len(s)
    BY <1>1, <1>2
<1> QED
    BY <1>1, <1>2, <1>3

-----------------------------------------------------------------------------
(* The types, and the numbers of packets.                                  *)

LEMMA TypesInit == Init => TypeOK /\ Numbers
<1> SUFFICES ASSUME Init PROVE TypeOK /\ Numbers
    OBVIOUS
<1>1. Size \in Nat \ {0} /\ MaxSends \in Nat /\ SndBuf \in Nat
    BY FramingAssumption
<1>2. 0 \in 0 .. MaxSends
    BY <1>1
<1>3. Bytes(0) \in Buffer /\ \A i \in 1 .. Size : Bytes(0)[i] = <<0, i>>
    BY <1>2, BytesType
<1>4. sent = <<>> /\ down = <<>> /\ up = <<>> /\ handled = <<>> /\ heard = <<>>
    BY DEF Init
<1>5. /\ sent \in Seq(Kind) /\ down \in Seq(Byte) /\ up \in Seq(Byte)
      /\ handled \in Seq(1 .. MaxSends) /\ heard \in Seq(1 .. MaxSends)
    BY ONLY <1>4, EmptySeq, Zenon
<1>6. Len(sent) = 0 /\ Len(down) = 0 /\ DOMAIN down = {} /\ DOMAIN up = {} /\ DOMAIN handled = {}
    BY <1>4
<1>7. conn = "open" /\ client = "running" /\ rcv_packet = Bytes(0) /\ packet = Bytes(0)
      /\ threads = 0 /\ acks = 0 /\ cut = {} /\ short = FALSE
    BY DEF Init
<1>8. TypeOK
    BY <1>1, <1>2, <1>3, <1>5, <1>7 DEF TypeOK, Byte, Buffer
<1>9. Numbers
    BY <1>1, <1>3, <1>6, <1>7 DEF Numbers
<1> QED
    BY <1>8, <1>9

LEMMA TypesSend ==
    ASSUME TypeOK, Numbers, NEW kind \in Kind, NEW n \in Nat, NEW f \in Nat,
           ServerSends(kind, n, f)
    PROVE  TypeOK' /\ Numbers'
<1>1. /\ n = Len(sent) + 1 /\ n \in 1 .. MaxSends /\ f \in 0 .. Size
      /\ sent' = Append(sent, kind)
      /\ down' \in Seq(Byte) /\ Len(down') = Len(down) + f /\ Len(down') <= SndBuf
      /\ \A i \in 1 .. Len(down) : down'[i] = down[i]
      /\ \A i \in 1 .. f : down'[Len(down) + i] = <<n, i>>
      /\ cut' = IF f = Size THEN cut ELSE cut \cup {n}
      /\ short' = (short \/ f \notin {0, Size})
      /\ UNCHANGED <<up, conn, client, rcv_packet, threads, acks, packet, handled, heard>>
    BY DEF ServerSends
<1>2. sent \in Seq(Kind) /\ down \in Seq(Byte)
    BY DEF TypeOK, Byte
<1>3. Len(sent) \in Nat /\ Len(down) \in Nat /\ MaxSends \in Nat /\ Size \in Nat
    BY <1>2, FramingAssumption
<1>4. sent' \in Seq(Kind) /\ Len(sent') = n
    BY <1>1, <1>2
<1>5. cut' \subseteq 1 .. MaxSends /\ short' \in BOOLEAN
    BY <1>1 DEF TypeOK
<1>6. TypeOK'
    BY <1>1, <1>4, <1>5 DEF TypeOK, Byte
<1>7. \A i \in DOMAIN down' : down'[i][1] <= n
    <2> TAKE i \in DOMAIN down'
    <2>1. i \in 1 .. Len(down) + f
        BY <1>1
    <2>2. CASE i \in 1 .. Len(down)
        <3>1. i \in DOMAIN down /\ down[i] \in Byte /\ down'[i] = down[i]
            BY <1>1, <1>2, <2>2
        <3>2. down[i][1] \in Nat /\ down[i][1] <= Len(sent)
            BY <3>1, ByteNumbers DEF Numbers
        <3> QED
            BY <1>1, <1>3, <3>1, <3>2
    <2>3. CASE i \in Len(down) + 1 .. Len(down) + f
        <3>1. i - Len(down) \in 1 .. f /\ Len(down) + (i - Len(down)) = i
            BY <1>1, <1>3, <2>3
        <3>2. down'[i] = <<n, i - Len(down)>>
            BY <1>1, <3>1
        <3> QED
            BY <1>1, <3>2
    <2> QED
        BY <1>1, <1>3, <2>1, <2>2, <2>3
<1>8. \A i \in 1 .. Size : rcv_packet'[i][1] <= n
    <2> TAKE i \in 1 .. Size
    <2>1. rcv_packet[i] \in Byte /\ rcv_packet[i][1] <= Len(sent)
        BY DEF TypeOK, Numbers, Byte
    <2> QED
        BY <1>1, <1>3, <2>1, ByteNumbers
<1>9. \A i \in DOMAIN handled' : handled'[i] <= n
    <2>1. \A i \in DOMAIN handled : handled[i] \in Nat /\ handled[i] <= Len(sent)
        BY <1>3 DEF TypeOK, Numbers
    <2> QED
        BY <1>1, <1>3, <2>1
<1>10. \A i \in DOMAIN up' : up'[i][1] <= acks'
    BY <1>1 DEF Numbers
<1>11. cut' \subseteq 1 .. n
    <2>1. cut \subseteq 1 .. Len(sent) /\ 1 .. Len(sent) \subseteq 1 .. n /\ n \in 1 .. n
        BY <1>1, <1>3 DEF Numbers
    <2> QED
        BY <1>1, <2>1
<1> QED
    BY <1>1, <1>4, <1>6, <1>7, <1>8, <1>9, <1>10, <1>11 DEF Numbers

LEMMA TypesClose ==
    ASSUME TypeOK, Numbers, Close
    PROVE  TypeOK' /\ Numbers'
<1>1. /\ conn' \in {"closed", "reset"} /\ Part(down', down, 0)
      /\ up' = <<>>
      /\ UNCHANGED <<sent, client, rcv_packet, threads, acks, packet, handled, heard,
                     cut, short>>
    BY CloseForms
<1>2. down \in Seq(Byte)
    BY DEF TypeOK, Byte
<1>3. /\ down' \in Seq(Byte) /\ Len(down') \in Nat /\ Len(down') <= Len(down)
      /\ \A i \in DOMAIN down' : 0 + i \in DOMAIN down /\ down'[i] = down[0 + i]
    BY <1>1, <1>2, PartElements
<1>4. up' \in Seq(Byte)
    BY ONLY <1>1, EmptySeq, Zenon
<1>5. TypeOK'
    BY <1>1, <1>3, <1>4 DEF TypeOK, Byte
<1>6. Len(down') <= SndBuf
    BY <1>2, <1>3, FramingAssumption DEF Numbers
<1>7. \A i \in DOMAIN up' : up'[i][1] <= acks'
    BY <1>1
<1>8. Numbers'
    BY <1>1, <1>3, <1>6, <1>7 DEF Numbers
<1> QED
    BY <1>5, <1>8

LEMMA TypesReadAck ==
    ASSUME TypeOK, Numbers, NEW k \in Nat, NEW buf \in Buffer, ServerTakes(k, buf)
    PROVE  /\ TypeOK' /\ Numbers' /\ Part(up', up, k) /\ Len(up') = Len(up) - k
           /\ Intact(buf) => buf[1][1] \in 1 .. MaxSends /\ buf[1][1] <= acks
                             /\ up[1] = <<buf[1][1], 1>>
<1>1. /\ k \in 1 .. Len(up) /\ k <= Size
      /\ packet' = buf
      /\ \A i \in 1 .. Size : buf[i] = IF i <= k THEN up[i] ELSE packet[i]
      /\ up' = SubSeq(up, k + 1, Len(up))
      /\ heard' = IF Intact(buf) THEN Append(heard, buf[1][1]) ELSE heard
      /\ short' = (short \/ k # Size)
      /\ UNCHANGED <<sent, down, conn, client, rcv_packet, threads, acks, handled, cut>>
    BY DEF ServerTakes
<1>2. up \in Seq(Byte) /\ heard \in Seq(1 .. MaxSends) /\ Len(up) \in Nat
    BY DEF TypeOK, Byte
<1>3. k \in 0 .. Len(up) /\ 1 \in 1 .. Size /\ 1 <= k /\ 1 \in DOMAIN up
    BY <1>1, <1>2, FramingAssumption
<1>4. up' \in Seq(Byte) /\ Len(up') = Len(up) - k
      /\ \A i \in 1 .. Len(up) - k : up'[i] = up[k + i]
    BY <1>1, <1>2, <1>3, TakeAndLeave
<1>5. Part(up', up, k)
    BY <1>2, <1>3, <1>4 DEF Part
<1>6. ASSUME Intact(buf)
      PROVE  buf[1][1] \in 1 .. MaxSends /\ buf[1][1] <= acks /\ up[1] = <<buf[1][1], 1>>
    <2>1. buf[1][1] \in 1 .. MaxSends /\ buf[1] = <<buf[1][1], 1>>
        BY <1>3, <1>6, IntactBytes
    <2>2. buf[1] = up[1]
        BY <1>1, <1>3
    <2> QED
        <3>1. up[1][1] <= acks
            BY <1>3 DEF Numbers
        <3>2. buf[1][1] = up[1][1]
            BY <2>2
        <3> QED
            BY <2>1, <2>2, <3>1, <3>2
<1>7. heard' \in Seq(1 .. MaxSends)
    <2>1. CASE Intact(buf)
        <3>1. heard' = Append(heard, buf[1][1]) /\ buf[1][1] \in 1 .. MaxSends
            BY <1>1, <1>6, <2>1
        <3> QED
            BY <1>2, <3>1, AppendProperties
    <2> QED
        BY <1>1, <1>2, <2>1
<1>8. TypeOK'
    BY <1>1, <1>4, <1>7 DEF TypeOK, Byte, Buffer
<1>9. \A i \in DOMAIN up' : up'[i][1] <= acks'
    <2>1. \A i \in DOMAIN up' : k + i \in DOMAIN up /\ up'[i] = up[k + i]
        BY <1>2, <1>5, PartElements
    <2> QED
        BY <1>1, <2>1 DEF Numbers
<1>10. Numbers'
    BY <1>1, <1>9 DEF Numbers
<1> QED
    BY <1>4, <1>5, <1>6, <1>8, <1>10

LEMMA TypesClient ==
    ASSUME TypeOK, Numbers, NEW k \in Nat, NEW buf \in Buffer, ClientTakes(k, buf)
    PROVE  TypeOK' /\ Numbers'
<1>1. /\ Part(down', down, k)
      /\ \A i \in 1 .. Size : buf[i][1] <= Len(sent)
      /\ \/ handled' = handled
         \/ /\ Intact(buf) /\ buf[1][1] \in 1 .. Len(sent)
            /\ handled' = Append(handled, buf[1][1])
      /\ \/ UNCHANGED <<up, acks>>
         \/ /\ conn = "open" /\ acks < MaxSends
            /\ acks' = acks + 1 /\ up' = up \o Bytes(acks + 1)
      /\ conn' \in {"open", "closed", "reset"}
      /\ client' \in {"running", "ended", "killed"} /\ threads' \in Nat
    BY HandleForms
<1>2. /\ rcv_packet' = buf /\ short' = (short \/ k \notin {0, Size})
      /\ UNCHANGED <<sent, packet, heard, cut>>
    BY DEF ClientTakes
<1>3. /\ down \in Seq(Byte) /\ up \in Seq(Byte) /\ handled \in Seq(1 .. MaxSends)
      /\ acks \in 0 .. MaxSends
    BY DEF TypeOK, Byte
<1>4. Len(down) \in Nat /\ MaxSends \in Nat /\ Size \in Nat /\ SndBuf \in Nat
    BY <1>3, FramingAssumption
<1>5. /\ down' \in Seq(Byte) /\ Len(down') \in Nat /\ Len(down') <= Len(down)
      /\ \A i \in DOMAIN down' : k + i \in DOMAIN down /\ down'[i] = down[k + i]
    BY <1>1, <1>3, PartElements
<1>6. /\ handled' \in Seq(1 .. MaxSends)
      /\ \A i \in DOMAIN handled' : handled'[i] <= Len(sent)
    <2>1. CASE handled' = handled
        BY <1>3, <2>1 DEF Numbers
    <2>2. CASE /\ Intact(buf) /\ buf[1][1] \in 1 .. Len(sent)
               /\ handled' = Append(handled, buf[1][1])
        <3>1. buf[1][1] \in 1 .. MaxSends /\ buf[1][1] <= Len(sent)
            BY <1>1, <2>2, IntactBytes, FramingAssumption
        <3>2. /\ handled' \in Seq(1 .. MaxSends) /\ Len(handled') = Len(handled) + 1
              /\ \A i \in 1 .. Len(handled) : handled'[i] = handled[i]
              /\ handled'[Len(handled) + 1] = buf[1][1]
            BY <1>3, <2>2, <3>1, AppendProperties
        <3>3. /\ DOMAIN handled = 1 .. Len(handled) /\ Len(handled) \in Nat
              /\ DOMAIN handled' = 1 .. Len(handled) + 1
            BY <1>3, <3>2
        <3>4. \A i \in DOMAIN handled' : i \in DOMAIN handled \/ i = Len(handled) + 1
            BY <3>3
        <3> QED
            BY <3>1, <3>2, <3>3, <3>4 DEF Numbers
    <2> QED
        BY <1>1, <2>1, <2>2
<1>7. /\ up' \in Seq(Byte) /\ acks' \in 0 .. MaxSends
      /\ \A i \in DOMAIN up' : up'[i][1] <= acks'
    <2>1. CASE UNCHANGED <<up, acks>>
        BY <1>3, <2>1 DEF Numbers
    <2>2. CASE /\ acks < MaxSends
               /\ acks' = acks + 1 /\ up' = up \o Bytes(acks + 1)
        <3>1. acks + 1 \in 0 .. MaxSends
            BY <1>3, <1>4, <2>2
        <3>2. /\ Bytes(acks + 1) \in Seq(Byte) /\ Len(Bytes(acks + 1)) = Size
              /\ \A i \in 1 .. Size : Bytes(acks + 1)[i] = <<acks + 1, i>>
            BY <3>1, BytesType
        <3>3. /\ up' \in Seq(Byte) /\ DOMAIN up' = 1 .. Len(up) + Size /\ Len(up) \in Nat
              /\ \A i \in 1 .. Len(up) : up'[i] = up[i]
              /\ \A i \in 1 .. Size : up'[Len(up) + i] = Bytes(acks + 1)[i]
            BY <1>3, <2>2, <3>2, Joined
        <3>4. \A i \in DOMAIN up : up[i] \in Byte /\ up[i][1] <= acks
            BY <1>3 DEF Numbers
        <3>5. ASSUME NEW i \in DOMAIN up'
              PROVE  up'[i][1] <= acks + 1
            <4>1. CASE i \in 1 .. Len(up)
                <5>1. up[i] \in Byte /\ up[i][1] <= acks /\ up'[i] = up[i]
                    BY <1>3, <3>3, <3>4, <4>1
                <5> QED
                    BY <1>3, <5>1, ByteNumbers
            <4>2. CASE i \in Len(up) + 1 .. Len(up) + Size
                <5>1. i - Len(up) \in 1 .. Size /\ Len(up) + (i - Len(up)) = i
                    BY <1>4, <3>3, <4>2
                <5>2. up'[i] = <<acks + 1, i - Len(up)>>
                    BY <3>2, <3>3, <5>1
                <5> QED
                    BY <1>3, <5>2
            <4> QED
                BY <1>4, <3>3, <3>5, <4>1, <4>2
        <3> QED
            BY <2>2, <3>1, <3>3, <3>5
    <2> QED
        BY <1>1, <2>1, <2>2
<1>8. short' \in BOOLEAN
    BY <1>2 DEF TypeOK
<1>9. TypeOK'
    BY <1>1, <1>2, <1>5, <1>6, <1>7, <1>8 DEF TypeOK, Byte, Buffer
<1>10. Len(down') <= SndBuf
    BY <1>4, <1>5 DEF Numbers
<1>11. Numbers'
    BY <1>1, <1>2, <1>5, <1>6, <1>7, <1>10 DEF Numbers
<1> QED
    BY <1>9, <1>11

-----------------------------------------------------------------------------
(* The order of what is on its way and of what was handled.                *)

Before(a, b) == a[1] < b[1] \/ (a[1] = b[1] /\ a[2] < b[2])

\* Bytes are in the order of their packets, and of their places in them.
InOrder(s) == \A i, j \in DOMAIN s : i < j => Before(s[i], s[j])

\* The packets h were handled in order, and the first byte of each is before all
\* bytes of s.
HandledPast(h, s) ==
    /\ \A i, j \in DOMAIN h : i < j => h[i] < h[j]
    /\ \A i \in DOMAIN h : \A j \in DOMAIN s : Before(<<h[i], 1>>, s[j])

\* t is s and the first f bytes of packet n.
Extended(t, s, n, f) ==
    /\ t \in Seq(Byte) /\ Len(t) = Len(s) + f
    /\ \A i \in 1 .. Len(s) : t[i] = s[i]
    /\ \A i \in 1 .. f : t[Len(s) + i] = <<n, i>>

Past ==
    /\ InOrder(down) /\ InOrder(up)
    /\ \A i \in DOMAIN heard : heard[i] <= acks
    /\ conn = "open" => HandledPast(handled, down) /\ HandledPast(heard, up)

LEMMA PartInOrder ==
    ASSUME NEW s \in Seq(Byte), NEW t, NEW k, Part(t, s, k), InOrder(s)
    PROVE  InOrder(t)
<1>1. /\ t \in Seq(Byte) /\ k \in Nat /\ DOMAIN t = 1 .. Len(t)
      /\ \A i \in DOMAIN t : k + i \in DOMAIN s /\ t[i] = s[k + i]
    BY PartElements
<1> SUFFICES ASSUME NEW i \in DOMAIN t, NEW j \in DOMAIN t, i < j
             PROVE  Before(t[i], t[j])
    BY DEF InOrder
<1>2. i \in Int /\ j \in Int
    BY <1>1
<1>3. k + i < k + j
    BY <1>1, <1>2
<1>4. Before(s[k + i], s[k + j])
    BY <1>1, <1>3 DEF InOrder
<1> QED
    BY <1>1, <1>4

\* The bytes of an extension: those of before, or of the packet that was added.
LEMMA ExtensionBytes ==
    ASSUME NEW s \in Seq(Byte), NEW t, NEW n \in Nat, NEW f \in Nat, Extended(t, s, n, f)
    PROVE  /\ DOMAIN t \subseteq Nat /\ Len(s) \in Nat
           /\ \A i \in DOMAIN t :
                \/ i <= Len(s) /\ i \in DOMAIN s /\ t[i] = s[i] /\ s[i] \in Byte
                \/ i > Len(s) /\ i - Len(s) \in 1 .. f /\ t[i] = <<n, i - Len(s)>>
<1>1. Len(s) \in Nat /\ DOMAIN s = 1 .. Len(s) /\ DOMAIN t = 1 .. Len(s) + f
      /\ \A i \in DOMAIN s : s[i] \in Byte
    BY DEF Extended
<1>2. ASSUME NEW i \in DOMAIN t, i <= Len(s)
      PROVE  i \in DOMAIN s /\ t[i] = s[i]
    BY <1>1, <1>2 DEF Extended
<1>3. ASSUME NEW i \in DOMAIN t, i > Len(s)
      PROVE  i - Len(s) \in 1 .. f /\ t[i] = <<n, i - Len(s)>>
    <2>1. i - Len(s) \in 1 .. f /\ Len(s) + (i - Len(s)) = i
        BY <1>1, <1>3
    <2> QED
        BY <2>1 DEF Extended
<1>4. \A i \in DOMAIN t : i <= Len(s) \/ i > Len(s)
    BY <1>1
<1>5. DOMAIN t \subseteq Nat
    BY <1>1
<1> QED
    BY <1>1, <1>2, <1>3, <1>4, <1>5

LEMMA ExtendedInOrder ==
    ASSUME NEW s \in Seq(Byte), NEW t, NEW n \in Nat, NEW f \in Nat, Extended(t, s, n, f),
           InOrder(s), \A i \in DOMAIN s : s[i][1] < n
    PROVE  InOrder(t)
<1> SUFFICES ASSUME NEW i \in DOMAIN t, NEW j \in DOMAIN t, i < j
             PROVE  Before(t[i], t[j])
    BY DEF InOrder
<1>1. i \in Nat /\ j \in Nat /\ Len(s) \in Nat
    BY ExtensionBytes
<1>2. \/ i <= Len(s) /\ i \in DOMAIN s /\ t[i] = s[i] /\ s[i] \in Byte
      \/ i > Len(s) /\ i - Len(s) \in 1 .. f /\ t[i] = <<n, i - Len(s)>>
    BY ExtensionBytes
<1>3. \/ j <= Len(s) /\ j \in DOMAIN s /\ t[j] = s[j] /\ s[j] \in Byte
      \/ j > Len(s) /\ j - Len(s) \in 1 .. f /\ t[j] = <<n, j - Len(s)>>
    BY ExtensionBytes
<1>4. CASE j <= Len(s)
    BY <1>1, <1>2, <1>3, <1>4 DEF InOrder
<1>5. CASE i <= Len(s) /\ j > Len(s)
    BY <1>1, <1>2, <1>3, <1>5 DEF Before
<1>6. CASE i > Len(s) /\ j > Len(s)
    <2>1. t[i] = <<n, i - Len(s)>> /\ t[j] = <<n, j - Len(s)>> /\ i - Len(s) < j - Len(s)
        BY <1>1, <1>2, <1>3, <1>6
    <2> QED
        BY <2>1 DEF Before
<1>7. j <= Len(s) \/ (i <= Len(s) /\ j > Len(s)) \/ (i > Len(s) /\ j > Len(s))
    BY <1>1
<1> QED
    BY <1>4, <1>5, <1>6, <1>7

\* Taking bytes, and handling the packet that begins with the first of them.
LEMMA PastTaken ==
    ASSUME NEW h \in Seq(1 .. MaxSends), NEW g, NEW s \in Seq(Byte), NEW t,
           NEW k \in Nat, k >= 1, NEW n \in 1 .. MaxSends,
           HandledPast(h, s), InOrder(s), Part(t, s, k),
           \/ g = h
           \/ g = Append(h, n) /\ s[1] = <<n, 1>> /\ 1 \in DOMAIN s
    PROVE  HandledPast(g, t)
<1>1. /\ t \in Seq(Byte) /\ DOMAIN t = 1 .. Len(t) /\ DOMAIN s = 1 .. Len(s)
      /\ \A i \in DOMAIN t : k + i \in DOMAIN s /\ t[i] = s[k + i]
    BY PartElements
<1>2. \A i \in DOMAIN h : \A j \in DOMAIN t : Before(<<h[i], 1>>, t[j])
    BY <1>1 DEF HandledPast
<1>3. CASE g = h
    BY <1>2, <1>3 DEF HandledPast
<1>4. CASE g = Append(h, n) /\ s[1] = <<n, 1>> /\ 1 \in DOMAIN s
    <2>1. /\ Len(h) \in Nat /\ DOMAIN h = 1 .. Len(h) /\ DOMAIN g = 1 .. Len(h) + 1
          /\ \A i \in DOMAIN h : g[i] = h[i] /\ h[i] \in Nat
          /\ g[Len(h) + 1] = n /\ n \in Nat
        BY <1>4, AppendProperties, FramingAssumption
    <2>2. \A i \in DOMAIN h : h[i] < n
        <3> TAKE i \in DOMAIN h
        <3>1. Before(<<h[i], 1>>, <<n, 1>>)
            BY <1>4 DEF HandledPast
        <3> QED
            BY <2>1, <3>1 DEF Before
    <2>3. \A j \in DOMAIN t : Before(<<n, 1>>, t[j])
        <3> TAKE j \in DOMAIN t
        <3>1. k + j \in DOMAIN s /\ t[j] = s[k + j] /\ 1 < k + j
            BY <1>1
        <3> QED
            BY <1>4, <3>1 DEF InOrder
    <2>4. ASSUME NEW i \in DOMAIN g
          PROVE  i \in DOMAIN h \/ i = Len(h) + 1
        BY <2>1, <2>4
    <2>5. \A i, j \in DOMAIN g : i < j => g[i] < g[j]
        <3> TAKE i, j \in DOMAIN g
        <3> HAVE i < j
        <3>1. i \in DOMAIN h
            BY <2>1
        <3>2. CASE j \in DOMAIN h
            BY <2>1, <3>1, <3>2 DEF HandledPast
        <3>3. CASE j = Len(h) + 1
            BY <2>1, <2>2, <3>1, <3>3
        <3> QED
            BY <2>4, <3>2, <3>3
    <2>6. \A i \in DOMAIN g : \A j \in DOMAIN t : Before(<<g[i], 1>>, t[j])
        BY <1>2, <2>1, <2>3, <2>4
    <2> QED
        BY <2>5, <2>6 DEF HandledPast
<1> QED
    BY <1>3, <1>4

\* Bytes of a new packet.
LEMMA PastExtended ==
    ASSUME NEW h, NEW s \in Seq(Byte), NEW t, NEW n \in Nat, NEW f \in Nat,
           HandledPast(h, s), Extended(t, s, n, f), \A i \in DOMAIN h : h[i] < n
    PROVE  HandledPast(h, t)
<1> SUFFICES ASSUME NEW i \in DOMAIN h, NEW j \in DOMAIN t
             PROVE  Before(<<h[i], 1>>, t[j])
    BY DEF HandledPast
<1>1. \/ j \in DOMAIN s /\ t[j] = s[j]
      \/ t[j] = <<n, j - Len(s)>>
    BY ExtensionBytes
<1> QED
    BY <1>1 DEF HandledPast, Before

LEMMA PastSend ==
    ASSUME TypeOK, Numbers, Past, NEW kind \in Kind, NEW n \in Nat, NEW f \in Nat,
           ServerSends(kind, n, f)
    PROVE  Past'
<1>1. /\ conn = "open" /\ n = Len(sent) + 1
      /\ Extended(down', down, n, f)
      /\ UNCHANGED <<up, conn, acks, handled, heard>>
    BY DEF ServerSends, Extended
<1>2. down \in Seq(Byte) /\ Len(sent) \in Nat /\ handled \in Seq(1 .. MaxSends)
    BY DEF TypeOK, Byte
<1>3. \A i \in DOMAIN down : down[i][1] < n
    <2> TAKE i \in DOMAIN down
    <2>1. down[i][1] \in Nat /\ down[i][1] <= Len(sent)
        BY <1>2, ByteNumbers DEF Numbers
    <2> QED
        BY <1>1, <1>2, <2>1
<1>4. \A i \in DOMAIN handled : handled[i] < n
    <2> TAKE i \in DOMAIN handled
    <2>1. handled[i] \in Nat /\ handled[i] <= Len(sent)
        BY <1>2, FramingAssumption DEF Numbers
    <2> QED
        BY <1>1, <1>2, <2>1
<1>5. InOrder(down')
    BY <1>1, <1>2, <1>3, ExtendedInOrder DEF Past
<1>6. HandledPast(handled, down')
    BY <1>1, <1>2, <1>4, PastExtended DEF Past
<1> QED
    BY <1>1, <1>5, <1>6 DEF Past

LEMMA PastClose ==
    ASSUME TypeOK, Past, Close
    PROVE  Past'
<1>1. /\ conn' \in {"closed", "reset"} /\ Part(down', down, 0)
      /\ up' = <<>> /\ UNCHANGED <<acks, heard>>
    BY CloseForms
<1>2. down \in Seq(Byte)
    BY DEF TypeOK, Byte
<1>3. InOrder(down')
    BY <1>1, <1>2, PartInOrder DEF Past
<1>4. InOrder(up')
    BY <1>1 DEF InOrder
<1> QED
    BY <1>1, <1>3, <1>4 DEF Past

LEMMA PastReadAck ==
    ASSUME TypeOK, Numbers, Past, NEW k \in Nat, NEW buf \in Buffer, ServerTakes(k, buf)
    PROVE  Past'
<1>1. /\ conn = "open" /\ k \in 1 .. Len(up)
      /\ heard' = IF Intact(buf) THEN Append(heard, buf[1][1]) ELSE heard
      /\ UNCHANGED <<down, conn, handled, acks>>
    BY DEF ServerTakes
<1>2. /\ Part(up', up, k)
      /\ Intact(buf) => buf[1][1] \in 1 .. MaxSends /\ buf[1][1] <= acks
                        /\ up[1] = <<buf[1][1], 1>>
    BY TypesReadAck
<1>3. up \in Seq(Byte) /\ heard \in Seq(1 .. MaxSends) /\ Len(up) \in Nat
    BY DEF TypeOK, Byte
<1>4. InOrder(up')
    BY <1>2, <1>3, PartInOrder DEF Past
<1>5. k >= 1 /\ 1 \in DOMAIN up
    BY <1>1, <1>3
<1>6. CASE Intact(buf)
    <2> DEFINE n == buf[1][1]
    <2>1. n \in 1 .. MaxSends /\ n <= acks /\ up[1] = <<n, 1>> /\ heard' = Append(heard, n)
        BY <1>1, <1>2, <1>6
    <2> HIDE DEF n
    <2>2. HandledPast(heard, up) /\ InOrder(up)
        BY <1>1 DEF Past
    <2>3. HandledPast(heard', up')
        BY <1>2, <1>3, <1>5, <2>1, <2>2, PastTaken
    <2>4. \A i \in DOMAIN heard' : heard'[i] <= acks
        <3>1. /\ Len(heard') = Len(heard) + 1 /\ heard'[Len(heard) + 1] = n
              /\ \A i \in 1 .. Len(heard) : heard'[i] = heard[i]
              /\ heard' \in Seq(1 .. MaxSends)
            BY <1>3, <2>1, AppendProperties
        <3>2. /\ Len(heard) \in Nat /\ DOMAIN heard = 1 .. Len(heard)
              /\ DOMAIN heard' = 1 .. Len(heard) + 1
            BY <1>3, <3>1
        <3>3. \A i \in DOMAIN heard' : i \in DOMAIN heard \/ i = Len(heard) + 1
            BY <3>2
        <3> QED
            BY <2>1, <3>1, <3>2, <3>3 DEF Past
    <2> QED
        BY <1>1, <1>4, <2>3, <2>4 DEF Past
<1>7. CASE ~Intact(buf)
    <2>1. heard' = heard
        BY <1>1, <1>7
    <2>2. \A j \in DOMAIN up' : k + j \in DOMAIN up /\ up'[j] = up[k + j]
        BY <1>2, <1>3, PartElements
    <2>3. HandledPast(heard', up')
        BY <1>1, <2>1, <2>2 DEF Past, HandledPast
    <2> QED
        BY <1>1, <1>4, <2>1, <2>3 DEF Past
<1> QED
    BY <1>6, <1>7

LEMMA PastClient ==
    ASSUME TypeOK, Numbers, Past, NEW k \in Nat, NEW buf \in Buffer, ClientTakes(k, buf)
    PROVE  Past'
<1>1. /\ Part(down', down, k)
      /\ \/ handled' = handled
         \/ /\ Intact(buf) /\ buf[1][1] \in 1 .. Len(sent)
            /\ handled' = Append(handled, buf[1][1])
      /\ \/ UNCHANGED <<up, acks>>
         \/ /\ conn = "open" /\ acks < MaxSends
            /\ acks' = acks + 1 /\ up' = up \o Bytes(acks + 1)
      /\ conn' = "open" <=> conn = "open"
    BY HandleForms
<1>2. /\ k \in 0 .. Len(down) /\ (conn = "open" => k >= 1) /\ heard' = heard
      /\ \A i \in 1 .. Size : buf[i] = IF i <= k THEN down[i] ELSE rcv_packet[i]
    BY DEF ClientTakes
<1>3. /\ down \in Seq(Byte) /\ up \in Seq(Byte) /\ handled \in Seq(1 .. MaxSends)
      /\ heard \in Seq(1 .. MaxSends) /\ acks \in 0 .. MaxSends /\ Len(down) \in Nat
    BY DEF TypeOK, Byte
<1>4. Size \in Nat \ {0} /\ MaxSends \in Nat
    BY FramingAssumption
<1>5. InOrder(down')
    BY <1>1, <1>3, PartInOrder DEF Past
<1>6. ASSUME conn = "open"
      PROVE  HandledPast(handled', down')
    <2>1. k >= 1 /\ 1 \in DOMAIN down /\ 1 \in 1 .. Size /\ 1 <= k
        BY <1>2, <1>3, <1>4, <1>6
    <2>2. buf[1] = down[1]
        BY <1>2, <2>1
    <2>3. HandledPast(handled, down) /\ InOrder(down)
        BY <1>6 DEF Past
    <2>4. CASE handled' = handled
        <3>1. \A j \in DOMAIN down' : k + j \in DOMAIN down /\ down'[j] = down[k + j]
            BY <1>1, <1>3, PartElements
        <3> QED
            BY <2>3, <2>4, <3>1 DEF HandledPast
    <2>5. CASE Intact(buf) /\ handled' = Append(handled, buf[1][1])
        <3> DEFINE n == buf[1][1]
        <3>1. n \in 1 .. MaxSends /\ down[1] = <<n, 1>> /\ handled' = Append(handled, n)
            BY <2>1, <2>2, <2>5, IntactBytes
        <3> HIDE DEF n
        <3> QED
            BY <1>1, <1>3, <2>1, <2>3, <3>1, PastTaken
    <2> QED
        BY <1>1, <2>4, <2>5
<1>7. /\ InOrder(up') /\ (\A i \in DOMAIN heard : heard[i] <= acks')
      /\ conn = "open" => HandledPast(heard, up')
    <2>1. CASE UNCHANGED <<up, acks>>
        BY <2>1 DEF Past
    <2>2. CASE /\ conn = "open" /\ acks < MaxSends
               /\ acks' = acks + 1 /\ up' = up \o Bytes(acks + 1)
        <3> DEFINE n == acks + 1
        <3>1. /\ n \in 0 .. MaxSends /\ n \in Nat /\ Size \in Nat
              /\ up' = up \o Bytes(n) /\ acks < n /\ acks' = n
            BY <1>3, <1>4, <2>2
        <3> HIDE DEF n
        <3>2. /\ Bytes(n) \in Seq(Byte) /\ Len(Bytes(n)) = Size
              /\ \A i \in 1 .. Size : Bytes(n)[i] = <<n, i>>
            BY <3>1, BytesType
        <3>3. /\ up' \in Seq(Byte) /\ Len(up') = Len(up) + Size
              /\ \A i \in 1 .. Len(up) : up'[i] = up[i]
              /\ \A i \in 1 .. Size : up'[Len(up) + i] = Bytes(n)[i]
            <4> DEFINE b == Bytes(n)
            <4>1. b \in Seq(Byte) /\ Len(b) = Size /\ up' = up \o b
                BY <3>1, <3>2
            <4> HIDE DEF b
            <4>2. /\ up \o b \in Seq(Byte) /\ Len(up \o b) = Len(up) + Len(b)
                  /\ \A i \in 1 .. Len(up) : (up \o b)[i] = up[i]
                  /\ \A i \in 1 .. Len(b) : (up \o b)[Len(up) + i] = b[i]
                <5>1. up \in Seq(Byte) /\ b \in Seq(Byte)
                    BY <1>3, <4>1
                <5> QED
                    BY ONLY <5>1, Joined
            <4> QED
                BY <4>1, <4>2 DEF b
        <3>4. Extended(up', up, n, Size)
            BY <3>2, <3>3 DEF Extended
        <3>5. \A i \in DOMAIN up : up[i][1] < n
            <4> TAKE i \in DOMAIN up
            <4>1. up[i][1] \in Nat /\ up[i][1] <= acks
                BY <1>3, ByteNumbers DEF Numbers
            <4> QED
                BY <1>3, <3>1, <4>1
        <3>6. \A i \in DOMAIN heard : heard[i] < n /\ heard[i] <= acks'
            <4> TAKE i \in DOMAIN heard
            <4>1. heard[i] \in Nat /\ heard[i] <= acks
                BY <1>3, <1>4 DEF Past
            <4> QED
                BY <1>3, <3>1, <4>1
        <3>7. InOrder(up) /\ HandledPast(heard, up)
            BY <2>2 DEF Past
        <3>8. InOrder(up')
            BY <1>3, <3>1, <3>4, <3>5, <3>7, ExtendedInOrder
        <3>9. HandledPast(heard, up')
            BY <1>3, <3>1, <3>4, <3>6, <3>7, PastExtended
        <3> QED
            BY <3>6, <3>8, <3>9
    <2> QED
        BY <1>1, <2>1, <2>2
<1> QED
    BY <1>1, <1>2, <1>5, <1>6, <1>7 DEF Past

-----------------------------------------------------------------------------
(* Packets that were cut.                                                  *)

\* The last byte of a packet that was cut is nowhere, and so it was not handled.
CutLost ==
    \A n \in cut :
        /\ \A i \in DOMAIN down : down[i] # <<n, Size>>
        /\ \A i \in 1 .. Size : rcv_packet[i] # <<n, Size>>
        /\ \A i \in DOMAIN handled : handled[i] # n

LEMMA CutSend ==
    ASSUME TypeOK, Numbers, CutLost, NEW kind \in Kind, NEW n \in Nat, NEW f \in Nat,
           ServerSends(kind, n, f)
    PROVE  CutLost'
<1>1. /\ n = Len(sent) + 1 /\ f \in 0 .. Size
      /\ Extended(down', down, n, f)
      /\ cut' = IF f = Size THEN cut ELSE cut \cup {n}
      /\ UNCHANGED <<rcv_packet, handled>>
    BY DEF ServerSends, Extended
<1>2. /\ down \in Seq(Byte) /\ Len(sent) \in Nat /\ handled \in Seq(1 .. MaxSends)
      /\ rcv_packet \in Buffer /\ Size \in Nat
    <2>1. /\ down \in Seq(Byte) /\ sent \in Seq(Kind) /\ handled \in Seq(1 .. MaxSends)
          /\ rcv_packet \in Buffer
        BY DEF TypeOK, Byte, Buffer
    <2> QED
        BY <2>1, FramingAssumption
<1> SUFFICES ASSUME NEW m \in cut'
             PROVE  /\ \A i \in DOMAIN down' : down'[i] # <<m, Size>>
                    /\ \A i \in 1 .. Size : rcv_packet[i] # <<m, Size>>
                    /\ \A i \in DOMAIN handled : handled[i] # m
    BY <1>1 DEF CutLost
<1>3. (m = n /\ f # Size) \/ (m \in cut /\ m \in Nat /\ m < n)
    <2>1. \A c \in cut : c \in Nat /\ c < n
        BY <1>1, <1>2 DEF Numbers
    <2> QED
        BY <1>1, <2>1
<1>4. ASSUME NEW i \in DOMAIN down'
      PROVE  down'[i] # <<m, Size>>
    <2>1. \/ i \in DOMAIN down /\ down'[i] = down[i] /\ down[i] \in Byte
          \/ i - Len(down) \in 1 .. f /\ down'[i] = <<n, i - Len(down)>>
        BY <1>1, <1>2, ExtensionBytes
    <2>2. CASE i \in DOMAIN down /\ down'[i] = down[i] /\ down[i] \in Byte
        <3>1. down[i][1] \in Nat /\ down[i][1] <= Len(sent)
            BY <2>2, ByteNumbers DEF Numbers
        <3>2. down[i][1] < n
            BY <1>1, <1>2, <3>1
        <3> QED
            BY <1>1, <1>3, <2>2, <3>2 DEF CutLost
    <2>3. CASE i - Len(down) \in 1 .. f /\ down'[i] = <<n, i - Len(down)>>
        <3>1. f # Size => i - Len(down) # Size
            BY <1>1, <1>2, <2>3
        <3> QED
            BY <1>1, <1>3, <2>3, <3>1
    <2> QED
        BY <2>1, <2>2, <2>3
<1>5. ASSUME NEW i \in 1 .. Size
      PROVE  rcv_packet[i] # <<m, Size>>
    <2>1. rcv_packet[i][1] \in Nat /\ rcv_packet[i][1] <= Len(sent)
        BY <1>2, ByteNumbers DEF Numbers, Buffer
    <2>2. rcv_packet[i][1] < n
        BY <1>1, <1>2, <2>1
    <2> QED
        BY <1>3, <2>2 DEF CutLost
<1>6. ASSUME NEW i \in DOMAIN handled
      PROVE  handled[i] # m
    <2>1. handled[i] \in Nat /\ handled[i] <= Len(sent)
        BY <1>2, FramingAssumption DEF Numbers
    <2>2. handled[i] < n
        BY <1>1, <1>2, <2>1
    <2> QED
        BY <1>3, <2>2 DEF CutLost
<1> QED
    BY <1>4, <1>5, <1>6

LEMMA CutClient ==
    ASSUME TypeOK, Numbers, CutLost, NEW k \in Nat, NEW buf \in Buffer, ClientTakes(k, buf)
    PROVE  CutLost'
<1>1. /\ Part(down', down, k)
      /\ \/ handled' = handled
         \/ Intact(buf) /\ handled' = Append(handled, buf[1][1])
    BY HandleForms
<1>2. /\ k \in 0 .. Len(down) /\ cut' = cut /\ rcv_packet' = buf
      /\ \A i \in 1 .. Size : buf[i] = IF i <= k THEN down[i] ELSE rcv_packet[i]
    BY DEF ClientTakes
<1>3. /\ down \in Seq(Byte) /\ Len(down) \in Nat /\ DOMAIN down = 1 .. Len(down)
      /\ handled \in Seq(1 .. MaxSends) /\ Size \in 1 .. Size
    BY FramingAssumption DEF TypeOK, Byte
<1> SUFFICES ASSUME NEW m \in cut
             PROVE  /\ \A i \in DOMAIN down' : down'[i] # <<m, Size>>
                    /\ \A i \in 1 .. Size : buf[i] # <<m, Size>>
                    /\ \A i \in DOMAIN handled' : handled'[i] # m
    BY <1>2 DEF CutLost
<1>4. \A i \in DOMAIN down' : down'[i] # <<m, Size>>
    <2>1. \A i \in DOMAIN down' : k + i \in DOMAIN down /\ down'[i] = down[k + i]
        BY <1>1, <1>3, PartElements
    <2> QED
        BY <2>1 DEF CutLost
<1>5. \A i \in 1 .. Size : buf[i] # <<m, Size>>
    <2> TAKE i \in 1 .. Size
    <2>1. i <= k => i \in DOMAIN down
        BY <1>2, <1>3
    <2> QED
        BY <1>2, <2>1 DEF CutLost
<1>6. CASE handled' = handled
    BY <1>4, <1>5, <1>6 DEF CutLost
<1>7. CASE Intact(buf) /\ handled' = Append(handled, buf[1][1])
    <2> DEFINE n == buf[1][1]
    <2>1. n \in 1 .. MaxSends /\ buf[Size] = <<n, Size>>
        BY <1>3, <1>7, IntactBytes
    <2>2. n # m
        BY <1>3, <1>5, <2>1
    <2>3. handled' = Append(handled, n)
        BY <1>7
    <2> HIDE DEF n
    <2>4. /\ DOMAIN handled' = 1 .. Len(handled) + 1 /\ Len(handled) \in Nat
          /\ DOMAIN handled = 1 .. Len(handled)
          /\ \A i \in 1 .. Len(handled) : handled'[i] = handled[i]
          /\ handled'[Len(handled) + 1] = n
        BY <1>3, <2>1, <2>3, AppendProperties
    <2>5. \A i \in DOMAIN handled' : i \in DOMAIN handled \/ i = Len(handled) + 1
        BY <2>4
    <2>6. \A i \in DOMAIN handled' : handled'[i] # m
        BY <2>2, <2>4, <2>5 DEF CutLost
    <2> QED
        BY <1>4, <1>5, <2>6
<1> QED
    BY <1>1, <1>6, <1>7

LEMMA CutClose ==
    ASSUME TypeOK, CutLost, Close
    PROVE  CutLost'
<1>1. Part(down', down, 0) /\ UNCHANGED <<cut, rcv_packet, handled>>
    BY CloseForms
<1>2. down \in Seq(Byte)
    BY DEF TypeOK, Byte
<1>3. \A i \in DOMAIN down' : 0 + i \in DOMAIN down /\ down'[i] = down[0 + i]
    BY <1>1, <1>2, PartElements
<1> QED
    BY <1>1, <1>3 DEF CutLost

-----------------------------------------------------------------------------
(* ACKs and messages.                                                      *)

\* The places in handled of the messages, each of which is answered.
Answered == {i \in DOMAIN handled : sent[handled[i]] = "DATA"}

AcksCounted == conn = "open" => acks = Cardinality(Answered)

LEMMA AcksInit == Init => AcksCounted
<1> SUFFICES ASSUME Init PROVE acks = Cardinality(Answered)
    BY DEF AcksCounted
<1>1. acks = 0 /\ DOMAIN handled = {}
    BY DEF Init
<1>2. Answered = {}
    BY <1>1 DEF Answered
<1> QED
    BY <1>1, <1>2, FS_EmptySet

LEMMA AcksSend ==
    ASSUME TypeOK, Numbers, AcksCounted, NEW kind \in Kind, NEW n \in Nat, NEW f \in Nat,
           ServerSends(kind, n, f)
    PROVE  AcksCounted'
<1>1. /\ n = Len(sent) + 1 /\ sent' = Append(sent, kind)
      /\ UNCHANGED <<conn, acks, handled>>
    BY DEF ServerSends
<1>2. sent \in Seq(Kind) /\ handled \in Seq(1 .. MaxSends)
    BY DEF TypeOK
<1>3. \A i \in DOMAIN handled : handled[i] \in 1 .. Len(sent)
    BY <1>2, FramingAssumption DEF Numbers
<1>4. \A m \in 1 .. Len(sent) : sent'[m] = sent[m]
    BY <1>1, <1>2, AppendProperties
<1>5. \A i \in DOMAIN handled : sent'[handled[i]] = sent[handled[i]]
    BY <1>3, <1>4
<1>6. Answered' = Answered
    BY <1>1, <1>5 DEF Answered
<1> QED
    BY <1>1, <1>6 DEF AcksCounted

LEMMA AcksClient ==
    ASSUME TypeOK, Numbers, AcksCounted, NEW k \in Nat, NEW buf \in Buffer,
           ClientTakes(k, buf)
    PROVE  AcksCounted'
<1> SUFFICES ASSUME conn = "open"
             PROVE  acks' = Cardinality(Answered')
    BY HandleForms DEF AcksCounted
<1> DEFINE n == buf[1][1]
           last == Len(handled) + 1
<1>1. \/ /\ acks' = acks
         /\ \/ handled' = handled
            \/ handled' = Append(handled, n) /\ sent[n] # "DATA"
      \/ acks' = acks + 1 /\ handled' = Append(handled, n) /\ sent[n] = "DATA"
    BY HandleForms
<1>2. handled \in Seq(1 .. MaxSends) /\ acks = Cardinality(Answered) /\ sent' = sent
      /\ n \in 0 .. MaxSends
    <2>1. 1 \in 1 .. Size
        BY FramingAssumption
    <2>2. n \in 0 .. MaxSends
        BY <2>1 DEF Buffer, Byte
    <2> QED
        BY <2>2 DEF TypeOK, AcksCounted, ClientTakes
<1>3. Len(handled) \in Nat /\ DOMAIN handled = 1 .. Len(handled)
    BY <1>2
<1>4. IsFiniteSet(Answered) /\ last \notin Answered
    <2>1. IsFiniteSet(1 .. Len(handled))
        BY <1>3, FS_Interval
    <2>2. Answered \subseteq 1 .. Len(handled) /\ last \notin 1 .. Len(handled)
        BY <1>3 DEF Answered
    <2> QED
        BY <2>1, <2>2, FS_Subset
<1> HIDE DEF n
<1>5. ASSUME handled' = Append(handled, n)
      PROVE  Answered' = IF sent[n] = "DATA" THEN Answered \cup {last} ELSE Answered
    <2>1. /\ DOMAIN handled' = DOMAIN handled \cup {last} /\ last \notin DOMAIN handled
          /\ \A i \in DOMAIN handled : handled'[i] = handled[i]
          /\ handled'[last] = n
        <3>1. handled \in Seq(Int) /\ n \in Int
            BY <1>2, FramingAssumption
        <3>2. /\ Append(handled, n) \in Seq(Int) /\ Len(Append(handled, n)) = last
              /\ \A i \in 1 .. Len(handled) : Append(handled, n)[i] = handled[i]
              /\ Append(handled, n)[last] = n
            BY <3>1, AppendProperties
        <3>3. DOMAIN handled' = 1 .. last
            BY <1>5, <3>2
        <3> QED
            BY <1>3, <1>5, <3>2, <3>3
    <2> HIDE DEF last
    <2> QED
        BY <1>2, <2>1 DEF Answered
<1> HIDE DEF last
<1>6. Cardinality(Answered \cup {last}) = Cardinality(Answered) + 1
    BY <1>4, FS_AddElement
<1>7. CASE handled' = handled /\ acks' = acks
    BY <1>2, <1>7 DEF Answered
<1>8. CASE handled' = Append(handled, n) /\ sent[n] # "DATA" /\ acks' = acks
    BY <1>2, <1>5, <1>8
<1>9. CASE handled' = Append(handled, n) /\ sent[n] = "DATA" /\ acks' = acks + 1
    BY <1>2, <1>5, <1>6, <1>9
<1> QED
    BY <1>1, <1>7, <1>8, <1>9

-----------------------------------------------------------------------------
(* Whole packets, as long as no count was short.                           *)

\* What the client has written and the server has not read: packets number h + 1
\* and so on, r of them.
Packets(s, h, r) ==
    /\ Len(s) = r * Size
    /\ \A q \in 0 .. r - 1 : \A i \in 1 .. Size : s[q * Size + i] = <<h + q + 1, i>>

Framed ==
    ~short /\ conn = "open" =>
        /\ \E q \in Nat : Len(down) = q * Size
        /\ \A i \in DOMAIN heard : heard[i] = i
        /\ Len(heard) <= acks
        /\ Packets(up, Len(heard), acks - Len(heard))

LEMMA FramedInit == Init => Framed
<1> SUFFICES ASSUME Init PROVE Framed
    OBVIOUS
<1>1. down = <<>> /\ up = <<>> /\ heard = <<>> /\ acks = 0
    BY DEF Init
<1>2. Len(down) = 0 /\ Len(up) = 0 /\ Len(heard) = 0 /\ DOMAIN heard = {}
    BY <1>1
<1>3. 0 * Size = 0 /\ 0 \in Nat /\ acks - Len(heard) = 0
    <2>1. 0 \in Nat
        OBVIOUS
    <2>2. 0 * Size = 0
        BY ONLY <2>1, Multiples
    <2>3. acks - Len(heard) = 0
        <3>1. acks = 0 /\ Len(heard) = 0
            BY <1>1, <1>2
        <3> QED
            BY ONLY <3>1
    <2> QED
        BY ONLY <2>1, <2>2, <2>3
<1>4. 0 .. 0 - 1 = {}
    OBVIOUS
<1>5. Packets(up, Len(heard), acks - Len(heard))
    BY <1>2, <1>3, <1>4 DEF Packets
<1> QED
    BY <1>1, <1>2, <1>3, <1>5 DEF Framed

LEMMA FramedSend ==
    ASSUME TypeOK, Framed, NEW kind \in Kind, NEW n \in Nat, NEW f \in Nat,
           ServerSends(kind, n, f)
    PROVE  Framed'
<1>1. /\ Len(down') = Len(down) + f /\ short' = (short \/ f \notin {0, Size})
      /\ UNCHANGED <<conn, up, heard, acks>>
    BY DEF ServerSends
<1> SUFFICES ASSUME ~short', conn = "open"
             PROVE  \E q \in Nat : Len(down') = q * Size
    BY <1>1 DEF Framed
<1>2. ~short /\ f \in {0, Size}
    BY <1>1 DEF TypeOK
<1>3. PICK q \in Nat : Len(down) = q * Size
    BY <1>2 DEF Framed
<1>4. q * Size \in Nat /\ (q + 1) * Size = q * Size + Size /\ q + 1 \in Nat
    BY Multiples
<1>5. CASE f = 0
    BY <1>1, <1>3, <1>4, <1>5
<1>6. CASE f = Size
    BY <1>1, <1>3, <1>4, <1>6
<1> QED
    BY <1>2, <1>5, <1>6

\* A packet less, at the beginning.
LEMMA PacketTaken ==
    ASSUME NEW s \in Seq(Byte), NEW h \in Nat, NEW r \in Nat, Packets(s, h, r),
           Size <= Len(s)
    PROVE  /\ r - 1 \in Nat /\ Packets(SubSeq(s, Size + 1, Len(s)), h + 1, r - 1)
           /\ \A i \in 1 .. Size : s[i] = <<h + 1, i>>
<1>1. Len(s) = r * Size /\ Len(s) \in Nat /\ Size \in Nat \ {0}
    BY FramingAssumption DEF Packets
<1>2. r >= 1 /\ r - 1 \in Nat /\ (r - 1) * Size = r * Size - Size
    BY <1>1, Multiples
<1> DEFINE t == SubSeq(s, Size + 1, Len(s))
<1>3. Len(t) = Len(s) - Size /\ \A i \in 1 .. Len(s) - Size : t[i] = s[Size + i]
    <2>1. Size \in 0 .. Len(s)
        BY <1>1
    <2>2. QED
        BY ONLY <2>1, s \in Seq(Byte), TakeAndLeave
<1> HIDE DEF t
<1>4. \A i \in 1 .. Size : s[i] = <<h + 1, i>>
    <2> TAKE i \in 1 .. Size
    <2>1. 0 \in 0 .. r - 1 /\ 0 * Size = 0 /\ 0 * Size + i = i /\ h + 0 + 1 = h + 1
        BY <1>1, <1>2, Multiples
    <2>2. s[0 * Size + i] = <<h + 0 + 1, i>>
        BY <2>1 DEF Packets
    <2> QED
        BY <2>1, <2>2
<1>5. ASSUME NEW q \in 0 .. (r - 1) - 1, NEW i \in 1 .. Size
      PROVE  t[q * Size + i] = <<(h + 1) + q + 1, i>>
    <2>1. q \in Nat /\ q < r - 1 /\ q + 1 \in 0 .. r - 1
        BY <1>2, <1>5
    <2>2. q * Size \in Nat /\ (q + 1) * Size = q * Size + Size
        BY <2>1, Multiples
    <2>3. q * Size + Size <= (r - 1) * Size
        BY <1>2, <2>1, MultiplesGrow
    <2>4. q * Size + i \in 1 .. Len(s) - Size
        BY <1>1, <1>2, <2>2, <2>3
    <2>5. Size + (q * Size + i) = (q + 1) * Size + i
        BY <1>1, <2>2
    <2>6. s[(q + 1) * Size + i] = <<h + (q + 1) + 1, i>>
        BY <2>1 DEF Packets
    <2>7. h + (q + 1) + 1 = (h + 1) + q + 1
        BY <2>1
    <2> QED
        BY <1>3, <2>4, <2>5, <2>6, <2>7
<1>6. Packets(t, h + 1, r - 1)
    BY <1>1, <1>2, <1>3, <1>5 DEF Packets
<1> QED
    BY <1>2, <1>4, <1>6 DEF t

\* A packet more, at the end.
LEMMA PacketAdded ==
    ASSUME NEW s \in Seq(Byte), NEW t, NEW h \in Nat, NEW r \in Nat, Packets(s, h, r),
           Extended(t, s, h + r + 1, Size)
    PROVE  Packets(t, h, r + 1)
<1>1. Len(s) = r * Size /\ Len(s) \in Nat /\ Size \in Nat \ {0}
      /\ (r + 1) * Size = r * Size + Size
    BY FramingAssumption, Multiples DEF Packets
<1>2. Len(t) = (r + 1) * Size
    BY <1>1 DEF Extended
<1>3. ASSUME NEW q \in 0 .. (r + 1) - 1, NEW i \in 1 .. Size
      PROVE  t[q * Size + i] = <<h + q + 1, i>>
    <2>1. CASE q = r
        BY <1>1, <2>1 DEF Extended
    <2>2. CASE q \in 0 .. r - 1
        <3>1. q \in Nat /\ q < r
            BY <2>2
        <3>2. q * Size \in Nat
            BY ONLY <3>1, Multiples
        <3>3. q * Size + Size <= r * Size
            BY <3>1, MultiplesGrow
        <3>4. q * Size + i \in 1 .. Len(s)
            BY <1>1, <3>2, <3>3
        <3>5. t[q * Size + i] = s[q * Size + i]
            BY <3>4 DEF Extended
        <3> QED
            BY <2>2, <3>5 DEF Packets
    <2>3. q = r \/ q \in 0 .. r - 1
        BY <1>3
    <2> QED
        BY <2>1, <2>2, <2>3
<1> QED
    BY <1>2, <1>3 DEF Packets

LEMMA FramedReadAck ==
    ASSUME TypeOK, Numbers, Framed, NEW k \in Nat, NEW buf \in Buffer, ServerTakes(k, buf)
    PROVE  Framed'
<1>1. /\ conn = "open" /\ k \in 1 .. Len(up) /\ k <= Size
      /\ \A i \in 1 .. Size : buf[i] = IF i <= k THEN up[i] ELSE packet[i]
      /\ up' = SubSeq(up, k + 1, Len(up))
      /\ heard' = IF Intact(buf) THEN Append(heard, buf[1][1]) ELSE heard
      /\ short' = (short \/ k # Size)
      /\ UNCHANGED <<down, conn, acks>>
    BY DEF ServerTakes
<1> SUFFICES ASSUME ~short' PROVE Framed'
    BY DEF Framed
<1>2. ~short /\ k = Size
    BY <1>1 DEF TypeOK
<1>3. /\ up \in Seq(Byte) /\ heard \in Seq(1 .. MaxSends) /\ acks \in 0 .. MaxSends
      /\ MaxSends \in Nat /\ Size \in Nat \ {0}
    BY FramingAssumption DEF TypeOK, Byte
<1> DEFINE h == Len(heard)
           r == acks - h
<1>4. /\ \E q \in Nat : Len(down) = q * Size
      /\ \A i \in DOMAIN heard : heard[i] = i
      /\ h <= acks /\ Packets(up, h, r)
    BY <1>1, <1>2 DEF Framed
<1>5. h \in Nat /\ r \in Nat /\ Len(up) \in Nat /\ Size <= Len(up)
    BY <1>1, <1>2, <1>3, <1>4
<1> HIDE DEF h, r
<1>6. /\ r - 1 \in Nat /\ Packets(up', h + 1, r - 1)
      /\ \A i \in 1 .. Size : up[i] = <<h + 1, i>>
    <2>1. up' = SubSeq(up, Size + 1, Len(up))
        BY <1>1, <1>2
    <2>2. /\ r - 1 \in Nat /\ Packets(SubSeq(up, Size + 1, Len(up)), h + 1, r - 1)
          /\ \A i \in 1 .. Size : up[i] = <<h + 1, i>>
        BY <1>3, <1>4, <1>5, PacketTaken
    <2> QED
        BY <2>1, <2>2
<1>7. \A i \in 1 .. Size : buf[i] = <<h + 1, i>>
    <2> TAKE i \in 1 .. Size
    <2>1. i <= k
        BY <1>2, <1>3
    <2> QED
        BY <1>1, <1>6, <2>1
<1>8. Intact(buf) /\ buf[1][1] = h + 1
    <2>1. buf[1] = <<h + 1, 1>> /\ h + 1 # 0
        BY <1>3, <1>5, <1>7
    <2>2. buf[1][1] = h + 1
        BY <2>1
    <2>3. buf = [i \in 1 .. Size |-> <<h + 1, i>>]
        BY <1>7 DEF Buffer
    <2> QED
        BY <2>1, <2>2, <2>3 DEF Intact, Bytes
<1>9. heard' = Append(heard, h + 1)
    BY <1>1, <1>8
<1>10. /\ Len(heard') = h + 1 /\ \A i \in DOMAIN heard' : heard'[i] = i
    <2>1. heard \in Seq(Nat) /\ h + 1 \in Nat
        BY <1>3, <1>5
    <2>2. /\ Len(heard') = Len(heard) + 1 /\ heard' \in Seq(Nat)
          /\ \A i \in 1 .. Len(heard) : heard'[i] = heard[i]
          /\ heard'[Len(heard) + 1] = h + 1
        BY <1>9, <2>1, AppendProperties
    <2>3. \A i \in DOMAIN heard' : i \in DOMAIN heard \/ i = h + 1
        <3>1. DOMAIN heard = 1 .. h /\ DOMAIN heard' = 1 .. h + 1
            BY <2>1, <2>2 DEF h
        <3> QED
            BY <1>5, <3>1
    <2>4. Len(heard') = h + 1 /\ heard'[h + 1] = h + 1
          /\ \A i \in DOMAIN heard : heard'[i] = i
        <3>1. DOMAIN heard = 1 .. Len(heard)
            BY <1>3
        <3> QED
            BY <1>4, <2>2, <3>1 DEF h
    <2> QED
        BY <2>3, <2>4
<1>11. acks - (h + 1) = r - 1 /\ h + 1 <= acks
    BY <1>3, <1>5, <1>6 DEF r
<1> QED
    BY <1>1, <1>4, <1>6, <1>10, <1>11 DEF Framed

LEMMA FramedClient ==
    ASSUME TypeOK, Numbers, Framed, NEW k \in Nat, NEW buf \in Buffer, ClientTakes(k, buf)
    PROVE  Framed'
<1>1. /\ conn' = "open" <=> conn = "open"
      /\ conn = "open" => Len(down') = Len(down) - k
      /\ \/ UNCHANGED <<up, acks>>
         \/ /\ conn = "open" /\ acks < MaxSends
            /\ acks' = acks + 1 /\ up' = up \o Bytes(acks + 1)
    BY HandleForms
<1>2. /\ k \in 0 .. Len(down) /\ (conn = "open" => k >= 1) /\ heard' = heard
      /\ short' = (short \/ k \notin {0, Size})
    BY DEF ClientTakes
<1> SUFFICES ASSUME ~short', conn = "open" PROVE Framed'
    BY <1>1 DEF Framed
<1>3. /\ up \in Seq(Byte) /\ heard \in Seq(1 .. MaxSends) /\ acks \in 0 .. MaxSends
      /\ MaxSends \in Nat /\ Size \in Nat \ {0} /\ Len(down) \in Nat
    <2>1. /\ up \in Seq(Byte) /\ down \in Seq(Byte) /\ heard \in Seq(1 .. MaxSends)
          /\ acks \in 0 .. MaxSends
        BY DEF TypeOK, Byte
    <2> QED
        BY <2>1, FramingAssumption
<1>4. ~short /\ k = Size /\ k <= Len(down) /\ Len(down) >= 1
    <2>1. ~short /\ k \in {0, Size}
        BY <1>2 DEF TypeOK
    <2>2. k >= 1 /\ k <= Len(down)
        BY <1>2, <1>3
    <2> QED
        BY <1>3, <2>1, <2>2
<1> DEFINE h == Len(heard)
           r == acks - h
<1>5. /\ \E q \in Nat : Len(down) = q * Size
      /\ \A i \in DOMAIN heard : heard[i] = i
      /\ h <= acks /\ Packets(up, h, r)
    BY <1>4 DEF Framed
<1>6. h \in Nat /\ r \in Nat
    BY <1>3, <1>5
<1>7. \E q \in Nat : Len(down') = q * Size
    <2>1. PICK q \in Nat : Len(down) = q * Size
        BY <1>5
    <2>2. q - 1 \in Nat /\ (q - 1) * Size = q * Size - Size
        BY <1>4, <2>1, Multiples
    <2> QED
        BY <1>1, <1>4, <2>1, <2>2
<1>8. Len(heard') <= acks' /\ Packets(up', Len(heard'), acks' - Len(heard'))
    <2>1. CASE UNCHANGED <<up, acks>>
        BY <1>2, <1>5, <2>1
    <2>2. CASE /\ acks < MaxSends
               /\ acks' = acks + 1 /\ up' = up \o Bytes(acks + 1)
        <3> DEFINE b == Bytes(acks + 1)
        <3>1. acks + 1 \in 0 .. MaxSends
            BY <1>3, <2>2
        <3>2. /\ b \in Seq(Byte) /\ Len(b) = Size
              /\ \A i \in 1 .. Size : b[i] = <<acks + 1, i>>
            BY <3>1, BytesType
        <3>3. up' = up \o b
            BY <2>2
        <3> HIDE DEF b
        <3>4. /\ up \o b \in Seq(Byte) /\ Len(up \o b) = Len(up) + Len(b)
              /\ \A i \in 1 .. Len(up) : (up \o b)[i] = up[i]
              /\ \A i \in 1 .. Len(b) : (up \o b)[Len(up) + i] = b[i]
            <4>1. up \in Seq(Byte) /\ b \in Seq(Byte)
                BY <1>3, <3>2
            <4> QED
                BY ONLY <4>1, Joined
        <3>5. Extended(up', up, acks + 1, Size)
            BY <3>2, <3>3, <3>4 DEF Extended
        <3>6. acks + 1 = h + r + 1 /\ acks' - h = r + 1 /\ h <= acks'
            BY <1>3, <1>5, <1>6, <2>2
        <3> HIDE DEF h, r
        <3>7. Packets(up', h, r + 1)
            BY <1>3, <1>5, <1>6, <3>5, <3>6, PacketAdded
        <3> QED
            BY <1>2, <3>6, <3>7 DEF h
    <2> QED
        BY <1>1, <2>1, <2>2
<1> QED
    BY <1>2, <1>5, <1>7, <1>8 DEF Framed

-----------------------------------------------------------------------------
(* The theorems.                                                           *)

FramingInv ==
    /\ TypeOK /\ Numbers
    /\ Past
    /\ CutLost
    /\ AcksCounted
    /\ Framed

LEMMA FramingInit == Init => FramingInv
<1> SUFFICES ASSUME Init PROVE FramingInv
    OBVIOUS
<1>1. Past /\ CutLost
    <2>1. /\ DOMAIN down = {} /\ DOMAIN up = {} /\ DOMAIN handled = {} /\ DOMAIN heard = {}
          /\ cut = {}
        BY DEF Init
    <2> QED
        BY <2>1 DEF Past, InOrder, HandledPast, CutLost
<1> QED
    BY <1>1, TypesInit, AcksInit, FramedInit DEF FramingInv

LEMMA FramingStep == FramingInv /\ [Next]_vars => FramingInv'
<1> SUFFICES ASSUME FramingInv, [Next]_vars PROVE FramingInv'
    OBVIOUS
<1>1. TypeOK /\ Numbers /\ Past /\ CutLost /\ AcksCounted /\ Framed
    BY DEF FramingInv
<1>2. ASSUME NEW kind \in Kind, Send(kind)
      PROVE  FramingInv'
    <2>1. PICK n \in Nat, f \in Nat : ServerSends(kind, n, f)
        BY <1>1, <1>2, SendSteps
    <2> QED
        BY <1>1, <2>1, TypesSend, PastSend, CutSend, AcksSend, FramedSend DEF FramingInv
<1>3. CASE Close
    <2>1. AcksCounted' /\ Framed'
        BY <1>1, <1>3, CloseForms DEF AcksCounted, Framed
    <2> QED
        BY <1>1, <1>3, <2>1, TypesClose, PastClose, CutClose DEF FramingInv
<1>4. CASE ReadAck
    <2>1. PICK k \in Nat, buf \in Buffer : ServerTakes(k, buf)
        BY <1>1, <1>4, ReadAckSteps
    <2>2. CutLost' /\ AcksCounted'
        BY <1>1, <1>4 DEF ReadAck, CutLost, AcksCounted, Answered
    <2> QED
        BY <1>1, <2>1, <2>2, TypesReadAck, PastReadAck, FramedReadAck DEF FramingInv
<1>5. CASE ClientStep
    <2>1. PICK k \in Nat, buf \in Buffer : ClientTakes(k, buf)
        BY <1>1, <1>5, ClientSteps
    <2> QED
        BY <1>1, <2>1, TypesClient, PastClient, CutClient, AcksClient, FramedClient
           DEF FramingInv
<1>6. CASE UNCHANGED vars
    <2>1. TypeOK' /\ Numbers'
        BY <1>1, <1>6 DEF vars, TypeOK, Numbers
    <2>2. Past' /\ CutLost'
        BY <1>1, <1>6 DEF vars, Past, InOrder, HandledPast, CutLost
    <2>3. AcksCounted' /\ Framed'
        BY <1>1, <1>6 DEF vars, AcksCounted, Answered, Framed
    <2> QED
        BY <2>1, <2>2, <2>3 DEF FramingInv
<1> QED
    BY <1>2, <1>3, <1>4, <1>5, <1>6 DEF Next

LEMMA FramingInvHolds == Spec => []FramingInv
BY FramingInit, FramingStep, PTL DEF Spec

\* Whatever counts read and write return, and whatever is sent, closed or reset in
\* between, a packet that did not fit in the socket whole is never handled, though
\* the buffer keeps what earlier reads left in it; and while the server keeps the
\* connection open each side handles a packet at most once and in order
\* (protocol.c, check_packet_MD5; the loops of srv.c and cliente.c, which look at
\* no count).
THEOREM HandledOnlyOnce == Spec => []HandledOnce
<1>1. FramingInv => HandledOnce
    <2> SUFFICES ASSUME FramingInv PROVE HandledOnce
        OBVIOUS
    <2>1. ToSet(handled) \cap cut = {}
        BY DEF FramingInv, CutLost, ToSet
    <2> QED
        BY <2>1 DEF FramingInv, Past, HandledPast, HandledOnce
<1> QED
    BY <1>1, FramingInvHolds, PTL

\* As long as no count was short and the connection is open, both streams hold
\* whole packets, the server has heard the client's first ACKs and the others are
\* on their way, and there is one ACK for each message the client handled
\* (cliente.c, send_ack).
THEOREM FramesKept == Spec => []FramedUnlessShort
<1>1. FramingInv => FramedUnlessShort
    <2> SUFFICES ASSUME FramingInv PROVE FramedUnlessShort
        OBVIOUS
    <2>1. TypeOK /\ AcksCounted /\ Framed
        BY DEF FramingInv
    <2>2. ASSUME ~short, conn = "open"
          PROVE  /\ Len(down) % Size = 0 /\ Len(up) % Size = 0
                 /\ heard = [i \in 1 .. Len(heard) |-> i]
                 /\ Len(heard) + Len(up) \div Size = acks
        <3> DEFINE h == Len(heard)
                   r == acks - h
        <3>1. /\ \A i \in DOMAIN heard : heard[i] = i
              /\ h <= acks /\ Packets(up, h, r)
            BY <2>1, <2>2 DEF Framed
        <3>2. heard \in Seq(1 .. MaxSends) /\ acks \in 0 .. MaxSends /\ MaxSends \in Nat
            BY <2>1, FramingAssumption DEF TypeOK
        <3>3. r \in Nat /\ h \in Nat /\ h + r = acks
            BY <3>1, <3>2
        <3>4. heard = [i \in 1 .. h |-> i]
            BY <3>1, <3>2
        <3> HIDE DEF r
        <3>5. Len(up) = r * Size /\ (r * Size) % Size = 0 /\ (r * Size) \div Size = r
            BY <3>1, <3>3, Multiples DEF Packets
        <3>6. PICK q \in Nat : Len(down) = q * Size
            BY <2>1, <2>2 DEF Framed
        <3>7. (q * Size) % Size = 0
            BY Multiples
        <3> QED
            BY <3>3, <3>4, <3>5, <3>6, <3>7
    <2>3. conn = "open" =>
            acks = Cardinality({i \in DOMAIN handled : sent[handled[i]] = "DATA"})
        BY <2>1 DEF AcksCounted, Answered
    <2> QED
        BY <2>1, <2>2, <2>3 DEF FramedUnlessShort
<1> QED
    BY <1>1, FramingInvHolds, PTL
=============================================================================
