-------------------------------- MODULE Framing --------------------------------
(***************************************************************************)
(* One connection between the server and a client, byte by byte.  Both     *)
(* programs write and read packets of a fixed size and look at no count    *)
(* that write, send, read and recv return, except for -1: a short count is *)
(* taken for a whole packet, and the rest of the buffer is what was there  *)
(* before.  At the end of file the client goes on with the packet it has.  *)
(*                                                                         *)
(* A byte is a pair: the number of its packet and its place in it.         *)
(***************************************************************************)
EXTENDS Integers, Sequences, SequencesExt, FiniteSets, FiniteSetsExt

CONSTANTS
    Size,       \* sizeof(packet_t)
    SndBuf,     \* bytes that fit in the connection towards the client
    RcvBuf,     \* bytes that fit in the connection towards the server
    MaxSends,   \* bound on the packets of the server, and on the client's ACKs
    MaxHandled  \* bound on the packets that are handled again and again

ASSUME FramingAssumption ==
    /\ Size \in Nat \ {0}
    /\ SndBuf \in Nat /\ RcvBuf \in Nat
    /\ MaxSends \in Nat /\ MaxHandled \in Nat

VARIABLES
    sent,       \* the kinds of the packets the server has sent, or tried to
    down,       \* bytes on their way to the client
    up,         \* bytes on their way to the server
    conn,       \* "open"; "closed" by the server; "reset" by its kernel
    client,     \* "running", "ended" by FIN, or "killed" by SIGPIPE
    rcv_packet, \* the client's buffer
    threads,    \* threads of recv_file
    acks,       \* ACKs the client has written
    packet,     \* the server's buffer
    handled,    \* history: the packets the client has handled
    heard,      \* history: the ACKs the server has handled
    cut,        \* history: the packets that did not fit in the socket whole
    short       \* history: some call wrote or read part of a packet

vars == <<sent, down, up, conn, client, rcv_packet, threads, acks, packet,
          handled, heard, cut, short>>

\* What the client tells apart: a packet it answers, FT_SETUP and FIN.
Kind == {"DATA", "FT_SETUP", "FIN"}

Bytes(n) == [i \in 1 .. Size |-> <<n, i>>]

\* The contents of buf after the call that stored bytes in it.
Stored(buf, bytes) ==
    [i \in 1 .. Size |-> IF i <= Len(bytes) THEN bytes[i] ELSE buf[i]]

\* Mutant: the hash is not looked at.
Bug_Intact(buf) == buf[1][1] # 0

\* check_packet_MD5: all bytes are of one packet, each in its place.
Intact(buf) == buf[1][1] # 0 /\ buf = Bytes(buf[1][1])

Init ==
    /\ sent = <<>> /\ down = <<>> /\ up = <<>>
    /\ conn = "open" /\ client = "running"
    /\ rcv_packet = Bytes(0) /\ packet = Bytes(0)
    /\ threads = 0 /\ acks = 0
    /\ handled = <<>> /\ heard = <<>>
    /\ cut = {} /\ short = FALSE

-----------------------------------------------------------------------------
(* The server.                                                             *)

\* The bytes of a packet that a non-blocking send puts into the socket.
Fitting(n) == Min({Size, SndBuf - Len(down)})

\* send of a packet, whatever it returns.
Send(kind) ==
    /\ conn = "open" /\ client = "running" /\ Len(sent) < MaxSends
    /\ LET n == Len(sent) + 1
       IN  /\ sent' = Append(sent, kind)
           /\ down' = down \o SubSeq(Bytes(n), 1, Fitting(n))
           /\ cut' = IF Fitting(n) = Size THEN cut ELSE cut \cup {n}
           /\ short' = (short \/ Fitting(n) \notin {0, Size})
    /\ UNCHANGED <<up, conn, client, rcv_packet, threads, acks, packet, handled, heard>>

\* The connection is reset: of the bytes on their way some have arrived.
Reset(bytes) ==
    /\ conn' = "reset"
    /\ \E k \in 0 .. Len(bytes) : down' = SubSeq(bytes, 1, k)

\* The descriptor is closed: a reconnection, a collection, the end of the server.
\* What has been written still arrives; ACKs that were not read are lost, and the
\* kernel then resets the connection instead of closing it.
Close ==
    /\ conn = "open"
    /\ \/ up = <<>> /\ conn' = "closed" /\ UNCHANGED <<up, down>>
       \/ up # <<>> /\ up' = <<>> /\ Reset(down)
    /\ UNCHANGED <<sent, client, rcv_packet, threads, acks, packet, handled, heard, cut, short>>

\* read, of some of the bytes that have arrived.
ReadAck ==
    /\ conn = "open"
    /\ \E k \in 1 .. Min({Size, Len(up)}) :
         LET buf == Stored(packet, SubSeq(up, 1, k))
         IN  /\ packet' = buf
             /\ up' = SubSeq(up, k + 1, Len(up))
             /\ heard' = IF Intact(buf) THEN Append(heard, buf[1][1]) ELSE heard
             /\ short' = (short \/ k # Size)
    /\ UNCHANGED <<sent, down, conn, client, rcv_packet, threads, acks, handled, cut>>

-----------------------------------------------------------------------------
(* The client.                                                             *)

Running == client = "running"

\* Mutant: the socket does not block, and an ACK with no room is lost.
Bug_SendAckLost(rest) ==
    /\ acks < MaxSends
    /\ acks' = acks + 1
    /\ up' = IF Len(up) + Size <= RcvBuf THEN up \o Bytes(acks + 1) ELSE up
    /\ down' = rest
    /\ UNCHANGED <<conn, client>>

\* send_ack.  The socket is blocking: the client waits for room.  The server's
\* kernel answers data for a descriptor that is closed with an RST, and what is
\* written after that raises SIGPIPE, which the client does not ignore.
SendAck(rest) ==
    \/ /\ conn = "open"
       /\ Len(up) + Size <= RcvBuf /\ acks < MaxSends
       /\ acks' = acks + 1
       /\ up' = up \o Bytes(acks + 1)
       /\ down' = rest
       /\ UNCHANGED <<conn, client>>
    \/ /\ conn = "closed"
       /\ Reset(rest)
       /\ UNCHANGED <<client, up, acks>>
    \/ /\ conn = "reset"
       /\ client' = "killed"
       /\ down' = rest
       /\ UNCHANGED <<conn, up, acks>>

\* Mutant: term is not set.
Bug_Leave(rest) ==
    /\ down' = rest
    /\ UNCHANGED <<acks, conn, up, client>>

\* FIN: the loop ends.
Leave(rest) ==
    /\ client' = "ended"
    /\ down' = rest
    /\ UNCHANGED <<acks, conn, up>>

\* What the loop does with the packet in its buffer once recv has returned and
\* left rest on the way.
Handle(buf, rest) ==
    LET n == buf[1][1]
    IN  \/ /\ ~Intact(buf)
           /\ down' = rest
           /\ UNCHANGED <<handled, threads, acks, conn, client, up>>
        \/ /\ Intact(buf) /\ sent[n] = "DATA"
           /\ SendAck(rest)
           /\ handled' = Append(handled, n)
           /\ UNCHANGED threads
        \/ /\ Intact(buf) /\ sent[n] = "FT_SETUP"
           /\ threads' = threads + 1
           /\ handled' = Append(handled, n)
           /\ down' = rest
           /\ UNCHANGED <<acks, conn, client, up>>
        \/ /\ Intact(buf) /\ sent[n] = "FIN"
           /\ Leave(rest)
           /\ handled' = Append(handled, n)
           /\ UNCHANGED threads

\* recv returns some of the bytes that have arrived, at most Size.
Recv ==
    /\ Running /\ down # <<>>
    /\ \E k \in 1 .. Min({Size, Len(down)}) :
         LET buf == Stored(rcv_packet, SubSeq(down, 1, k))
         IN  /\ rcv_packet' = buf
             /\ short' = (short \/ k # Size)
             /\ Handle(buf, SubSeq(down, k + 1, Len(down)))
    /\ UNCHANGED <<sent, packet, heard, cut>>

\* recv returns 0, or -1 after a reset: the packet of before is handled again.
RecvNothing ==
    /\ Running /\ down = <<>> /\ conn # "open"
    /\ Len(handled) < MaxHandled
    /\ Handle(rcv_packet, <<>>)
    /\ UNCHANGED <<sent, rcv_packet, packet, heard, cut, short>>

ClientStep == Recv \/ RecvNothing

Next == (\E kind \in Kind : Send(kind)) \/ Close \/ ReadAck \/ ClientStep

Spec == Init /\ [][Next]_vars

\* Both loops run: the server's never blocks; the client's waits for nothing but
\* the connection.
FairSpec == Spec /\ WF_vars(ClientStep) /\ WF_vars(ReadAck)

-----------------------------------------------------------------------------
(* What should be true.                                                    *)

TypeOK ==
    /\ sent \in Seq(Kind)
    /\ down \in Seq((0 .. MaxSends) \X (1 .. Size))
    /\ up \in Seq((0 .. MaxSends) \X (1 .. Size))
    /\ conn \in {"open", "closed", "reset"}
    /\ client \in {"running", "ended", "killed"}
    /\ rcv_packet \in [1 .. Size -> (0 .. MaxSends) \X (1 .. Size)]
    /\ packet \in [1 .. Size -> (0 .. MaxSends) \X (1 .. Size)]
    /\ threads \in Nat /\ acks \in 0 .. MaxSends
    /\ handled \in Seq(1 .. MaxSends) /\ heard \in Seq(1 .. MaxSends)
    /\ cut \subseteq 1 .. MaxSends /\ short \in BOOLEAN

\* A packet that did not fit in the socket whole is never handled: nothing that
\* the buffer holds from earlier reads, and nothing that comes after it, passes
\* for the part that is missing (protocol.c, check_packet_MD5).  As long as the
\* server keeps the connection open, nothing is handled twice or out of order,
\* by either side: FT_SETUP starts one thread and a message gets one ACK.
HandledOnce ==
    /\ ToSet(handled) \cap cut = {}
    /\ conn = "open" =>
        /\ \A i, j \in DOMAIN handled : i < j => handled[i] < handled[j]
        /\ \A i, j \in DOMAIN heard : i < j => heard[i] < heard[j]

\* As long as no packet was cut, every ACK is heard or on its way, in the order
\* in which it was written, and so is every packet of the server that fitted.
FramedUnlessShort ==
    /\ TypeOK
    /\ ~short /\ conn = "open" =>
        /\ Len(down) % Size = 0 /\ Len(up) % Size = 0
        /\ heard = [i \in 1 .. Len(heard) |-> i]
        /\ Len(heard) + Len(up) \div Size = acks
        /\ acks = Cardinality({i \in DOMAIN handled : sent[handled[i]] = "DATA"})

\* Whole packets on the way to the client.
Coming(kind) ==
    {n \in DOMAIN sent : sent[n] = kind /\ ToSet(Bytes(n)) \subseteq ToSet(down)}

FinEnds ==
    Coming("FIN") # {} ~> (Running => short \/ conn = "reset")

ClosedEnds ==
    (/\ conn # "open" /\ down = <<>>
     /\ Intact(rcv_packet) /\ sent[rcv_packet[1][1]] = "DATA") ~> ~Running

\* A client that is sent FIN ends, unless the connection is reset before or the
\* stream gets out of frame; and one that has a message in its buffer when the
\* connection ends does not stay: it answers it again until it is killed.
ClientEnds == FinEnds /\ ClosedEnds
=============================================================================
