------------------------------ MODULE Cliente ------------------------------
(***************************************************************************)
(* The subscriber of client/src/cliente.c: one process per member of       *)
(* Client.  It connects, answers every packet the server sends with an ACK *)
(* that names its token, and when it was started with -t it first asks to  *)
(* take over the session of that older token.                              *)
(***************************************************************************)
EXTENDS Ipc

VARIABLES
    old,     \* argument of -t, 0 if the client was started without it
    token    \* main's variable `token', 0 before CONN_ACCEPTED

cliente == <<old, token>>

ClienteTypeOK ==
    /\ old \in [Client -> Nat]
    /\ token \in [Client -> Nat]

ClienteInit ==
    /\ old = [c \in Client |-> 0]
    /\ token = [c \in Client |-> 0]

\* Tokens a user can pass to -t: a client prints the token it uses.
PrintedTokens == {token[c] : c \in Client}

\* Start of main up to connect(2); the kernel queues the connection.
Start(c, t) ==
    /\ peer[c] = "unborn"
    /\ peer' = [peer EXCEPT ![c] = "open"]
    /\ backlog' = Append(backlog, c)
    /\ old' = [old EXCEPT ![c] = t]
    /\ token' = [token EXCEPT ![c] = t]
    /\ UNCHANGED <<fdtab, up, down, reset, fifo, mq, now>>

-----------------------------------------------------------------------------
Ack(t)     == Control("ACK", <<t>>)
Auth(t, u) == Control("AUTH", <<t, u>>)

\* recv returned the packet p.
Recv(c, p) ==
    /\ peer[c] = "open"
    /\ down[c] # <<>>
    /\ p = Head(down[c])
    /\ down' = [down EXCEPT ![c] = Tail(@)]
    /\ UNCHANGED <<fdtab, backlog, reset, fifo, mq, now>>

\* The client's socket is blocking: it waits for room for its answer.  What it
\* writes after the server closed the connection reaches nobody.
Answer(c, pkts) ==
    /\ Len(up[c]) + Len(pkts) <= RcvBuf
    /\ up' = IF Connected(c) THEN [up EXCEPT ![c] = @ \o pkts] ELSE up

RecvConnAccepted(c) == \E p \in ToSet(down[c]) :
    /\ Recv(c, p)
    /\ check_packet_MD5(p) /\ p.mtype = "CONN_ACCEPTED"
    /\ \/ /\ old[c] # 0
          /\ Answer(c, <<Auth(old[c], p.payload[1]), Ack(old[c])>>)
          /\ UNCHANGED token
       \/ /\ old[c] = 0
          /\ Answer(c, <<Ack(p.payload[1])>>)
          /\ token' = [token EXCEPT ![c] = p.payload[1]]
    /\ UNCHANGED <<old, peer>>

RecvData(c) == \E p \in ToSet(down[c]) :
    /\ Recv(c, p)
    /\ check_packet_MD5(p) /\ p.mtype \in {"CLI_ACCEPTED", "DATA"}
    /\ Answer(c, <<Ack(token[c])>>)
    /\ UNCHANGED <<old, token, peer>>

RecvFin(c) == \E p \in ToSet(down[c]) :
    /\ Recv(c, p)
    /\ check_packet_MD5(p) /\ p.mtype = "FIN"
    /\ peer' = [peer EXCEPT ![c] = "closed"]
    /\ UNCHANGED <<old, token, up>>

\* A packet with a wrong hash is skipped without an ACK; FT_SETUP only starts
\* the thread that fetches the file.
RecvUnanswered(c) == \E p \in ToSet(down[c]) :
    /\ Recv(c, p)
    /\ ~check_packet_MD5(p) \/ p.mtype = "FT_SETUP"
    /\ UNCHANGED <<old, token, up, peer>>

\* The process is killed (test_reconnect.sh:6); the kernel closes its socket.
Kill(c) ==
    /\ peer[c] = "open"
    /\ peer' = [peer EXCEPT ![c] = "closed"]
    /\ UNCHANGED <<fdtab, backlog, up, down, reset, fifo, mq, now, old, token>>

ClientStep(c) ==
    \/ RecvConnAccepted(c) \/ RecvData(c) \/ RecvFin(c) \/ RecvUnanswered(c)
=============================================================================
