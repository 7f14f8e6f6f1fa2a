-------------------------------- MODULE Ipc --------------------------------
(***************************************************************************)
(* The kernel objects the processes share: the server's descriptors and    *)
(* TCP connections, the FIFO of the command line interface, the POSIX      *)
(* message queue of the producers and the clock.  None of it is code of    *)
(* the repository; each operator says which behaviour of the kernel the    *)
(* code relies on.                                                         *)
(*                                                                         *)
(* A client process connects once (cliente.c:50), so a connection is named *)
(* by its client.  TCP keeps order and loses nothing while both ends are   *)
(* open; what is lost is what was in flight to a process that died.        *)
(***************************************************************************)
EXTENDS Protocol, FiniteSets, SequencesExt

CONSTANTS
    Client,         \* client processes, past and future
    NoClient,       \* "this descriptor is closed"
    Room,           \* producer identifiers, a set of numbers
    MaxFd,          \* client descriptors the server may hold (RLIMIT_NOFILE)
    SndBuf,         \* packets that fit in a socket towards a client
    RcvBuf,         \* packets that fit in a socket towards the server
    QUEUE_MAXMSG,   \* mq_maxmsg of the message queue
    FifoCap,        \* commands that fit in the FIFO
    MaxTime         \* bound on the clock

ASSUME IpcAssumption ==
    /\ NoClient \notin Client
    /\ IsFiniteSet(Room) /\ Room \subseteq Nat
    /\ MaxFd \in Nat /\ SndBuf \in Nat /\ RcvBuf \in Nat
    /\ QUEUE_MAXMSG \in Nat /\ FifoCap \in Nat /\ MaxTime \in Nat

VARIABLES
    fdtab,    \* descriptor of the server -> the client at the other end
    backlog,  \* connections waiting for accept
    up,       \* bytes of each connection towards the server, in packets
    down,     \* bytes of each connection towards the client, in packets
    peer,     \* the client's end of its connection
    reset,    \* connections on which the server's kernel received an RST
    fifo,     \* /tmp/cli_dm_fifo
    mq,       \* /mq_DM_prod
    now       \* time(2), in seconds

tcp == <<fdtab, backlog, up, down, peer, reset>>
ipc == <<tcp, fifo, mq, now>>

Fd    == 0 .. MaxFd - 1
BadFd == -1                    \* what a failed accept returns

Command == [type : {"add", "delete", "log"}, socket : Nat, productor : Nat]
Message == [id : Room, timestamp : Nat, n : Nat]

IpcTypeOK ==
    /\ fdtab \in [Fd -> Client \cup {NoClient}]
    /\ backlog \in Seq(Client)
    /\ up \in [Client -> Seq(Packet)]
    /\ down \in [Client -> Seq(Packet)]
    /\ peer \in [Client -> {"unborn", "open", "closed"}]
    /\ reset \subseteq Client
    /\ fifo \in Seq(Command)
    /\ mq \in Seq(Message)
    /\ now \in Nat

IpcInit ==
    /\ fdtab = [fd \in Fd |-> NoClient]
    /\ backlog = <<>>
    /\ up = [c \in Client |-> <<>>]
    /\ down = [c \in Client |-> <<>>]
    /\ peer = [c \in Client |-> "unborn"]
    /\ reset = {}
    /\ fifo = <<>>
    /\ mq = <<>>
    /\ now = 0

-----------------------------------------------------------------------------
\* The client behind a descriptor number, whatever the number is.
At(fd) == IF fd \in Fd THEN fdtab[fd] ELSE NoClient

FreeFd == {fd \in Fd : fdtab[fd] = NoClient}

\* The server's end of c's connection exists: accepted or still to be.
Connected(c) == c \in ToSet(backlog) \/ \E fd \in Fd : fdtab[fd] = c

\* A non-blocking socket takes packets until it is full; the rest of the
\* writes fail with EAGAIN.
Push(queue, pkts) ==
    IF Len(queue) + Len(pkts) <= SndBuf
    THEN queue \o pkts
    ELSE SubSeq(queue \o pkts, 1, SndBuf)

\* The contents of the sockets after the server wrote out[c] to each client c;
\* a write to a connection that was reset fails with EPIPE.
Written(out) ==
    [c \in Client |-> IF c \in reset THEN down[c] ELSE Push(down[c], out[c])]

\* pkts written to one descriptor; nothing if it is closed (EBADF).
To(fd, pkts) == [c \in Client |-> IF c = At(fd) THEN pkts ELSE <<>>]

\* close(fd): the descriptor is free for the next accept, the kernel drops it
\* from every epoll set, and what was not read from it is gone.
Closed(fd)        == [f \in Fd |-> IF f = fd THEN NoClient ELSE fdtab[f]]
Drained(fd, inq)  == [c \in Client |-> IF c = At(fd) THEN <<>> ELSE inq[c]]

\* Data that reaches a process that no longer exists is answered with an RST.
KernelReset(c) ==
    /\ peer[c] = "closed" /\ down[c] # <<>> /\ c \notin reset
    /\ reset' = reset \cup {c}
    /\ down' = [down EXCEPT ![c] = <<>>]
    /\ UNCHANGED <<fdtab, backlog, up, peer, fifo, mq, now>>
=============================================================================
