----------------------------- MODULE LogTransfer -----------------------------
(***************************************************************************)
(* The transfer of the log: the thread handle_loq_req of the server, one   *)
(* per `log' command, and the thread recv_file a client starts when it is  *)
(* sent FT_SETUP.  All threads of the server share one descriptor table,   *)
(* one port and one file log_comprimido.zip, and run beside the main loop, *)
(* which closes and accepts sessions meanwhile.                            *)
(*                                                                         *)
(* The receiver that was started by the FT_SETUP of thread t is called t   *)
(* as well; it runs in the process of home[t] and may end up connected to  *)
(* another thread, peer[t].  A file is a sequence of blocks, and MD5 is    *)
(* injective, so that a digest is the blocks it is computed over.          *)
(***************************************************************************)
EXTENDS Integers, Sequences, SequencesExt, FiniteSets, FiniteSetsExt

CONSTANTS
    Client,      \* clients of the server, all started in the same directory
    Thread,      \* threads for `log' commands
    Nobody,      \* no client and no thread
    MaxFd,       \* descriptors of the server for all that is modelled
    Blocks,      \* length of the compressed log, in packets of FT_DATA
    LogSize,     \* length of the log itself, in the same unit
    MaxFile,     \* bound on the file of a receiver that never stops
    Leftover,    \* what a variable that is never initialised may hold
    Mortal       \* the processes that may die: "client", "server"

ASSUME TransferAssumption ==
    /\ Nobody \notin Client \cup Thread
    /\ MaxFd \in Nat /\ Blocks \in Nat /\ LogSize \in Nat /\ MaxFile \in Nat
    /\ Leftover \subseteq Nat    \* numbers from MaxFd on are no descriptors
    /\ Mortal \subseteq {"client", "server"}

Fd    == 0 .. MaxFd - 1
BadFd == -1

VARIABLES
    fdtab,             \* what each descriptor of the server is
    pc,                \* next statement of each thread of the server
    sock_req,          \* its argument: the descriptor of the session
    passive,           \* its socket_passive_ftransfer
    fd_file_transfer,  \* its connection to a receiver
    pos,               \* blocks it has read from fd_log
    zipfile,           \* log_comprimido.zip
    home,              \* client that was sent the FT_SETUP of each thread
    rpc,               \* what each receiver does
    backlog,           \* receivers that wait in the queue of a listening thread
    peer,              \* thread at the other end of each receiver
    chan,              \* packets on their way to each receiver
    last,              \* packet each receiver has read last
    server_hash,       \* hash in the FT_BEGIN each receiver has read
    my_hash,           \* what each receiver has added to its MD5
    rcv_file,          \* rcv_file.zip: its blocks; its owner is rcv_owner
    rcv_owner,         \* receiver that created rcv_file.zip
    verdict            \* what each receiver has printed

tables    == <<fdtab, zipfile>>
threads   == <<pc, sock_req, passive, fd_file_transfer, pos>>
receivers == <<last, server_hash, my_hash, rcv_file, rcv_owner, verdict>>
network   == <<home, rpc, backlog, peer, chan>>
vars      == <<tables, threads, network, receivers>>

Obj(kind, who) == <<kind, who>>
Free           == Obj("free", Nobody)

\* FT_BEGIN, FT_DATA and FT_FIN in one record; `none' is a buffer never read into.
FtPacket(mtype, hash, fsize) == [mtype |-> mtype, hash |-> hash, fsize |-> fsize]
FtBegin(blocks) == FtPacket("FT_BEGIN", blocks, LogSize)
FtData(block)   == FtPacket("FT_DATA", <<block>>, 0)
FtFin           == FtPacket("FT_FIN", <<>>, 0)
NoPacket        == FtPacket("none", <<>>, 0)

\* The log as thread t compresses it.
Zipped(t) == [i \in 1 .. Blocks |-> <<t, i>>]

Init ==
    /\ fdtab = [f \in Fd |-> IF f = 0 THEN Obj("stdin", Nobody) ELSE Free]
    /\ pc = [t \in Thread |-> "unborn"]
    /\ sock_req = [t \in Thread |-> BadFd]
    /\ passive = [t \in Thread |-> BadFd]
    /\ fd_file_transfer \in [Thread -> Leftover]
    /\ pos = [t \in Thread |-> 0]
    /\ zipfile = <<>>
    /\ home = [t \in Thread |-> Nobody]
    /\ rpc = [t \in Thread |-> "unborn"]
    /\ backlog = [t \in Thread |-> <<>>]
    /\ peer = [t \in Thread |-> Nobody]
    /\ chan = [t \in Thread |-> <<>>]
    /\ last = [t \in Thread |-> NoPacket]
    /\ server_hash = [t \in Thread |-> <<>>]
    /\ my_hash = [t \in Thread |-> <<>>]
    /\ rcv_file = <<>>
    /\ rcv_owner = Nobody
    /\ verdict = [t \in Thread |-> "none"]

-----------------------------------------------------------------------------
(* Descriptors and connections.                                            *)

At(fd) == IF fd \in Fd THEN fdtab[fd] ELSE Free

FreeFd == {f \in Fd : fdtab[f] = Free}

\* The descriptor the next open, socket or accept returns; -1 when there is none.
NewFd == IF FreeFd = {} THEN BadFd ELSE Min(FreeFd)

Opened(obj) == [f \in Fd |-> IF f = NewFd THEN obj ELSE fdtab[f]]
Closed(fd)  == [f \in Fd |-> IF f = fd THEN Free ELSE fdtab[f]]

\* Sessions of clients that live (a dead one leaves its session open until it
\* is collected).
Sessions  == {f \in Fd : fdtab[f][1] = "session"}
Listening(t) == \E f \in Fd : fdtab[f] = Obj("listen", t)
Connected(t) == \E f \in Fd : fdtab[f] = Obj("transfer", t)

\* The receiver that was accepted by t, if it has not closed its connection.
Reader(t) == {r \in Thread : /\ peer[r] = t /\ rpc[r] \in {"connected", "recv"}
                             /\ r \notin ToSet(backlog[t])}

\* A packet written to descriptor fd.  It arrives nowhere when the descriptor
\* is not the connection of a transfer or when nobody reads from it any more.
Sent(fd, p) ==
    [r \in Thread |->
        IF At(fd)[1] = "transfer" /\ r \in Reader(At(fd)[2])
        THEN Append(chan[r], p) ELSE chan[r]]

Goto(t, l) == pc' = [pc EXCEPT ![t] = l]

\* A thread goes on after a write.  The write may fail, but need not yet, when
\* the other end is closed.
GotoWritten(t, l) ==
    \/ Goto(t, l)
    \/ Reader(t) = {} /\ Goto(t, "terminate")

-----------------------------------------------------------------------------
(* The main loop, as far as it touches the same descriptors.               *)

\* A client without a session connects; it gets the lowest free descriptor.
AcceptSession(c) ==
    /\ FreeFd # {}
    /\ \A f \in Fd : fdtab[f] # Obj("session", c)
    /\ fdtab' = Opened(Obj("session", c))
    /\ UNCHANGED <<zipfile, threads, network, receivers>>

\* A collector or an AUTH closes the session.
CloseSession(fd) ==
    /\ fd \in Sessions
    /\ fdtab' = Closed(fd)
    /\ UNCHANGED <<zipfile, threads, network, receivers>>

\* The operator's `log' command: a thread is given the descriptor of the session.
CmdLog(t, fd) ==
    /\ pc[t] = "unborn" /\ fd \in Sessions
    /\ Goto(t, "socket")
    /\ sock_req' = [sock_req EXCEPT ![t] = fd]
    /\ home' = [home EXCEPT ![t] = fdtab[fd][2]]
    /\ UNCHANGED <<tables, passive, fd_file_transfer, pos, rpc, backlog, peer,
                   chan, receivers>>

-----------------------------------------------------------------------------
(* handle_loq_req.  Every failure goes to `terminate'.                     *)

\* socket and setsockopt; the latter fails on descriptor -1.
Socket(t) ==
    /\ pc[t] = "socket"
    /\ passive' = [passive EXCEPT ![t] = NewFd]
    /\ fdtab' = Opened(Obj("passive", t))
    /\ Goto(t, IF NewFd = BadFd THEN "terminate" ELSE "bind")
    /\ UNCHANGED <<zipfile, sock_req, fd_file_transfer, pos, network, receivers>>

PortTaken == \E t \in Thread : Listening(t)

\* With SO_REUSEADDR bind fails only while another socket listens on the port.
Bind(t) ==
    /\ pc[t] = "bind"
    /\ Goto(t, IF PortTaken THEN "terminate" ELSE "listen")
    /\ UNCHANGED <<tables, sock_req, passive, fd_file_transfer, pos, network,
                   receivers>>

\* Mutant: whoever is bound to the port listens on it.
Bug_Listen(t) ==
    /\ pc[t] = "listen"
    /\ Goto(t, "setup")
    /\ fdtab' = [fdtab EXCEPT ![passive[t]] = Obj("listen", t)]
    /\ UNCHANGED <<zipfile, sock_req, passive, fd_file_transfer, pos, network,
                   receivers>>

\* Two sockets may have been bound to the port; one of them can listen on it.
Listen(t) ==
    /\ pc[t] = "listen"
    /\ IF PortTaken \/ At(passive[t]) # Obj("passive", t)
       THEN Goto(t, "terminate") /\ UNCHANGED fdtab
       ELSE /\ Goto(t, "setup")
            /\ fdtab' = [fdtab EXCEPT ![passive[t]] = Obj("listen", t)]
    /\ UNCHANGED <<zipfile, sock_req, passive, fd_file_transfer, pos, network,
                   receivers>>

\* FT_SETUP goes to whatever client has the descriptor now; it fails if the
\* descriptor is no session, or if the connection is broken or full.
WriteSetup(t) ==
    /\ pc[t] = "setup"
    /\ LET obj == At(sock_req[t])
       IN  \/ /\ obj[1] = "session"
              /\ home' = [home EXCEPT ![t] = obj[2]]
              /\ rpc' = [rpc EXCEPT ![t] = "setup"]
              /\ Goto(t, "accept")
           \/ Goto(t, "terminate") /\ UNCHANGED <<home, rpc>>
    /\ UNCHANGED <<tables, sock_req, passive, fd_file_transfer, pos, backlog,
                   peer, chan, receivers>>

\* accept waits for a receiver, whichever it is.  It fails at once when there is
\* no descriptor left; for some values of new_addr_len, which is not initialised,
\* it takes the receiver and hangs up on it.
Accept(t) ==
    /\ pc[t] = "accept"
    /\ \/ /\ NewFd # BadFd /\ backlog[t] # <<>> /\ Listening(t)
          /\ fdtab' = Opened(Obj("transfer", t))
          /\ fd_file_transfer' = [fd_file_transfer EXCEPT ![t] = NewFd]
          /\ Goto(t, "zip_open")
       \/ /\ \/ NewFd = BadFd \/ ~Listening(t)
             \/ backlog[t] # <<>>
          /\ fd_file_transfer' = [fd_file_transfer EXCEPT ![t] = BadFd]
          /\ Goto(t, "terminate")
          /\ UNCHANGED fdtab
    /\ backlog' = [backlog EXCEPT ![t] =
                      IF NewFd # BadFd /\ Listening(t) THEN Tail(@) ELSE @]
    /\ UNCHANGED <<zipfile, sock_req, passive, pos, home, rpc, peer, chan,
                   receivers>>

\* The file is created, or emptied if it exists.
ZipOpen(t) ==
    /\ pc[t] = "zip_open"
    /\ IF NewFd = BadFd
       THEN Goto(t, "terminate") /\ UNCHANGED tables
       ELSE /\ Goto(t, "zip_close")
            /\ zipfile' = <<>>
            /\ fdtab' = Opened(Obj("zip", t))
    /\ UNCHANGED <<sock_req, passive, fd_file_transfer, pos, network, receivers>>

\* The log is compressed and the file closed.  When an entry cannot be written
\* the thread leaves without closing it.
ZipClose(t) ==
    /\ pc[t] = "zip_close"
    /\ \/ /\ Goto(t, "begin")
          /\ zipfile' = Zipped(t)
          /\ fdtab' = [f \in Fd |-> IF fdtab[f] = Obj("zip", t) THEN Free
                                    ELSE fdtab[f]]
       \/ Goto(t, "terminate") /\ UNCHANGED tables
    /\ UNCHANGED <<sock_req, passive, fd_file_transfer, pos, network, receivers>>

\* get_file_MD5 and FT_BEGIN; the descriptor that was opened for the hash is
\* never closed.  fsize is that of the log, not of the file that is sent.
Begin(t) ==
    /\ pc[t] = "begin"
    /\ fdtab' = Opened(Obj("file", t))
    /\ IF NewFd = BadFd
       THEN Goto(t, "terminate") /\ UNCHANGED chan
       ELSE /\ chan' = Sent(fd_file_transfer[t], FtBegin(zipfile))
            /\ GotoWritten(t, "open")
    /\ UNCHANGED <<zipfile, sock_req, passive, fd_file_transfer, pos, home, rpc,
                   backlog, peer, receivers>>

\* fd_log, the second descriptor that stays open.
OpenLog(t) ==
    /\ pc[t] = "open"
    /\ fdtab' = Opened(Obj("file", t))
    /\ Goto(t, IF NewFd = BadFd THEN "terminate" ELSE "data")
    /\ UNCHANGED <<zipfile, sock_req, passive, fd_file_transfer, pos, network,
                   receivers>>

\* One iteration of the loop over the file: a block, or its end.
Data(t) ==
    /\ pc[t] = "data"
    /\ IF pos[t] >= Len(zipfile)
       THEN Goto(t, "terminate") /\ UNCHANGED <<chan, pos>>
       ELSE /\ chan' = Sent(fd_file_transfer[t], FtData(zipfile[pos[t] + 1]))
            /\ pos' = [pos EXCEPT ![t] = @ + 1]
            /\ GotoWritten(t, "data")
    /\ UNCHANGED <<tables, sock_req, passive, fd_file_transfer, home, rpc,
                   backlog, peer, receivers>>

\* `terminate': FT_FIN and the two closes, on whatever numbers the variables hold.
Terminate(t) ==
    /\ pc[t] = "terminate"
    /\ chan' = Sent(fd_file_transfer[t], FtFin)
    /\ Goto(t, "close")
    /\ UNCHANGED <<tables, sock_req, passive, fd_file_transfer, pos, home, rpc,
                   backlog, peer, receivers>>

\* Mutant: the thread hangs up on the client that asked for the log, too.
Bug_CloseTransfer(t) ==
    /\ pc[t] = "close"
    /\ fdtab' = [f \in Fd |-> IF f \in {fd_file_transfer[t], sock_req[t]} THEN Free
                              ELSE fdtab[f]]
    /\ Goto(t, "close_passive")
    /\ UNCHANGED <<zipfile, sock_req, passive, fd_file_transfer, pos, network,
                   receivers>>

CloseTransfer(t) ==
    /\ pc[t] = "close"
    /\ fdtab' = Closed(fd_file_transfer[t])
    /\ Goto(t, "close_passive")
    /\ UNCHANGED <<zipfile, sock_req, passive, fd_file_transfer, pos, network,
                   receivers>>

\* Mutant: the port is kept.
Bug_ClosePassive(t) ==
    /\ pc[t] = "close_passive"
    /\ Goto(t, "exit")
    /\ UNCHANGED <<tables, sock_req, passive, fd_file_transfer, pos, network,
                   receivers>>

ClosePassive(t) ==
    /\ pc[t] = "close_passive"
    /\ fdtab' = Closed(passive[t])
    /\ Goto(t, "exit")
    /\ UNCHANGED <<zipfile, sock_req, passive, fd_file_transfer, pos, network,
                   receivers>>

ThreadStep(t) ==
    \/ Socket(t) \/ Bind(t) \/ Listen(t) \/ WriteSetup(t) \/ Accept(t)
    \/ ZipOpen(t) \/ ZipClose(t) \/ Begin(t) \/ OpenLog(t) \/ Data(t)
    \/ Terminate(t) \/ CloseTransfer(t) \/ ClosePassive(t)

-----------------------------------------------------------------------------
(* recv_file, and the branch of the client's loop that starts it.          *)

\* FT_SETUP is received, the thread started, and connect succeeds if some thread
\* listens on the port and its queue has room.
Connect(r) ==
    /\ rpc[r] = "setup"
    /\ \/ \E t \in Thread :
            /\ Listening(t) /\ Len(backlog[t]) < 2
            /\ rpc' = [rpc EXCEPT ![r] = "connected"]
            /\ peer' = [peer EXCEPT ![r] = t]
            /\ backlog' = [backlog EXCEPT ![t] = Append(@, r)]
       \/ /\ \A t \in Thread : ~(Listening(t) /\ Len(backlog[t]) < 2)
          /\ rpc' = [rpc EXCEPT ![r] = "done"]
          /\ UNCHANGED <<peer, backlog>>
    /\ UNCHANGED <<tables, threads, home, chan, receivers>>

\* Mutant: open without O_EXCL.
Bug_OpenFile(r) ==
    /\ rpc[r] = "connected"
    /\ rcv_owner' = r
    /\ rpc' = [rpc EXCEPT ![r] = "recv"]
    /\ UNCHANGED <<tables, threads, home, backlog, peer, chan, last,
                   server_hash, my_hash, rcv_file, verdict>>

\* open with O_EXCL: only the first receiver gets the file.
OpenFile(r) ==
    /\ rpc[r] = "connected"
    /\ IF rcv_owner = Nobody
       THEN /\ rcv_owner' = r
            /\ rpc' = [rpc EXCEPT ![r] = "recv"]
       ELSE /\ rpc' = [rpc EXCEPT ![r] = "done"]
            /\ UNCHANGED rcv_owner
    /\ UNCHANGED <<tables, threads, home, backlog, peer, chan, last,
                   server_hash, my_hash, rcv_file, verdict>>

\* recv returned, with packet p in the buffer: the next one, or at end of file
\* (0 bytes) the one that was there.
Received(r, p) ==
    /\ rpc[r] = "recv"
    /\ \/ chan[r] # <<>> /\ p = Head(chan[r])
       \/ /\ chan[r] = <<>> /\ p = last[r]
          /\ r \notin ToSet(backlog[peer[r]]) /\ ~Connected(peer[r])
    /\ chan' = [chan EXCEPT ![r] = IF @ = <<>> THEN @ ELSE Tail(@)]
    /\ last' = [last EXCEPT ![r] = p]
    /\ UNCHANGED <<tables, threads, home, backlog, peer, rcv_owner>>

RecvBegin(r) == \E p \in ToSet(chan[r]) \cup {last[r]} :
    /\ p.mtype = "FT_BEGIN"
    /\ Received(r, p)
    /\ server_hash' = [server_hash EXCEPT ![r] = p.hash]
    /\ my_hash' = [my_hash EXCEPT ![r] = <<>>]
    /\ UNCHANGED <<rpc, rcv_file, verdict>>

\* A block is written and added to the hash.
RecvData(r) == \E p \in ToSet(chan[r]) \cup {last[r]} :
    /\ p.mtype = "FT_DATA" /\ Len(rcv_file) < MaxFile
    /\ Received(r, p)
    /\ rcv_file' = rcv_file \o p.hash
    /\ my_hash' = [my_hash EXCEPT ![r] = @ \o p.hash]
    /\ UNCHANGED <<rpc, server_hash, verdict>>

\* Mutant: an FT_BEGIN before FT_FIN is enough.
Bug_RecvFin(r) == \E p \in ToSet(chan[r]) \cup {last[r]} :
    /\ p.mtype = "FT_FIN"
    /\ Received(r, p)
    /\ verdict' = [verdict EXCEPT ![r] =
                      IF last[r].mtype # "none" THEN "intact" ELSE "damaged"]
    /\ rpc' = [rpc EXCEPT ![r] = "done"]
    /\ UNCHANGED <<server_hash, my_hash, rcv_file>>

\* The hashes are compared.  Without an FT_BEGIN both are whatever was in memory.
RecvFin(r) == \E p \in ToSet(chan[r]) \cup {last[r]} :
    /\ p.mtype = "FT_FIN"
    /\ Received(r, p)
    /\ verdict' = [verdict EXCEPT ![r] =
                      IF my_hash[r] = server_hash[r] /\ last[r].mtype # "none"
                      THEN "intact" ELSE "damaged"]
    /\ rpc' = [rpc EXCEPT ![r] = "done"]
    /\ UNCHANGED <<server_hash, my_hash, rcv_file>>

\* recv returns -1: the server closed the port before it accepted r.  Or a block
\* cannot be written (the disk is full).
RecvFails(r) ==
    /\ rpc[r] = "recv"
    /\ \/ r \in ToSet(backlog[peer[r]]) /\ ~Listening(peer[r])
       \/ chan[r] # <<>> /\ Head(chan[r]).mtype = "FT_DATA"
    /\ rpc' = [rpc EXCEPT ![r] = "done"]
    /\ UNCHANGED <<tables, threads, home, backlog, peer, chan, receivers>>

\* The client's process dies.
ClientDies(r) ==
    /\ "client" \in Mortal
    /\ rpc[r] \in {"setup", "connected", "recv"}
    /\ rpc' = [rpc EXCEPT ![r] = "dead"]
    /\ UNCHANGED <<tables, threads, home, backlog, peer, chan, receivers>>

\* The server's process dies, and the kernel closes all it had.
ServerDies ==
    /\ "server" \in Mortal
    /\ pc' = [t \in Thread |-> "exit"]
    /\ fdtab' = [f \in Fd |-> Obj("dead", Nobody)]
    /\ UNCHANGED <<zipfile, sock_req, passive, fd_file_transfer, pos, network,
                   receivers>>

ReceiverStep(r) ==
    \/ Connect(r) \/ OpenFile(r) \/ RecvBegin(r) \/ RecvData(r) \/ RecvFin(r)
    \/ RecvFails(r)

MainLoop ==
    \/ \E c \in Client : AcceptSession(c)
    \/ \E fd \in Fd : CloseSession(fd)
    \/ \E t \in Thread, fd \in Fd : CmdLog(t, fd)

Next ==
    \/ MainLoop
    \/ \E t \in Thread : ThreadStep(t)
    \/ \E r \in Thread : ReceiverStep(r) \/ ClientDies(r)
    \/ ServerDies

Spec == Init /\ [][Next]_vars

\* Threads that can run do run, on both sides; the main loops owe nothing.
FairSpec ==
    /\ Spec
    /\ \A t \in Thread : WF_vars(ThreadStep(t)) /\ WF_vars(ReceiverStep(t))

-----------------------------------------------------------------------------
(* What should be true.                                                    *)

TypeOK ==
    /\ fdtab \in [Fd -> {"free", "stdin", "session", "passive", "listen",
                         "transfer", "zip", "file", "dead"}
                            \X (Client \cup Thread \cup {Nobody})]
    /\ pc \in [Thread -> {"unborn", "socket", "bind", "listen", "setup",
                          "accept", "zip_open", "zip_close", "begin", "open",
                          "data", "terminate", "close", "close_passive", "exit"}]
    /\ sock_req \in [Thread -> Fd \cup {BadFd}]
    /\ passive \in [Thread -> Fd \cup {BadFd}]
    /\ fd_file_transfer \in [Thread -> Nat \cup {BadFd}]
    /\ pos \in [Thread -> Nat]
    /\ home \in [Thread -> Client \cup {Nobody}]
    /\ rpc \in [Thread -> {"unborn", "setup", "connected", "recv", "done", "dead"}]
    /\ backlog \in [Thread -> Seq(Thread)]
    /\ peer \in [Thread -> Thread \cup {Nobody}]
    /\ rcv_owner \in Thread \cup {Nobody}
    /\ verdict \in [Thread -> {"none", "intact", "damaged"}]

\* Only one thread at a time works with log_comprimido.zip.  Nothing in the
\* source says so: it follows from the port, which two threads can be bound to
\* but only one can listen on, as long as nobody closes that thread's socket.
OneTransfer ==
    /\ TypeOK
    /\ \A t, u \in Thread :
         LET zipping == {"zip_open", "zip_close", "begin", "open", "data"}
         IN  pc[t] \in zipping /\ pc[u] \in zipping => t = u

\* What a receiver writes is the beginning of the file of the one transfer it
\* reads from: no block twice, none of another transfer, none skipped.  (When the
\* connection ends without FT_FIN, the last block is written over and over.)
FileOfTransfer ==
    (/\ rcv_owner # Nobody /\ rcv_file # <<>>
     /\ Connected(peer[rcv_owner]) \/ verdict[rcv_owner] # "none") =>
        IsPrefix(rcv_file, Zipped(peer[rcv_owner]))

\* A receiver says that the file is intact only if it has all of it, however the
\* transfer was cut short.
VerdictRight ==
    \A r \in Thread : verdict[r] = "intact" =>
        rcv_owner = r /\ rcv_file = Zipped(peer[r])

\* A thread closes no session: `terminate' is also reached before the variables
\* it closes have a value.
SessionsUntouched ==
    [][\A f \in Sessions :
         fdtab'[f] # fdtab[f] => UNCHANGED pc \/ fdtab'[f][1] = "dead"]_vars

\* README.md:23: the log goes to the client that the command names.
RightRecipient ==
    [][\A t \in Thread :
         pc[t] = "setup" /\ pc'[t] = "accept" => home'[t] = home[t]]_vars

\* srv_util.c:256: the client is told the size of the file it is sent.
SizeOfFile ==
    \A r \in Thread : \A p \in ToSet(chan[r]) :
        p.mtype = "FT_BEGIN" => p.fsize = Len(p.hash)

\* srv.c:27: what limits the sessions is how many there are; a transfer that is
\* over takes no descriptor away.
DescriptorsReturned ==
    (\A t \in Thread : pc[t] \in {"unborn", "exit"}) =>
        \A f \in Fd : fdtab[f][1] \notin {"passive", "listen", "transfer", "zip",
                                          "file"}

-----------------------------------------------------------------------------
(* Progress, under FairSpec.                                               *)

\* The port is given back, so that the next command can be served, unless a
\* client dies on the way.
PortFreed ==
    \A t \in Thread :
        Listening(t) ~> ~Listening(t) \/ \E r \in Thread : rpc[r] = "dead"

\* Informe.md:64: in the end the client compares the hashes of the file it was
\* sent.
ClientChecks ==
    \A r \in Thread :
        rpc[r] = "recv" /\ last[r].mtype = "FT_DATA" ~> rpc[r] # "recv"
=============================================================================
