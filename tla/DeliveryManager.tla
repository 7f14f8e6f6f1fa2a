-------------------------- MODULE DeliveryManager --------------------------
(***************************************************************************)
(* The server (server/src/srv.c and srv_util.c): a single-threaded loop    *)
(* that polls its clients, takes one command of the operator and one       *)
(* message of a producer, and then collects dead sessions and old packets. *)
(* pc is the part of the loop that runs; one action is one event handler   *)
(* or one iteration of an inner loop.  Between two actions the other       *)
(* processes may do anything; within one, the clock reads the same.        *)
(*                                                                         *)
(* Indices of lists start at 1 here, and 0 is list_find's -1.              *)
(***************************************************************************)
EXTENDS Ipc

CONSTANTS
    RandRoom,              \* the producer that sends a string
    CONN_TIMEOUT,          \* seconds without an ACK before a session is dead
    BUFFER_CLEANUP_PERIOD, \* seconds between two cleanings of the buffer
    MaxTokens,             \* bound on the sessions ever opened
    StaleStack             \* TRUE: a read that returns 0 bytes leaves the
                           \* packet read before in the stack slot

ASSUME ServerAssumption ==
    /\ CONN_TIMEOUT \in Nat /\ BUFFER_CLEANUP_PERIOD \in Nat
    /\ MaxTokens \in Nat
    /\ StaleStack \in BOOLEAN

VARIABLES
    connections,    \* list of connection_t
    susc_room,      \* per producer, the list of subscribed descriptors
    buffer_packets, \* packets kept for reconnections, newest first
    last_gc_time,   \* last cleaning of the buffer
    epoll,          \* descriptors of clients in epollfd
    events,         \* events of this epoll_wait that are still to be handled
    packet,         \* the stack slot of the packet that is read
    orig_conn,      \* index of the session whose packets are sent again
    iter,           \* node the loop over buffer_packets has reached
    owner,          \* client that was sent each token, in order of issue
    ft_threads,     \* descriptors handed to file transfer threads
    pc              \* part of the loop; "crashed" after a segmentation fault

server == <<connections, susc_room, buffer_packets, last_gc_time, epoll,
            events, packet, orig_conn, iter, owner, ft_threads, pc>>

resending == <<orig_conn, iter>>

Connection == [sockfd : Fd \cup {BadFd}, token : Nat, susc_counter : Int,
               timestamp : Nat]

Listen   == <<"listen", BadFd>>
In(fd)   == <<"in", fd>>
Hup(fd)  == <<"hup", fd>>
Event    == {"listen", "in", "hup"} \X (Fd \cup {BadFd})

ServerTypeOK ==
    /\ connections \in Seq(Connection)
    /\ susc_room \in [Room -> Seq(Fd \cup {BadFd})]
    /\ buffer_packets \in Seq(Packet)
    /\ last_gc_time \in Nat
    /\ epoll \subseteq Fd
    /\ events \subseteq Event
    /\ packet \in Packet
    /\ orig_conn \in Nat /\ iter \in Nat
    /\ owner \in Seq(Client \cup {NoClient})
    /\ ft_threads \in Seq(Fd \cup {BadFd})
    /\ pc \in {"poll", "events", "resend", "cli", "mq", "gc_conn",
                "gc_conn_loop", "gc_pkt", "gc_pkt_loop", "crashed"}

ServerInit ==
    /\ connections = <<>>
    /\ susc_room = [r \in Room |-> <<>>]
    /\ buffer_packets = <<>>
    /\ last_gc_time = 0
    /\ epoll = {}
    /\ events = {}
    /\ packet = Garbage
    /\ orig_conn = 0 /\ iter = 0
    /\ owner = <<>>
    /\ ft_threads = <<>>
    /\ pc = "poll"

-----------------------------------------------------------------------------
(* Lists.                                                                  *)

\* list_find(&aux, connections), which compares tokens.
FindToken(list, t) == SelectInSeq(list, LAMBDA conn : conn.token = t)

\* Mutant: the entry stays in the list.
Bug_DeleteToken(list, t) == list

\* list_delete(list_find(&aux, connections), connections).
DeleteToken(list, t) ==
    IF FindToken(list, t) = 0 THEN list ELSE RemoveAt(list, FindToken(list, t))

\* list_find(&fd, room).
FindFd(room, fd) == SelectInSeq(room, LAMBDA entry : entry = fd)

\* list_delete(list_find(&fd, room), room); list_delete refuses index -1.
DeleteFd(room, fd) ==
    IF FindFd(room, fd) = 0 THEN room ELSE RemoveAt(room, FindFd(room, fd))

\* Mutant: the rooms keep the old descriptor.
Bug_ReplaceFd(room, fd, new) == room

\* The node that holds fd is given new.
ReplaceFd(room, fd, new) ==
    IF FindFd(room, fd) = 0
    THEN room ELSE [room EXCEPT ![FindFd(room, fd)] = new]

-----------------------------------------------------------------------------
(* epoll_wait and the clients' events.                                     *)

\* Level-triggered.  MAX_EVENT_NUMBER exceeds the limit of descriptors, so one
\* call returns every event; MaxTokens bounds the failed accepts of the model.
Ready ==
    (IF backlog # <<>> /\ Len(owner) < MaxTokens THEN {Listen} ELSE {})
    \cup {Hup(fd) : fd \in {f \in epoll : At(f) \in reset}}
    \cup {In(fd) : fd \in {f \in epoll :
             /\ At(f) \in Client \ reset
             /\ up[At(f)] # <<>> \/ peer[At(f)] = "closed"}}

Poll ==
    /\ pc = "poll"
    /\ events' = Ready
    /\ pc' = IF Ready = {} THEN "cli" ELSE "events"
    /\ UNCHANGED <<ipc, connections, susc_room, buffer_packets, last_gc_time,
                   epoll, packet, resending, owner, ft_threads>>

\* The handler of e is the next to run.  epoll reports the descriptors in the
\* order in which they became ready: any order.
Handling(e) == pc = "events" /\ e \in events

\* ... and it is done: the for loop goes on, or ends.
Handled(e) ==
    /\ events' = events \ {e}
    /\ pc' = IF events = {e} THEN "cli" ELSE "events"

\* Mutant: the session starts one second old.
Bug_NewConnection(fd) ==
    [sockfd |-> fd, token |-> Len(owner) + 1, susc_counter |-> 0,
     timestamp |-> now - 1]

NewConnection(fd) ==
    [sockfd |-> fd, token |-> Len(owner) + 1, susc_counter |-> 0,
     timestamp |-> now]

\* A new connection.  Tokens are numbered in the order of the calls of rand().
Accept ==
    /\ Handling(Listen)
    /\ FreeFd # {}
    /\ LET connfd == Min(FreeFd)
           c      == Head(backlog)
           hello  == Control("CONN_ACCEPTED", <<Len(owner) + 1>>)
       IN  /\ fdtab' = [fdtab EXCEPT ![connfd] = c]
           /\ epoll' = epoll \cup {connfd}
           /\ down' = [down EXCEPT ![c] = IF c \in reset THEN @
                                          ELSE Push(@, <<hello>>)]
           /\ owner' = Append(owner, c)
           /\ connections' = Append(connections, NewConnection(connfd))
    /\ backlog' = Tail(backlog)
    /\ Handled(Listen)
    /\ UNCHANGED <<up, peer, reset, fifo, mq, now, susc_room, buffer_packets,
                   last_gc_time, packet, resending, ft_threads>>

\* No descriptor is left (EMFILE): accept fails, the connection stays in the
\* backlog, and the server goes on with -1 as if it were a client.
AcceptFails ==
    /\ Handling(Listen)
    /\ FreeFd = {}
    /\ owner' = Append(owner, NoClient)
    /\ connections' = Append(connections, NewConnection(BadFd))
    /\ Handled(Listen)
    /\ UNCHANGED <<ipc, susc_room, buffer_packets, last_gc_time, epoll, packet,
                   resending, ft_threads>>

\* Mutant: the session of the descriptor is forgotten at once.
Bug_HangUp(fd) ==
    /\ Handling(Hup(fd))
    /\ epoll' = epoll \ {fd}
    /\ connections' = SelectSeq(connections, LAMBDA conn : conn.sockfd # fd)
    /\ Handled(Hup(fd))
    /\ UNCHANGED <<ipc, susc_room, buffer_packets, last_gc_time, packet,
                   resending, owner, ft_threads>>

\* EPOLLHUP: the descriptor is no longer polled.  It stays open, and its
\* session, if there is one, waits for a reconnection or for the collector.
HangUp(fd) ==
    /\ Handling(Hup(fd))
    /\ epoll' = epoll \ {fd}
    /\ Handled(Hup(fd))
    /\ UNCHANGED <<ipc, connections, susc_room, buffer_packets, last_gc_time,
                   packet, resending, owner, ft_threads>>

\* What `packet' can hold after read(fd): the next packet; at the end of file,
\* which a reset that follows it does not hide, whatever was in the stack slot
\* (the packets that other branches of the loop may have built there are no more
\* use to this one than Garbage).
Buffered(fd) ==
    LET c == At(fd)
    IN  IF c = NoClient THEN {}
        ELSE IF up[c] # <<>> THEN {Head(up[c])}
        ELSE IF peer[c] = "closed" THEN {packet, Garbage}
        ELSE {}

AfterRead(fd) ==
    [c \in Client |->
        IF c = At(fd) /\ up[c] # <<>> THEN Tail(up[c]) ELSE up[c]]

\* read returned p in the handler of EPOLLIN on fd.
Read(fd, p) ==
    /\ Handling(In(fd))
    /\ p \in Buffered(fd)
    /\ packet' = IF StaleStack THEN p ELSE Garbage

\* read returns -1: EBADF, EAGAIN, or ECONNRESET when the reset came first.
ReadFails(fd) ==
    /\ Handling(In(fd))
    /\ Buffered(fd) = {} \/ (At(fd) \in reset /\ up[At(fd)] = <<>>)
    /\ Handled(In(fd))
    /\ UNCHANGED <<ipc, connections, susc_room, buffer_packets, last_gc_time,
                   epoll, packet, resending, owner, ft_threads>>

\* The hash is wrong: next event.
ReadInvalid(fd) == \E p \in Buffered(fd) :
    /\ Read(fd, p)
    /\ ~check_packet_MD5(p)
    /\ up' = AfterRead(fd)
    /\ Handled(In(fd))
    /\ UNCHANGED <<fdtab, backlog, down, peer, reset, fifo, mq, now,
                   connections, susc_room, buffer_packets, last_gc_time, epoll,
                   resending, owner, ft_threads>>

\* An ACK is a sign of life of the session it names, on whatever connection it
\* comes.
RecvAck(fd) == \E p \in Buffered(fd) :
    /\ Read(fd, p)
    /\ check_packet_MD5(p) /\ p.mtype = "ACK"
    /\ FindToken(connections, p.payload[1]) # 0
    /\ connections' =
         [connections EXCEPT ![FindToken(connections, p.payload[1])].timestamp
             = now]
    /\ up' = AfterRead(fd)
    /\ Handled(In(fd))
    /\ UNCHANGED <<fdtab, backlog, down, peer, reset, fifo, mq, now, susc_room,
                   buffer_packets, last_gc_time, epoll, resending, owner,
                   ft_threads>>

\* list_find gives -1, list_get gives NULL, and the timestamp of NULL is
\* written: the server dies.  Nothing of it runs any more.
RecvUnknownAck(fd) == \E p \in Buffered(fd) :
    /\ Read(fd, p)
    /\ check_packet_MD5(p) /\ p.mtype = "ACK"
    /\ FindToken(connections, p.payload[1]) = 0
    /\ up' = AfterRead(fd)
    /\ events' = {}
    /\ pc' = "crashed"
    /\ UNCHANGED <<fdtab, backlog, down, peer, reset, fifo, mq, now,
                   connections, susc_room, buffer_packets, last_gc_time, epoll,
                   resending, owner, ft_threads>>

\* AUTH fails because one of its tokens is not in the list.  When the old one
\* is missing, the entry of the new one is gone already; the descriptor stays
\* open either way.
RecvAuthRejected(fd) == \E p \in Buffered(fd) :
    /\ Read(fd, p)
    /\ check_packet_MD5(p) /\ p.mtype = "AUTH"
    /\ LET rest == DeleteToken(connections, p.payload[2])
       IN  /\ \/ FindToken(connections, p.payload[2]) = 0
              \/ FindToken(rest, p.payload[1]) = 0
           /\ connections' = rest
    /\ up' = AfterRead(fd)
    /\ down' = Written(To(fd, <<Control("FIN", <<>>)>>))
    /\ Handled(In(fd))
    /\ UNCHANGED <<fdtab, backlog, peer, reset, fifo, mq, now, susc_room,
                   buffer_packets, last_gc_time, epoll, resending, owner,
                   ft_threads>>

\* AUTH succeeds: the new entry is deleted, the old session moves to this
\* descriptor in the rooms and in its entry, and its old descriptor is closed.
RecvAuthAccepted(fd) == \E p \in Buffered(fd) :
    /\ Read(fd, p)
    /\ check_packet_MD5(p) /\ p.mtype = "AUTH"
    /\ FindToken(connections, p.payload[2]) # 0
    /\ LET rest == DeleteToken(connections, p.payload[2])
           iOld == FindToken(rest, p.payload[1])
           orig == rest[iOld]
       IN  /\ iOld # 0
           /\ susc_room' =
                [r \in Room |-> ReplaceFd(susc_room[r], orig.sockfd, fd)]
           /\ fdtab' = Closed(orig.sockfd)
           /\ epoll' = epoll \ {orig.sockfd}
           /\ up' = Drained(orig.sockfd, AfterRead(fd))
           /\ connections' = [rest EXCEPT ![iOld].sockfd = fd]
           /\ orig_conn' = iOld
    /\ iter' = 1
    /\ events' = events \ {In(fd)}
    /\ pc' = "resend"
    /\ UNCHANGED <<backlog, down, peer, reset, fifo, mq, now, buffer_packets,
                   last_gc_time, owner, ft_threads>>

\* A packet is sent again if it is not older than the last sign of life of the
\* session.
ToResend(conn, p) == ~(conn.timestamp > p.timestamp)

\* One iteration of the loop over buffer_packets.
Resend ==
    /\ pc = "resend" /\ iter <= Len(buffer_packets)
    /\ LET conn == connections[orig_conn]
           p    == buffer_packets[iter]
       IN  down' = Written(To(conn.sockfd,
                              IF ToResend(conn, p) THEN <<p>> ELSE <<>>))
    /\ iter' = iter + 1
    /\ UNCHANGED <<fdtab, backlog, up, peer, reset, fifo, mq, now, connections,
                   susc_room, buffer_packets, last_gc_time, epoll, events,
                   packet, orig_conn, owner, ft_threads, pc>>

Resent ==
    /\ pc = "resend" /\ iter > Len(buffer_packets)
    /\ orig_conn' = 0 /\ iter' = 0
    /\ pc' = IF events = {} THEN "cli" ELSE "events"
    /\ UNCHANGED <<ipc, connections, susc_room, buffer_packets, last_gc_time,
                   epoll, events, packet, owner, ft_threads>>

ClientEvent ==
    \/ Accept \/ AcceptFails
    \/ \E fd \in Fd : HangUp(fd)
    \/ \E fd \in Fd : ReadFails(fd)
    \/ \E fd \in Fd : ReadInvalid(fd)
    \/ \E fd \in Fd : RecvAck(fd)
    \/ \E fd \in Fd : RecvUnknownAck(fd)
    \/ \E fd \in Fd : RecvAuthRejected(fd)
    \/ \E fd \in Fd : RecvAuthAccepted(fd)
    \/ Resend \/ Resent

-----------------------------------------------------------------------------
(* The operator's commands: at most one per iteration.                     *)

\* Mutant: without a command the iteration skips the queue.
Bug_NoCommand ==
    /\ pc = "cli" /\ fifo = <<>>
    /\ pc' = "gc_conn"
    /\ UNCHANGED <<ipc, connections, susc_room, buffer_packets, last_gc_time,
                   epoll, events, packet, resending, owner, ft_threads>>

NoCommand ==
    /\ pc = "cli" /\ fifo = <<>>
    /\ pc' = "mq"
    /\ UNCHANGED <<ipc, connections, susc_room, buffer_packets, last_gc_time,
                   epoll, events, packet, resending, owner, ft_threads>>

\* The next command is cmd, on entry i of the list; i is 0 if no entry has the
\* token it names.
Commanded(cmd, i) ==
    /\ pc = "cli" /\ fifo # <<>>
    /\ cmd = Head(fifo)
    /\ i = FindToken(connections, cmd.socket)
    /\ fifo' = Tail(fifo)
    /\ pc' = "mq"

\* Mutant: nobody looks whether the descriptor is in the room.
Bug_Subscribed(cmd, i) == FALSE

Subscribed(cmd, i) ==
    FindFd(susc_room[cmd.productor], connections[i].sockfd) # 0

\* Unknown token, unknown producer, add of what is there or delete of what is
\* not: the command has no effect at all.
RefuseCommand ==
    /\ \E cmd \in ToSet(fifo), i \in 0 .. Len(connections) :
         /\ Commanded(cmd, i)
         /\ i # 0 => cmd.type # "log"
         /\ i # 0 /\ cmd.productor \in Room =>
                Subscribed(cmd, i) = (cmd.type = "add")
    /\ UNCHANGED <<tcp, mq, now, connections, susc_room, buffer_packets,
                   last_gc_time, epoll, events, packet, resending, owner,
                   ft_threads>>

CmdAdd ==
    /\ \E cmd \in ToSet(fifo), i \in DOMAIN connections :
         LET conn == connections[i]
         IN  /\ Commanded(cmd, i)
             /\ cmd.type = "add" /\ cmd.productor \in Room
             /\ ~Subscribed(cmd, i)
             /\ susc_room' =
                  [susc_room EXCEPT ![cmd.productor] = Append(@, conn.sockfd)]
             /\ connections' =
                  [connections EXCEPT ![i].susc_counter = @ + 1,
                                      ![i].timestamp = now]
             /\ down' = Written(To(conn.sockfd,
                                   <<Control("CLI_ACCEPTED", <<>>)>>))
    /\ UNCHANGED <<fdtab, backlog, up, peer, reset, mq, now, buffer_packets,
                   last_gc_time, epoll, events, packet, resending, owner,
                   ft_threads>>

CmdDel ==
    /\ \E cmd \in ToSet(fifo), i \in DOMAIN connections :
         LET conn == connections[i]
         IN  /\ Commanded(cmd, i)
             /\ cmd.type = "delete" /\ cmd.productor \in Room
             /\ Subscribed(cmd, i)
             /\ susc_room' =
                  [susc_room EXCEPT ![cmd.productor] = DeleteFd(@, conn.sockfd)]
             /\ connections' =
                  [connections EXCEPT ![i].susc_counter = @ - 1,
                                      ![i].timestamp = now]
    /\ UNCHANGED <<tcp, mq, now, buffer_packets, last_gc_time, epoll, events,
                   packet, resending, owner, ft_threads>>

\* A thread is given the descriptor the session has now.
CmdLog ==
    /\ \E cmd \in ToSet(fifo), i \in DOMAIN connections :
         /\ Commanded(cmd, i)
         /\ cmd.type = "log"
         /\ ft_threads' = Append(ft_threads, connections[i].sockfd)
         /\ connections' = [connections EXCEPT ![i].timestamp = now]
    /\ UNCHANGED <<tcp, mq, now, susc_room, buffer_packets, last_gc_time, epoll,
                   events, packet, resending, owner>>

CliEvent == NoCommand \/ RefuseCommand \/ CmdAdd \/ CmdDel \/ CmdLog

-----------------------------------------------------------------------------
(* The producers' messages: at most one per iteration.                     *)

NoMessage ==
    /\ pc = "mq" /\ mq = <<>>
    /\ pc' = "gc_conn"
    /\ UNCHANGED <<ipc, connections, susc_room, buffer_packets, last_gc_time,
                   epoll, events, packet, resending, owner, ft_threads>>

\* Mutant: the stamp of the producer is put off by the time the message waited.
Bug_DataPacket(m, fits) ==
    [gen_packet("DATA", <<m.id, m.n>>, m.timestamp, fits)
        EXCEPT !.timestamp = now]

\* The DATA packet of m.  Its hash is taken over the time of gen_packet; the
\* timestamp of the producer is put in its place afterwards.  The string of
\* RandRoom has no terminator, so its length is what the stack makes it.
DataPacket(m, fits) ==
    [gen_packet("DATA", <<m.id, m.n>>, now, fits)
        EXCEPT !.timestamp = m.timestamp]

\* Mutant: the packet is sent to the first of the room before the loop as well.
Bug_Broadcast(room, p) ==
    [c \in Client |->
        LET copies == Cardinality({i \in DOMAIN room : At(room[i]) = c})
        IN  [i \in 1 .. IF room # <<>> /\ At(room[1]) = c THEN copies + 1
                        ELSE copies |-> p]]

\* broadcast_room: the packets each client gets, one per entry of the room
\* that holds the descriptor of its connection.
Broadcast(room, p) ==
    [c \in Client |->
        LET copies == Cardinality({i \in DOMAIN room : At(room[i]) = c})
        IN  [i \in 1 .. copies |-> p]]

MqReceive ==
    /\ pc = "mq" /\ mq # <<>>
    /\ \E fits \in IF Head(mq).id = RandRoom THEN BOOLEAN ELSE {TRUE} :
         LET m == Head(mq)
             p == DataPacket(m, fits)
         IN  /\ down' = Written(Broadcast(susc_room[m.id], p))
             /\ buffer_packets' = <<p>> \o buffer_packets
    /\ mq' = Tail(mq)
    /\ pc' = "gc_conn"
    /\ UNCHANGED <<fdtab, backlog, up, peer, reset, fifo, now, connections,
                   susc_room, last_gc_time, epoll, events, packet, resending,
                   owner, ft_threads>>

-----------------------------------------------------------------------------
(* The collectors.                                                         *)

Expired(conn) == now - conn.timestamp > CONN_TIMEOUT /\ conn.susc_counter > 0

\* Mutant: the comparison is the wrong way round.
Bug_GcDue == now < CONN_TIMEOUT

\* last_time_cleanup is the start of the server and is never updated, so the
\* period only delays the first collection.
GcDue == now >= CONN_TIMEOUT

\* garb_collec_old_conn reads the clock: nothing to do, or the loop begins.
CollectConnections ==
    /\ pc = "gc_conn"
    /\ pc' = IF GcDue THEN "gc_conn_loop" ELSE "gc_pkt"
    /\ UNCHANGED <<ipc, connections, susc_room, buffer_packets, last_gc_time,
                   epoll, events, packet, resending, owner, ft_threads>>

\* One iteration that finds a dead session: the first one left in the list.
CollectConnection ==
    /\ pc = "gc_conn_loop"
    /\ \E i \in DOMAIN connections :
         LET conn == connections[i]
         IN  /\ Expired(conn)
             /\ \A j \in 1 .. i - 1 : ~Expired(connections[j])
             /\ down' = Written(To(conn.sockfd, <<Control("FIN", <<>>)>>))
             /\ epoll' = epoll \ {conn.sockfd}
             /\ susc_room' =
                  [r \in Room |-> DeleteFd(susc_room[r], conn.sockfd)]
             /\ fdtab' = Closed(conn.sockfd)
             /\ up' = Drained(conn.sockfd, up)
             /\ connections' = RemoveAt(connections, i)
    /\ UNCHANGED <<backlog, peer, reset, fifo, mq, now, buffer_packets,
                   last_gc_time, events, packet, resending, owner, ft_threads,
                   pc>>

ConnectionsCollected ==
    /\ pc = "gc_conn_loop"
    /\ \A i \in DOMAIN connections : ~Expired(connections[i])
    /\ pc' = "gc_pkt"
    /\ UNCHANGED <<ipc, connections, susc_room, buffer_packets, last_gc_time,
                   epoll, events, packet, resending, owner, ft_threads>>

\* Mutant: a packet as old as the timeout is dropped.
Bug_Outdated(p) == now - p.timestamp >= CONN_TIMEOUT

Outdated(p) == now - p.timestamp > CONN_TIMEOUT

\* garb_collec_old_packets reads the clock again.
CollectPackets ==
    /\ pc = "gc_pkt"
    /\ pc' = IF now - last_gc_time < BUFFER_CLEANUP_PERIOD
             THEN "poll" ELSE "gc_pkt_loop"
    /\ UNCHANGED <<ipc, connections, susc_room, buffer_packets, last_gc_time,
                   epoll, events, packet, resending, owner, ft_threads>>

\* One iteration that finds an old packet.
CollectPacket ==
    /\ pc = "gc_pkt_loop"
    /\ \E i \in DOMAIN buffer_packets :
         /\ Outdated(buffer_packets[i])
         /\ \A j \in 1 .. i - 1 : ~Outdated(buffer_packets[j])
         /\ buffer_packets' = RemoveAt(buffer_packets, i)
    /\ UNCHANGED <<ipc, connections, susc_room, last_gc_time, epoll, events,
                   packet, resending, owner, ft_threads, pc>>

PacketsCollected ==
    /\ pc = "gc_pkt_loop"
    /\ \A i \in DOMAIN buffer_packets : ~Outdated(buffer_packets[i])
    /\ last_gc_time' = now
    /\ pc' = "poll"
    /\ UNCHANGED <<ipc, connections, susc_room, buffer_packets, epoll, events,
                   packet, resending, owner, ft_threads>>

ServerStep ==
    \/ Poll \/ ClientEvent \/ CliEvent
    \/ NoMessage \/ MqReceive
    \/ CollectConnections \/ CollectConnection \/ ConnectionsCollected
    \/ CollectPackets \/ CollectPacket \/ PacketsCollected

\* A file transfer thread starts: it tells the client where to connect, through
\* the descriptor number it was given, unless it fails to set up its own socket
\* (its port is fixed, and another transfer may hold it).
FtSetup ==
    /\ pc # "crashed"
    /\ \E i \in DOMAIN ft_threads :
         /\ \/ down' = Written(To(ft_threads[i], <<Control("FT_SETUP", <<>>)>>))
            \/ UNCHANGED down
         /\ ft_threads' = RemoveAt(ft_threads, i)
    /\ UNCHANGED <<fdtab, backlog, up, peer, reset, fifo, mq, now, connections,
                   susc_room, buffer_packets, last_gc_time, epoll, events,
                   packet, resending, owner, pc>>
=============================================================================
