---------------------------- MODULE SystemProps ----------------------------
(***************************************************************************)
(* What should be true of the system.  The first parts hold; the last one  *)
(* states what the documents and comments of the repository say and the    *)
(* code does not do.                                                       *)
(***************************************************************************)
EXTENDS System

LiveTokens == {connections[i].token : i \in DOMAIN connections}

InRoom(fd, r) == fd \in ToSet(susc_room[r])

\* Sessions with a socket.  The others are left by an accept that failed.
Sessions == {conn \in ToSet(connections) : conn.sockfd # BadFd}

-----------------------------------------------------------------------------
(* Sessions and rooms.                                                     *)

\* A session is one client's: its descriptor is open and no other entry has
\* it, and whoever is at the other end was issued its token or presented it to
\* recover the session.  (A descriptor that is closed and reused in the middle
\* of an epoll batch must not leave two entries, or an entry of a stranger.)
SessionOwned ==
    \A i \in DOMAIN connections :
        LET conn == connections[i]
            c    == At(conn.sockfd)
        IN  conn.sockfd # BadFd =>
              /\ c \in Client
              /\ owner[conn.token] = c \/ old[c] = conn.token
              /\ \A j \in DOMAIN connections \ {i} :
                    /\ connections[j].sockfd # conn.sockfd
                    /\ connections[j].token # conn.token

\* A room names a descriptor once, and only descriptors of sessions: a
\* broadcast reaches no one twice, and no stranger who was given the number of
\* a session that is gone.
RoomsExact ==
    \A r \in Room : \A i \in DOMAIN susc_room[r] :
        LET fd == susc_room[r][i]
        IN  fd # BadFd =>
              /\ \E conn \in Sessions : conn.sockfd = fd
              /\ \A j \in DOMAIN susc_room[r] \ {i} : susc_room[r][j] # fd

\* susc_counter is the number of rooms the session is in, whatever commands,
\* reconnections and collections it has been through: it is what decides
\* whether the collector may take the session.
CounterExact ==
    \A conn \in Sessions :
        conn.susc_counter =
            Cardinality({r \in Room : InRoom(conn.sockfd, r)})

\* The only descriptors the server forgets to close are those of clients whose
\* AUTH named a session that is gone.
LeakOnlyRejected ==
    \A fd \in Fd : fdtab[fd] # NoClient =>
        \/ \E conn \in Sessions : conn.sockfd = fd
        \/ old[fdtab[fd]] \notin LiveTokens \cup {0}

\* An ACK on its way from a client that was started without -t names a live
\* session: such a client cannot make the server dereference NULL.
AckOfPlainClientSafe ==
    \A fd \in Fd : fdtab[fd] # NoClient /\ old[fdtab[fd]] = 0 =>
        \A p \in ToSet(up[fdtab[fd]]) :
            p.mtype = "ACK" => p.payload[1] \in LiveTokens

\* A client that is told FIN stops; a session it still held would get every
\* message of its rooms and answer none.
FinMeansGone ==
    \A c \in Client :
        (peer[c] = "open" /\ \E p \in ToSet(down[c]) : p.mtype = "FIN") =>
            \A conn \in Sessions : At(conn.sockfd) # c

-----------------------------------------------------------------------------
(* The abstract view: what is subscribed, and by whom.                     *)

SessionWith(t) == CHOOSE conn \in Sessions : conn.token = t

Abstract == INSTANCE PubSub WITH
    Token    <- 1 .. MaxTokens,
    endpoint <- [t \in {conn.token : conn \in Sessions} |->
                    At(SessionWith(t).sockfd)],
    subs     <- {s \in {conn.token : conn \in Sessions} \X Room :
                    InRoom(SessionWith(s[1]).sockfd, s[2])}

\* Every step of the server opens, subscribes, hands over or closes sessions as
\* the abstract specification allows; in particular a reconnection keeps all the
\* subscriptions of the old session and gives it none of the new one.
Subscriptions == Abstract!Spec

-----------------------------------------------------------------------------
(* Delivery.                                                               *)

\* A packet leaves the buffer only when no session that still has time to come
\* back would be sent it: the two collectors use two clocks, one period and one
\* timeout, and must not contradict each other.
DroppedUseless ==
    [][\A p \in ToSet(buffer_packets) \ ToSet(buffer_packets') :
         \A conn \in ToSet(connections') :
            (conn.susc_counter > 0 /\ now - conn.timestamp <= CONN_TIMEOUT) =>
                conn.timestamp > p.timestamp]_vars

\* A client that does not reconnect has the messages of a producer in the order
\* in which they were produced, and each once.
PlainStreamOrdered ==
    \A c \in Client : old[c] = 0 =>
        \A i, j \in DOMAIN down[c] :
            LET p == down[c][i]
                q == down[c][j]
            IN  (i < j /\ p.mtype = "DATA" /\ q.mtype = "DATA"
                 /\ Len(p.payload) = 2 /\ Len(q.payload) = 2
                 /\ p.payload[1] = q.payload[1])
                    => p.payload[2] < q.payload[2]

\* A packet reaches its client with a wrong checksum only in two cases: the
\* second changed between the stamp of the producer and gen_packet, or the text
\* of the producer did not end where it should.
ChecksumFailsLate ==
    \A c \in Client : \A p \in ToSet(down[c]) :
        ~check_packet_MD5(p) =>
            /\ p.mtype = "DATA"
            /\ \/ p.payload = <<>> /\ p.hash = ZeroHash
               \/ p.hash = MD5(p.mtype, p.hash[2], p.payload) /\ p.timestamp < p.hash[2]

-----------------------------------------------------------------------------
(* Progress, under FairSpec.                                               *)

Dead(t) == \E conn \in ToSet(connections) : conn.token = t /\ Expired(conn)

\* A session that has been silent for too long does not stay so: it answers in
\* the end or it is collected, whatever commands and messages keep the loop busy
\* and however many clients at end of file wake it up.
DeadCollected ==
    \A t \in 1 .. MaxTokens : Dead(t) ~> (~Dead(t) \/ pc = "crashed")

Queued(r, n) == \E m \in ToSet(mq) : m.id = r /\ m.n = n

\* Every message of a producer is taken from the queue, one per iteration.
QueueDrained ==
    \A r \in Room, n \in 1 .. MaxMsgs :
        Queued(r, n) ~> (~Queued(r, n) \/ pc = "crashed")

-----------------------------------------------------------------------------
(* What the repository says and the code does not do.                      *)

\* README.md:26: a subscriber that goes away does not affect the service of the
\* others.
NoCrash == pc # "crashed"

\* README.md:26 again: the descriptor of a session whose client is connected
\* stays in the epoll set, so that the answers of the client are heard.
HealthyPolled ==
    \A conn \in Sessions :
        LET c == At(conn.sockfd)
        IN  c \in Client /\ peer[c] = "open" /\ c \notin reset =>
                conn.sockfd \in epoll

\* README.md:24: a message is sent with its checksum.
ChecksumValid ==
    \A c \in Client : \A p \in ToSet(down[c]) : check_packet_MD5(p)

\* README.md:26: a subscriber that comes back in time is sent all the messages
\* that waited for it, here those its dead connection still holds unread.
ResendComplete ==
    [][\A c \in Client :
         LET conn == connections[orig_conn]
             p    == buffer_packets[iter]
         IN  (/\ pc = "resend" /\ iter' > iter
              /\ peer[c] = "closed"
              /\ conn.token \in {old[c]} \cup {t \in DOMAIN owner : owner[t] = c}
              /\ At(conn.sockfd) # c
              /\ p \in ToSet(down[c]))
                => p \in ToSet(down'[At(conn.sockfd)])]_vars

\* Informe.md:22: the timestamp of a session is the last time its client
\* answered; at most the operator's commands change it besides.
StampNeedsAck ==
    [][\A i \in DOMAIN connections, j \in DOMAIN connections' :
         (connections[i].token = connections'[j].token
          /\ connections[i].timestamp # connections'[j].timestamp) =>
             fifo' # fifo \/ up' # up]_vars

\* Informe.md:24-27, README.md:26: a client is thrown out when it does not
\* answer its messages, never when it has answered all of them.
AnsweringKept ==
    [][\A conn \in Sessions :
         LET c == At(conn.sockfd)
         IN  (Expired(conn) /\ conn.token \notin LiveTokens') =>
                peer[c] = "closed" \/ down[c] # <<>> \/ up[c] # <<>>]_vars

-----------------------------------------------------------------------------
(* What the code does keep of these promises.                              *)

\* No client was started to recover the session of another.
PlainClients == \A c \in Client : old[c] = 0

\* The server dies only while it reads a client that came to recover a session,
\* or, where the stack keeps what was read before, at the end of file of a client
\* that is gone, which repeats an old ACK.
CrashExplained ==
    [][pc # "crashed" /\ pc' = "crashed" =>
        \E fd \in Fd :
            /\ fdtab[fd] # NoClient /\ In(fd) \in events
            /\ \/ old[fdtab[fd]] # 0
               \/ /\ StaleStack /\ packet.mtype = "ACK"
                  /\ up[fdtab[fd]] = <<>> /\ peer[fdtab[fd]] = "closed"]_vars

\* As long as nobody recovers a session, the server hears every client whose
\* connection it holds and that was not reset.
PlainPolled ==
    PlainClients =>
        \A fd \in Fd : fdtab[fd] \in Client \ reset => fd \in epoll
-----------------------------------------------------------------------------
(* A turn of the loop.                                                     *)

\* What a turn has left to do: the parts of the loop that are to come, then the
\* events, the packets to send again, the sessions and the packets that an inner
\* loop may still visit.
Work ==
    CASE pc = "events"       -> <<6, Cardinality(events), 0>>
      [] pc = "resend"       -> <<6, Cardinality(events),
                                  Len(buffer_packets) + 2 - iter>>
      [] pc = "cli"          -> <<5, 0, 0>>
      [] pc = "mq"           -> <<4, 0, 0>>
      [] pc = "gc_conn"      -> <<3, 0, 0>>
      [] pc = "gc_conn_loop" -> <<2, Len(connections), 0>>
      [] pc = "gc_pkt"       -> <<1, 0, 0>>
      [] pc = "gc_pkt_loop"  -> <<0, Len(buffer_packets), 0>>
      [] OTHER               -> <<0, 0, 0>>

\* a comes before b in the order of the dictionary.
Before(a, b) ==
    \/ a[1] < b[1]
    \/ a[1] = b[1] /\ a[2] < b[2]
    \/ a[1] = b[1] /\ a[2] = b[2] /\ a[3] < b[3]

\* A turn of the loop ends, whatever the other processes do meanwhile: each step
\* of the server in it leaves less to do, and no step of anybody else gives it
\* more.
TurnEnds ==
    [][pc \notin {"poll", "crashed"} =>
        /\ Work \in Nat \X Nat \X Nat
        /\ Server => pc' \in {"poll", "crashed"} \/ Before(Work', Work)
        /\ ~Server => pc' = pc /\ Work' = Work]_vars
=============================================================================
