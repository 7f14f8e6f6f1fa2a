---------------------------- MODULE SessionProofs ----------------------------
(***************************************************************************)
(* A session is one client's, whatever the operator does.  Rooms name only *)
(* sessions, and susc_counter counts the rooms, provided that the operator *)
(* does not subscribe the session of a client that is about to recover     *)
(* another one.                                                            *)
(***************************************************************************)
EXTENDS SystemProofs, SystemProps

-----------------------------------------------------------------------------
(* The elements of lists and queues.                                       *)

\* The elements of a sequence are what its indices name.
LEMMA ElementsDef ==
    ASSUME NEW S, NEW s \in Seq(S)
    PROVE  /\ ToSet(s) \subseteq S
           /\ \A i \in DOMAIN s : s[i] \in ToSet(s)
           /\ \A x \in ToSet(s) : \E i \in DOMAIN s : s[i] = x
           /\ DOMAIN s = 1 .. Len(s) /\ Len(s) \in Nat
BY DEF ToSet

\* A queue that is read.
LEMMA HeadTailElements ==
    ASSUME NEW S, NEW s \in Seq(S), s # <<>>
    PROVE  /\ Head(s) \in ToSet(s) /\ Tail(s) \in Seq(S)
           /\ ToSet(Tail(s)) \subseteq ToSet(s)
<1>1. /\ Head(s) = s[1] /\ Len(s) > 0 /\ Len(s) \in Nat
      /\ Tail(s) \in Seq(S) /\ Len(Tail(s)) = Len(s) - 1
      /\ \A i \in 1 .. Len(Tail(s)) : Tail(s)[i] = s[i + 1]
    BY HeadTailProperties, EmptySeq
<1>2. 1 \in DOMAIN s /\ \A i \in 1 .. Len(Tail(s)) : i + 1 \in DOMAIN s
    BY <1>1
<1>3. ASSUME NEW x \in ToSet(Tail(s))
      PROVE  x \in ToSet(s)
    <2>1. Tail(s) \in Seq(S)
        BY <1>1
    <2>2. PICK i \in 1 .. Len(Tail(s)) : Tail(s)[i] = x
        BY <2>1, ElementsDef
    <2> QED
        BY <1>1, <1>2, <2>2, ElementsDef
<1> QED
    BY <1>1, <1>2, <1>3, ElementsDef

\* A queue or a list that grows.
LEMMA AppendElements ==
    ASSUME NEW S, NEW s \in Seq(S), NEW e \in S
    PROVE  ToSet(Append(s, e)) = ToSet(s) \cup {e}
<1>1. /\ Append(s, e) \in Seq(S) /\ Len(Append(s, e)) = Len(s) + 1
      /\ \A i \in 1 .. Len(s) : Append(s, e)[i] = s[i]
      /\ Append(s, e)[Len(s) + 1] = e /\ Len(s) \in Nat
    BY AppendProperties
<1>2. ASSUME NEW x \in ToSet(Append(s, e))
      PROVE  x \in ToSet(s) \cup {e}
    <2>1. PICK i \in 1 .. Len(s) + 1 : Append(s, e)[i] = x
        BY <1>1, ElementsDef
    <2>2. i \in 1 .. Len(s) \/ i = Len(s) + 1
        BY <1>1
    <2> QED
        BY <1>1, <2>1, <2>2, ElementsDef
<1>3. ASSUME NEW x \in ToSet(s) \cup {e}
      PROVE  x \in ToSet(Append(s, e))
    <2>1. PICK i \in 1 .. Len(s) + 1 : Append(s, e)[i] = x
        <3>1. CASE x = e
            BY <1>1, <3>1
        <3>2. CASE x \in ToSet(s)
            <4>1. PICK i \in 1 .. Len(s) : s[i] = x
                BY <3>2, ElementsDef
            <4>2. i \in 1 .. Len(s) + 1
                BY <1>1
            <4> QED
                BY <1>1, <4>1, <4>2
        <3> QED
            BY <3>1, <3>2
    <2> QED
        BY <1>1, <2>1, ElementsDef
<1> QED
    BY <1>2, <1>3

\* What a concatenation holds was in one of its parts.
LEMMA ConcatElements ==
    ASSUME NEW S, NEW s \in Seq(S), NEW t \in Seq(S)
    PROVE  ToSet(s \o t) \subseteq ToSet(s) \cup ToSet(t)
<1>1. /\ s \o t \in Seq(S) /\ Len(s \o t) = Len(s) + Len(t)
      /\ \A i \in 1 .. Len(s) + Len(t) :
            (s \o t)[i] = IF i <= Len(s) THEN s[i] ELSE t[i - Len(s)]
      /\ Len(s) \in Nat /\ Len(t) \in Nat
    BY ConcatProperties
<1>2. ASSUME NEW x \in ToSet(s \o t)
      PROVE  x \in ToSet(s) \cup ToSet(t)
    <2>1. PICK i \in 1 .. Len(s) + Len(t) : (s \o t)[i] = x
        BY <1>1, ElementsDef
    <2>2. CASE i <= Len(s)
        <3>1. i \in DOMAIN s /\ s[i] = x
            BY <1>1, <2>1, <2>2
        <3> QED
            BY <3>1, ElementsDef
    <2>3. CASE ~(i <= Len(s))
        <3>1. i - Len(s) \in DOMAIN t /\ t[i - Len(s)] = x
            BY <1>1, <2>1, <2>3
        <3> QED
            BY <3>1, ElementsDef
    <2> QED
        BY <2>2, <2>3
<1> QED
    BY <1>2

\* What remains when a node is deleted.
LEMMA RemoveAtElements ==
    ASSUME NEW S, NEW s \in Seq(S), NEW i \in DOMAIN s
    PROVE  ToSet(RemoveAt(s, i)) = {s[j] : j \in DOMAIN s \ {i}}
<1>0. DOMAIN s = 1 .. Len(s) /\ i \in 1 .. Len(s) /\ Len(s) \in Nat
    OBVIOUS
<1>1. /\ RemoveAt(s, i) \in Seq(S)
      /\ Len(RemoveAt(s, i)) = Len(s) - 1 /\ Len(s) \in Nat
      /\ \A j \in 1 .. Len(s) - 1 :
            RemoveAt(s, i)[j] = IF j < i THEN s[j] ELSE s[j + 1]
      /\ DOMAIN s = 1 .. Len(s) /\ i \in 1 .. Len(s)
    BY <1>0, RemoveAtProperties
<1>2. DOMAIN RemoveAt(s, i) = 1 .. Len(s) - 1
    BY <1>1
<1>3. ASSUME NEW x \in ToSet(RemoveAt(s, i))
      PROVE  x \in {s[j] : j \in DOMAIN s \ {i}}
    <2>1. PICK k \in 1 .. Len(s) - 1 : RemoveAt(s, i)[k] = x
        BY <1>1, <1>2, ElementsDef
    <2>2. CASE k < i
        <3>1. k \in DOMAIN s \ {i} /\ s[k] = x
            BY <1>1, <2>1, <2>2
        <3> QED
            BY <3>1
    <2>3. CASE ~(k < i)
        <3>1. k + 1 \in DOMAIN s \ {i} /\ s[k + 1] = x
            BY <1>1, <2>1, <2>3
        <3> QED
            BY <3>1
    <2> QED
        BY <2>2, <2>3
<1>4. ASSUME NEW j \in DOMAIN s \ {i}
      PROVE  s[j] \in ToSet(RemoveAt(s, i))
    <2>1. CASE j < i
        <3>1. j \in 1 .. Len(s) - 1 /\ RemoveAt(s, i)[j] = s[j]
            BY <1>1, <2>1
        <3> QED
            BY <1>1, <1>2, <3>1, ElementsDef
    <2>2. CASE ~(j < i)
        <3>1. j - 1 \in 1 .. Len(s) - 1 /\ RemoveAt(s, i)[j - 1] = s[j]
            BY <1>1, <2>2
        <3> QED
            BY <1>1, <1>2, <3>1, ElementsDef
    <2> QED
        BY <2>1, <2>2
<1> QED
    BY <1>3, <1>4

\* What a list holds when a node is given another content.
LEMMA UpdateElements ==
    ASSUME NEW S, NEW s \in Seq(S), NEW i \in DOMAIN s, NEW e \in S
    PROVE  ToSet([s EXCEPT ![i] = e]) = {s[j] : j \in DOMAIN s \ {i}} \cup {e}
BY DEF ToSet

\* What is in a socket after a write was there before or has been written.
LEMMA PushElements ==
    ASSUME NEW queue \in Seq(Packet), NEW pkts \in Seq(Packet)
    PROVE  ToSet(Push(queue, pkts)) \subseteq ToSet(queue) \cup ToSet(pkts)
<1> DEFINE q == queue \o pkts
<1>1. /\ q \in Seq(Packet) /\ Len(q) = Len(queue) + Len(pkts) /\ Len(q) \in Nat
      /\ Len(queue) \in Nat /\ Len(pkts) \in Nat /\ SndBuf \in Nat
    BY ConcatProperties, IpcAssumption
<1>2. ToSet(q) \subseteq ToSet(queue) \cup ToSet(pkts)
    BY ConcatElements
<1> HIDE DEF q
<1>3. CASE Len(queue) + Len(pkts) <= SndBuf
    BY <1>2, <1>3 DEF Push, q
<1>4. CASE ~(Len(queue) + Len(pkts) <= SndBuf)
    <2>1. \A i \in 1 .. SndBuf : q[i] \in Packet
        BY <1>1, <1>4, ElementOfSeq
    <2>2. /\ SubSeq(q, 1, SndBuf) \in Seq(Packet)
          /\ Len(SubSeq(q, 1, SndBuf)) = SndBuf
          /\ \A i \in 1 .. SndBuf : SubSeq(q, 1, SndBuf)[i] = q[i]
        BY <1>1, <2>1, SubSeqProperties
    <2>3. ToSet(SubSeq(q, 1, SndBuf)) \subseteq ToSet(q)
        <3>1. ASSUME NEW x \in ToSet(SubSeq(q, 1, SndBuf))
              PROVE  x \in ToSet(q)
            <4>1. PICK i \in 1 .. SndBuf : SubSeq(q, 1, SndBuf)[i] = x
                BY <2>2, ElementsDef
            <4>2. i \in DOMAIN q /\ q[i] = x
                BY <1>1, <1>4, <2>2, <4>1
            <4> QED
                BY <1>1, <4>2, ElementsDef
        <3> QED
            BY <3>1
    <2> QED
        BY <1>2, <1>4, <2>3 DEF Push, q
<1> QED
    BY <1>3, <1>4

\* What a client can read after a write was there before or was written to it.
LEMMA WrittenElements ==
    ASSUME IpcTypeOK, NEW out \in [Client -> Seq(Packet)], NEW c \in Client
    PROVE  ToSet(Written(out)[c]) \subseteq ToSet(down[c]) \cup ToSet(out[c])
<1>1. down[c] \in Seq(Packet) /\ out[c] \in Seq(Packet)
    BY DEF IpcTypeOK
<1>2. ToSet(Push(down[c], out[c])) \subseteq ToSet(down[c]) \cup ToSet(out[c])
    BY <1>1, PushElements
<1> QED
    BY <1>2 DEF Written

\* One packet written to one descriptor.
LEMMA WriteOne ==
    ASSUME IpcTypeOK, NEW fd, NEW p \in Packet, NEW c \in Client
    PROVE  ToSet(Written(To(fd, <<p>>))[c]) \subseteq ToSet(down[c]) \cup {p}
<1>1. <<p>> \in Seq(Packet) /\ ToSet(<<p>>) = {p} /\ ToSet(<<>>) = {}
    BY DEF ToSet
<1>2. To(fd, <<p>>) \in [Client -> Seq(Packet)]
    BY <1>1, ToType
<1>3. ToSet(To(fd, <<p>>)[c]) \subseteq {p}
    BY <1>1 DEF To
<1> QED
    BY <1>2, <1>3, WrittenElements

-----------------------------------------------------------------------------
(* The invariant.                                                          *)

Entries == ToSet(connections)

\* A client connects once: it waits in the backlog, or was issued a token, and
\* holds one descriptor at most.
Wired ==
    /\ \A f, g \in Fd : fdtab[f] = fdtab[g] /\ fdtab[f] # NoClient => f = g
    /\ \A f \in Fd : fdtab[f] # NoClient => fdtab[f] \in ToSet(owner)
    /\ \A i, j \in DOMAIN backlog : backlog[i] = backlog[j] => i = j
    /\ \A c \in ToSet(backlog) : c \notin ToSet(owner)
    /\ \A c \in Client : peer[c] = "unborn" =>
            c \notin ToSet(backlog) \cup ToSet(owner)
    /\ \A t, u \in DOMAIN owner : owner[t] = owner[u] /\ owner[t] \in Client => t = u

\* A token given to -t was issued to a client that was started without it.
PlainOld ==
    \A c \in Client : old[c] # 0 =>
        /\ old[c] \in DOMAIN owner
        /\ owner[old[c]] \in Client /\ old[owner[old[c]]] = 0

\* What a client takes for its token.
TokenKnown ==
    \A c \in Client :
        /\ old[c] # 0 => token[c] = old[c]
        /\ old[c] = 0 /\ token[c] # 0 =>
              token[c] \in DOMAIN owner /\ owner[token[c]] = c

\* The tokens that travel are those of the client at the end of the connection.
Hello(p, c) ==
    p.mtype = "CONN_ACCEPTED" =>
        p.payload[1] \in DOMAIN owner /\ owner[p.payload[1]] = c

Request(p, c) ==
    p.mtype = "AUTH" =>
        /\ p.payload[1] = old[c] /\ old[c] # 0
        /\ p.payload[2] \in DOMAIN owner /\ owner[p.payload[2]] = c

Travelling ==
    /\ \A c \in Client : \A p \in ToSet(down[c]) : Hello(p, c)
    /\ \A c \in Client : \A p \in ToSet(up[c]) : Request(p, c)
    /\ \A p \in ToSet(buffer_packets) : p.mtype = "DATA"

\* An AUTH in the stack slot has been handled: its new session is gone, and a
\* replay of it finds nothing.
SlotSpent ==
    check_packet_MD5(packet) /\ packet.mtype = "AUTH" =>
        /\ packet.payload[2] \in DOMAIN owner
        /\ \A a \in Entries : a.token # packet.payload[2]

TokensDistinct(list) ==
    \A i, j \in DOMAIN list : list[i].token = list[j].token => i = j

\* An entry, its token and its descriptor.
EntryOwned(a) ==
    /\ a.token \in DOMAIN owner
    /\ a.sockfd = BadFd <=> owner[a.token] = NoClient
    /\ a.sockfd # BadFd =>
          /\ fdtab[a.sockfd] \in Client
          /\ owner[a.token] = fdtab[a.sockfd] \/ old[fdtab[a.sockfd]] = a.token

EntriesOwned ==
    /\ \A a \in Entries : EntryOwned(a)
    /\ \A a, b \in Entries : a.sockfd = b.sockfd /\ a.sockfd # BadFd => a = b

OwnedInv ==
    /\ TypeInv
    /\ Wired /\ PlainOld /\ TokenKnown /\ Travelling /\ SlotSpent
    /\ TokensDistinct(connections) /\ EntriesOwned

-----------------------------------------------------------------------------
(* The list of sessions.                                                   *)

\* A token names at most one entry.
LEMMA TokenNames ==
    ASSUME NEW list \in Seq(Connection), TokensDistinct(list),
           NEW a \in ToSet(list), NEW b \in ToSet(list), a.token = b.token
    PROVE  a = b
<1>1. PICK i \in DOMAIN list : list[i] = a
    BY ElementsDef
<1>2. PICK j \in DOMAIN list : list[j] = b
    BY ElementsDef
<1> QED
    BY <1>1, <1>2 DEF TokensDistinct

\* list_find finds the entry of a token if there is one.
LEMMA TokenFound ==
    ASSUME NEW list \in Seq(Connection), NEW t
    PROVE  /\ FindToken(list, t) # 0 =>
                 /\ FindToken(list, t) \in DOMAIN list
                 /\ list[FindToken(list, t)] \in ToSet(list)
                 /\ list[FindToken(list, t)].token = t
           /\ FindToken(list, t) = 0 => \A a \in ToSet(list) : a.token # t
<1> DEFINE k == FindToken(list, t)
<1>1. /\ k \in 0 .. Len(list) /\ Len(list) \in Nat /\ DOMAIN list = 1 .. Len(list)
      /\ k # 0 => list[k].token = t
      /\ k = 0 => \A i \in 1 .. Len(list) : list[i].token # t
    BY FindTokenProperties
<1> HIDE DEF k
<1>2. k # 0 => k \in DOMAIN list
    BY <1>1
<1>3. k # 0 => list[k] \in ToSet(list)
    BY <1>2, ElementsDef
<1>4. k = 0 => \A a \in ToSet(list) : a.token # t
    BY <1>1, ElementsDef
<1> QED
    BY <1>1, <1>2, <1>3, <1>4 DEF k

\* Deleting an entry.
LEMMA RemoveEntry ==
    ASSUME NEW list \in Seq(Connection), TokensDistinct(list),
           NEW i \in DOMAIN list
    PROVE  /\ RemoveAt(list, i) \in Seq(Connection)
           /\ TokensDistinct(RemoveAt(list, i))
           /\ ToSet(RemoveAt(list, i)) = ToSet(list) \ {list[i]}
<1>0. DOMAIN list = 1 .. Len(list) /\ i \in 1 .. Len(list) /\ Len(list) \in Nat
    OBVIOUS
<1> DEFINE rest == RemoveAt(list, i)
<1>1. /\ rest \in Seq(Connection) /\ Len(rest) = Len(list) - 1
      /\ \A j \in 1 .. Len(list) - 1 :
            rest[j] = IF j < i THEN list[j] ELSE list[j + 1]
    BY <1>0, RemoveAtProperties
<1>2. DOMAIN rest = 1 .. Len(list) - 1
    BY <1>0, <1>1
<1>3. ToSet(rest) = {list[j] : j \in DOMAIN list \ {i}}
    BY RemoveAtElements
<1> HIDE DEF rest
<1>4. ToSet(rest) = ToSet(list) \ {list[i]}
    <2>1. \A j \in DOMAIN list \ {i} : list[j] # list[i]
        BY DEF TokensDistinct
    <2> QED
        BY <1>3, <2>1, ElementsDef
<1>5. TokensDistinct(rest)
    <2>1. ASSUME NEW j \in DOMAIN rest, NEW k \in DOMAIN rest,
                 rest[j].token = rest[k].token
          PROVE  j = k
        <3> DEFINE up1(n) == IF n < i THEN n ELSE n + 1
        <3>1. /\ up1(j) \in DOMAIN list /\ rest[j] = list[up1(j)]
              /\ up1(k) \in DOMAIN list /\ rest[k] = list[up1(k)]
            BY <1>0, <1>1, <1>2
        <3>2. up1(j) = up1(k)
            <4> HIDE DEF up1
            <4> QED
                BY <2>1, <3>1 DEF TokensDistinct
        <3> QED
            BY <1>0, <1>2, <3>2
    <2> QED
        BY <2>1 DEF TokensDistinct
<1> QED
    BY <1>1, <1>4, <1>5 DEF rest

\* Deleting the entry of a token, if there is one.
LEMMA DeleteTokenElements ==
    ASSUME NEW list \in Seq(Connection), TokensDistinct(list), NEW t
    PROVE  /\ DeleteToken(list, t) \in Seq(Connection)
           /\ TokensDistinct(DeleteToken(list, t))
           /\ ToSet(DeleteToken(list, t)) = {a \in ToSet(list) : a.token # t}
<1> DEFINE k == FindToken(list, t)
<1>1. CASE k = 0
    <2>1. DeleteToken(list, t) = list
        BY <1>1 DEF DeleteToken
    <2> QED
        BY <1>1, <2>1, TokenFound
<1>2. CASE k # 0
    <2>1. k \in DOMAIN list /\ list[k] \in ToSet(list) /\ list[k].token = t
        BY <1>2, TokenFound
    <2>2. DeleteToken(list, t) = RemoveAt(list, k)
        BY <1>2 DEF DeleteToken
    <2> HIDE DEF k
    <2>3. /\ RemoveAt(list, k) \in Seq(Connection)
          /\ TokensDistinct(RemoveAt(list, k))
          /\ ToSet(RemoveAt(list, k)) = ToSet(list) \ {list[k]}
        BY <2>1, RemoveEntry
    <2>4. ToSet(list) \ {list[k]} = {a \in ToSet(list) : a.token # t}
        BY <2>1, TokenNames
    <2> QED
        BY <2>2, <2>3, <2>4
<1> QED
    BY <1>1, <1>2

\* Changing an entry that keeps its token.
LEMMA ReplaceEntry ==
    ASSUME NEW list \in Seq(Connection), TokensDistinct(list),
           NEW i \in DOMAIN list, NEW e \in Connection,
           e.token = list[i].token
    PROVE  /\ [list EXCEPT ![i] = e] \in Seq(Connection)
           /\ TokensDistinct([list EXCEPT ![i] = e])
           /\ ToSet([list EXCEPT ![i] = e]) = (ToSet(list) \ {list[i]}) \cup {e}
<1>0. DOMAIN list = 1 .. Len(list) /\ i \in 1 .. Len(list) /\ Len(list) \in Nat
    OBVIOUS
<1>1. [list EXCEPT ![i] = e] \in Seq(Connection)
    BY <1>0, ExceptSeq
<1>2. DOMAIN [list EXCEPT ![i] = e] = DOMAIN list
      /\ \A j \in DOMAIN list :
            [list EXCEPT ![i] = e][j].token = list[j].token
    OBVIOUS
<1>3. TokensDistinct([list EXCEPT ![i] = e])
    BY <1>2 DEF TokensDistinct
<1>4. ToSet([list EXCEPT ![i] = e]) = {list[j] : j \in DOMAIN list \ {i}} \cup {e}
    BY UpdateElements
<1>5. {list[j] : j \in DOMAIN list \ {i}} = ToSet(list) \ {list[i]}
    <2>1. \A j \in DOMAIN list \ {i} : list[j] # list[i]
        BY DEF TokensDistinct
    <2> QED
        BY <2>1, ElementsDef
<1> QED
    BY <1>1, <1>3, <1>4, <1>5

\* A session with a token that no other has.
LEMMA AppendEntry ==
    ASSUME NEW list \in Seq(Connection), TokensDistinct(list),
           NEW e \in Connection, \A a \in ToSet(list) : a.token # e.token
    PROVE  /\ Append(list, e) \in Seq(Connection)
           /\ TokensDistinct(Append(list, e))
           /\ ToSet(Append(list, e)) = ToSet(list) \cup {e}
<1>1. /\ Append(list, e) \in Seq(Connection)
      /\ Len(Append(list, e)) = Len(list) + 1 /\ Len(list) \in Nat
      /\ \A i \in 1 .. Len(list) : Append(list, e)[i] = list[i]
      /\ Append(list, e)[Len(list) + 1] = e
    BY AppendProperties
<1>2. DOMAIN Append(list, e) = DOMAIN list \cup {Len(list) + 1}
      /\ DOMAIN list = 1 .. Len(list)
    BY <1>1
<1>3. TokensDistinct(Append(list, e))
    <2>1. \A i \in DOMAIN list : list[i].token # e.token
        BY ElementsDef
    <2> QED
        BY <1>1, <1>2, <2>1 DEF TokensDistinct
<1> QED
    BY <1>1, <1>3, AppendElements

-----------------------------------------------------------------------------
(* What the steps of several processes have in common.                     *)

\* The fields of a control packet.
LEMMA ControlFields ==
    ASSUME NEW type, NEW payload
    PROVE  Control(type, payload).mtype = type /\ Control(type, payload).payload = payload
BY DEF Control, gen_packet

\* The types that the proofs below use most.
LEMMA OwnedTypes ==
    ASSUME OwnedInv
    PROVE  /\ TypeInv /\ IpcTypeOK
           /\ connections \in Seq(Connection) /\ Entries \subseteq Connection
           /\ owner \in Seq(Client \cup {NoClient})
           /\ DOMAIN owner = 1 .. Len(owner) /\ Len(owner) \in Nat
           /\ \A t \in DOMAIN owner : owner[t] \in ToSet(owner)
           /\ fdtab \in [Fd -> Client \cup {NoClient}]
           /\ backlog \in Seq(Client)
           /\ old \in [Client -> Nat] /\ token \in [Client -> Nat]
           /\ \A c \in Client : down[c] \in Seq(Packet) /\ up[c] \in Seq(Packet)
           /\ NoClient \notin Client
<1>1. /\ TypeInv /\ IpcTypeOK /\ ClienteTypeOK /\ ServerTypeOK
    BY DEF OwnedInv, TypeInv, TypeOK
<1>2. owner \in Seq(Client \cup {NoClient}) /\ connections \in Seq(Connection)
    BY <1>1 DEF ServerTypeOK
<1>3. \A t \in DOMAIN owner : owner[t] \in ToSet(owner)
    BY <1>2, ElementsDef
<1>4. DOMAIN owner = 1 .. Len(owner) /\ Len(owner) \in Nat
    BY <1>2
<1>5. Entries \subseteq Connection
    BY <1>2, ElementsDef DEF Entries
<1> QED
    BY <1>1, <1>2, <1>3, <1>4, <1>5, IpcAssumption DEF IpcTypeOK, ClienteTypeOK

\* Packets without tokens may come and go.
LEMMA TravelStep ==
    ASSUME OwnedInv, UNCHANGED <<owner, old>>,
           \A c \in Client : \A p \in ToSet(down'[c]) :
                p \in ToSet(down[c]) \/ p.mtype # "CONN_ACCEPTED",
           \A c \in Client : \A p \in ToSet(up'[c]) :
                p \in ToSet(up[c]) \/ p.mtype # "AUTH",
           \A p \in ToSet(buffer_packets') :
                p \in ToSet(buffer_packets) \/ p.mtype = "DATA"
    PROVE  Travelling'
BY DEF OwnedInv, Travelling, Hello, Request

\* A step that changes nothing the invariant is about.
LEMMA OwnedFrame ==
    ASSUME OwnedInv, TypeInv',
           UNCHANGED <<fdtab, backlog, owner, peer, old, token, down, up,
                       buffer_packets, packet, connections>>
    PROVE  OwnedInv'
BY DEF OwnedInv, Wired, PlainOld, TokenKnown, Travelling, Hello, Request,
       SlotSpent, TokensDistinct, EntriesOwned, EntryOwned, Entries

\* A step that only writes packets without tokens to clients.
LEMMA OwnedWrite ==
    ASSUME OwnedInv, TypeInv',
           UNCHANGED <<fdtab, backlog, owner, peer, old, token, up, packet,
                       connections>>,
           \A c \in Client : \A p \in ToSet(down'[c]) :
                p \in ToSet(down[c]) \/ p.mtype # "CONN_ACCEPTED",
           \A p \in ToSet(buffer_packets') :
                p \in ToSet(buffer_packets) \/ p.mtype = "DATA"
    PROVE  OwnedInv'
<1>1. Travelling'
    BY TravelStep
<1> QED
    BY <1>1 DEF OwnedInv, Wired, PlainOld, TokenKnown, SlotSpent,
                TokensDistinct, EntriesOwned, EntryOwned, Entries

\* A step that changes an entry but neither its token nor its descriptor.
LEMMA SameSessions ==
    ASSUME OwnedInv, UNCHANGED <<fdtab, owner, old>>,
           NEW i \in DOMAIN connections, NEW e \in Connection,
           e.token = connections[i].token, e.sockfd = connections[i].sockfd,
           connections' = [connections EXCEPT ![i] = e]
    PROVE  /\ TokensDistinct(connections') /\ EntriesOwned'
           /\ Entries' = (Entries \ {connections[i]}) \cup {e}
           /\ \A a \in Entries' : \E b \in Entries :
                 a.token = b.token /\ a.sockfd = b.sockfd
<1>1. /\ connections \in Seq(Connection) /\ TokensDistinct(connections)
      /\ EntriesOwned
    BY OwnedTypes DEF OwnedInv
<1>2. /\ TokensDistinct(connections')
      /\ Entries' = (Entries \ {connections[i]}) \cup {e}
    BY <1>1, ReplaceEntry DEF Entries
<1>3. connections[i] \in Entries
    BY <1>1, ElementsDef DEF Entries
<1>4. \A a \in Entries' : EntryOwned(a)'
    BY <1>1, <1>2, <1>3 DEF EntriesOwned, EntryOwned
<1>5. \A a, b \in Entries' : a.sockfd = b.sockfd /\ a.sockfd # BadFd => a = b
    BY <1>1, <1>2, <1>3 DEF EntriesOwned
<1> QED
    BY <1>2, <1>3, <1>4, <1>5 DEF EntriesOwned

\* What is read from a descriptor.  An AUTH whose hash is right comes from the
\* client at the other end, or is one that has been handled.
LEMMA ReadAuth ==
    ASSUME OwnedInv, NEW fd \in Fd, NEW p \in Buffered(fd),
           check_packet_MD5(p), p.mtype = "AUTH"
    PROVE  /\ p.payload[2] \in DOMAIN owner
           /\ \/ \A a \in Entries : a.token # p.payload[2]
              \/ At(fd) \in Client /\ Request(p, At(fd))
<1>1. At(fd) \in Client /\ up[At(fd)] \in Seq(Packet)
    BY OwnedTypes DEF Buffered, At
<1>2. CASE up[At(fd)] # <<>>
    <2>1. p = Head(up[At(fd)])
        BY <1>1, <1>2, OwnedTypes DEF Buffered
    <2>2. p \in ToSet(up[At(fd)])
        BY <1>1, <1>2, <2>1, HeadTailElements
    <2>3. Request(p, At(fd))
        BY <1>1, <2>2 DEF OwnedInv, Travelling
    <2> QED
        BY <1>1, <2>3 DEF Request
<1>3. CASE up[At(fd)] = <<>>
    <2>1. p = packet \/ p = Garbage
        BY <1>3 DEF Buffered
    <2>2. p = packet
        BY <2>1 DEF Garbage
    <2> QED
        BY <2>2 DEF OwnedInv, SlotSpent
<1> QED
    BY <1>2, <1>3

\* A read takes packets from the connection and adds none.
LEMMA ReadElements ==
    ASSUME OwnedInv, NEW fd, NEW c \in Client
    PROVE  ToSet(AfterRead(fd)[c]) \subseteq ToSet(up[c])
<1>1. up[c] \in Seq(Packet)
    BY OwnedTypes
<1>2. up[c] # <<>> => ToSet(Tail(up[c])) \subseteq ToSet(up[c])
    BY <1>1, HeadTailElements
<1> QED
    BY <1>2 DEF AfterRead

\* A packet that is no AUTH spends the slot.
LEMMA SlotStep ==
    ASSUME NEW fd, NEW p, Read(fd, p),
           ~(check_packet_MD5(p) /\ p.mtype = "AUTH")
    PROVE  SlotSpent'
<1>1. packet' = p \/ packet' = Garbage
    BY DEF Read
<1>2. Garbage.mtype # "AUTH"
    BY DEF Garbage
<1> QED
    BY <1>1, <1>2 DEF SlotSpent, check_packet_MD5

-----------------------------------------------------------------------------
(* Every step preserves the invariant.                                     *)

\* Nobody is connected when the server starts.
LEMMA OwnedInit == Init => OwnedInv
<1> SUFFICES ASSUME Init
             PROVE  OwnedInv
    OBVIOUS
<1>1. TypeInv
    BY TypeInit
<1>2. ToSet(<<>>) = {}
    BY DEF ToSet
<1>3. Wired
    BY <1>2, IpcAssumption DEF Wired, Init, IpcInit, ServerInit
<1>4. PlainOld /\ TokenKnown
    BY DEF PlainOld, TokenKnown, Init, ClienteInit
<1>5. Travelling
    BY <1>2 DEF Travelling, Init, IpcInit, ServerInit
<1>6. SlotSpent
    BY DEF SlotSpent, Init, ServerInit, Garbage
<1>7. TokensDistinct(connections) /\ EntriesOwned
    BY <1>2 DEF TokensDistinct, EntriesOwned, Entries, Init, ServerInit
<1> QED
    BY <1>1, <1>3, <1>4, <1>5, <1>6, <1>7 DEF OwnedInv

\* A client that starts is new to the server, and the token it is given was
\* issued to another one that was started without -t.
LEMMA OwnedStart ==
    ASSUME OwnedInv, TypeInv', NEW c \in Client, NEW t \in PrintedTokens,
           Start(c, t), UNCHANGED <<productor, server, cmds>>
    PROVE  OwnedInv'
<1>1. /\ peer[c] = "unborn" /\ peer' = [peer EXCEPT ![c] = "open"]
      /\ backlog' = Append(backlog, c)
      /\ old' = [old EXCEPT ![c] = t] /\ token' = [token EXCEPT ![c] = t]
      /\ UNCHANGED <<fdtab, up, down, owner, buffer_packets, packet, connections>>
    BY DEF Start, server
<1>2. c \notin ToSet(backlog) /\ c \notin ToSet(owner)
    BY <1>1 DEF OwnedInv, Wired
<1>3. \A u \in DOMAIN owner : owner[u] # c
    BY <1>2, OwnedTypes
<1>4. t # 0 => /\ t \in DOMAIN owner /\ owner[t] \in Client
               /\ old[owner[t]] = 0
    <2>1. PICK d \in Client : t = token[d]
        BY DEF PrintedTokens
    <2>2. CASE old[d] # 0
        BY <2>1, <2>2 DEF OwnedInv, TokenKnown, PlainOld
    <2>3. CASE old[d] = 0
        BY <2>1, <2>3 DEF OwnedInv, TokenKnown
    <2> QED
        BY <2>2, <2>3
<1>5. /\ \A d \in Client : old'[d] = IF d = c THEN t ELSE old[d]
      /\ \A d \in Client : token'[d] = IF d = c THEN t ELSE token[d]
      /\ \A d \in Client : peer'[d] = "unborn" => d # c /\ peer[d] = "unborn"
    BY <1>1, OwnedTypes DEF OwnedInv, TypeInv, TypeOK, IpcTypeOK
<1>6. Wired'
    <2>1. backlog \in Seq(Client) /\ Len(backlog) \in Nat
          /\ DOMAIN backlog = 1 .. Len(backlog)
        BY OwnedTypes
    <2>2. /\ ToSet(backlog') = ToSet(backlog) \cup {c}
          /\ Len(backlog') = Len(backlog) + 1 /\ backlog' \in Seq(Client)
          /\ \A i \in DOMAIN backlog : backlog'[i] = backlog[i]
          /\ backlog'[Len(backlog) + 1] = c
        BY <1>1, <2>1, AppendElements, AppendProperties
    <2>3. DOMAIN backlog' = DOMAIN backlog \cup {Len(backlog) + 1}
        BY <2>1, <2>2
    <2>4. \A i \in DOMAIN backlog : backlog[i] # c
        BY <1>2, <2>1, ElementsDef
    <2>5. \A i, j \in DOMAIN backlog' : backlog'[i] = backlog'[j] => i = j
        BY <2>2, <2>3, <2>4 DEF OwnedInv, Wired
    <2>6. \A d \in ToSet(backlog') : d \notin ToSet(owner')
        BY <1>1, <1>2, <2>2 DEF OwnedInv, Wired
    <2>7. \A d \in Client : peer'[d] = "unborn" =>
                d \notin ToSet(backlog') \cup ToSet(owner')
        BY <1>1, <1>5, <2>2 DEF OwnedInv, Wired
    <2> QED
        BY <1>1, <2>5, <2>6, <2>7 DEF OwnedInv, Wired
<1>7. PlainOld'
    <2>1. ASSUME NEW d \in Client, old'[d] # 0
          PROVE  /\ old'[d] \in DOMAIN owner /\ owner[old'[d]] \in Client
                 /\ old'[owner[old'[d]]] = 0
        <3>1. CASE d = c
            BY <1>3, <1>4, <1>5, <2>1, <3>1
        <3>2. CASE d # c
            BY <1>3, <1>5, <2>1, <3>2 DEF OwnedInv, PlainOld
        <3> QED
            BY <3>1, <3>2
    <2> QED
        BY <1>1, <2>1 DEF PlainOld
<1>8. TokenKnown'
    <2>1. ASSUME NEW d \in Client
          PROVE  /\ old'[d] # 0 => token'[d] = old'[d]
                 /\ old'[d] = 0 /\ token'[d] # 0 =>
                       token'[d] \in DOMAIN owner /\ owner[token'[d]] = d
        <3>1. CASE d = c
            BY <1>5, <3>1
        <3>2. CASE d # c
            BY <1>5, <3>2 DEF OwnedInv, TokenKnown
        <3> QED
            BY <3>1, <3>2
    <2> QED
        BY <1>1, <2>1 DEF TokenKnown
<1>9. Travelling'
    <2>1. ASSUME NEW d \in Client, NEW p \in ToSet(up[d])
          PROVE  Request(p, d)'
        BY <1>1, <1>3, <1>5 DEF OwnedInv, Travelling, Request
    <2>2. ASSUME NEW d \in Client, NEW p \in ToSet(down[d])
          PROVE  Hello(p, d)'
        BY <1>1 DEF OwnedInv, Travelling, Hello
    <2> QED
        BY <1>1, <2>1, <2>2 DEF OwnedInv, Travelling
<1>10. EntriesOwned'
    <2>1. ASSUME NEW a \in Entries
          PROVE  EntryOwned(a)'
        <3>1. EntryOwned(a) /\ a \in Connection
            BY OwnedTypes DEF OwnedInv, EntriesOwned
        <3>2. a.sockfd # BadFd => fdtab[a.sockfd] # c
            BY <1>2, <3>1, OwnedTypes DEF OwnedInv, Wired, EntryOwned, Connection
        <3> QED
            BY <1>1, <1>5, <3>1, <3>2 DEF EntryOwned
    <2> QED
        BY <1>1, <2>1 DEF OwnedInv, EntriesOwned, Entries
<1>11. SlotSpent' /\ TokensDistinct(connections')
    BY <1>1 DEF OwnedInv, SlotSpent, Entries
<1> QED
    BY <1>6, <1>7, <1>8, <1>9, <1>10, <1>11 DEF OwnedInv

\* What a client reads and what it answers.
LEMMA RecvElements ==
    ASSUME OwnedInv, NEW c \in Client, NEW p, Recv(c, p), NEW d \in Client
    PROVE  ToSet(down'[d]) \subseteq ToSet(down[d])
<1>1. /\ down \in [Client -> Seq(Packet)] /\ down[c] # <<>>
      /\ down' = [down EXCEPT ![c] = Tail(@)]
    BY OwnedTypes DEF Recv, IpcTypeOK
<1>2. ToSet(Tail(down[c])) \subseteq ToSet(down[c])
    BY <1>1, HeadTailElements
<1> QED
    BY <1>1, <1>2

\* What a client writes.
LEMMA AnswerElements ==
    ASSUME OwnedInv, NEW c \in Client, NEW pkts \in Seq(Packet), Answer(c, pkts),
           NEW d \in Client
    PROVE  ToSet(up'[d]) \subseteq
                ToSet(up[d]) \cup (IF d = c THEN ToSet(pkts) ELSE {})
<1>1. up \in [Client -> Seq(Packet)]
      /\ up' = IF Connected(c) THEN [up EXCEPT ![c] = @ \o pkts] ELSE up
    BY OwnedTypes DEF Answer, IpcTypeOK
<1>2. ToSet(up[c] \o pkts) \subseteq ToSet(up[c]) \cup ToSet(pkts)
    BY <1>1, ConcatElements
<1> QED
    BY <1>1, <1>2

\* A client's answers carry its own tokens.
LEMMA OwnedClient ==
    ASSUME OwnedInv, TypeInv', NEW c \in Client, ClientStep(c) \/ Kill(c),
           UNCHANGED <<productor, server, cmds>>
    PROVE  OwnedInv'
<1>1. UNCHANGED <<fdtab, backlog, owner, old, buffer_packets, packet, connections>>
    BY DEF ClientStep, RecvConnAccepted, RecvData, RecvFin, RecvUnanswered,
           Recv, Kill, server
<1>2. \A d \in Client : peer'[d] = "unborn" => peer[d] = "unborn"
    <2>1. peer \in [Client -> {"unborn", "open", "closed"}]
        BY OwnedTypes DEF IpcTypeOK
    <2>2. peer' = peer \/ peer' = [peer EXCEPT ![c] = "closed"]
        BY DEF ClientStep, RecvConnAccepted, RecvData, RecvFin, RecvUnanswered,
               Kill
    <2> QED
        BY <2>1, <2>2
<1>3. /\ Wired' /\ PlainOld' /\ SlotSpent'
      /\ TokensDistinct(connections') /\ EntriesOwned'
    BY <1>1, <1>2 DEF OwnedInv, Wired, PlainOld, SlotSpent, EntriesOwned,
                      EntryOwned, Entries
<1>4. ASSUME Travelling', TokenKnown'
      PROVE  OwnedInv'
    BY <1>3, <1>4 DEF OwnedInv
<1>5. CASE RecvConnAccepted(c)
    <2>1. PICK p \in ToSet(down[c]) :
            /\ Recv(c, p)
            /\ p.mtype = "CONN_ACCEPTED"
            /\ \/ /\ old[c] # 0
                  /\ Answer(c, <<Auth(old[c], p.payload[1]), Ack(old[c])>>)
                  /\ UNCHANGED token
               \/ /\ old[c] = 0
                  /\ Answer(c, <<Ack(p.payload[1])>>)
                  /\ token' = [token EXCEPT ![c] = p.payload[1]]
        BY <1>5 DEF RecvConnAccepted
    <2>2. p.payload[1] \in DOMAIN owner /\ owner[p.payload[1]] = c
        BY <2>1 DEF OwnedInv, Travelling, Hello
    <2>3. p.payload[1] \in Nat /\ old[c] \in Nat
        <3>1. DOMAIN owner \subseteq Nat
            BY OwnedTypes
        <3> QED
            BY <2>2, <3>1, OwnedTypes
    <2> DEFINE auth == Auth(old[c], p.payload[1])
               ack(t) == Ack(t)
    <2>4. /\ auth \in Packet /\ Ack(old[c]) \in Packet /\ Ack(p.payload[1]) \in Packet
          /\ Request(auth, c) \/ old[c] = 0
          /\ \A t : Ack(t).mtype = "ACK"
        <3>1. auth.payload = <<old[c], p.payload[1]>>
            BY ControlFields DEF Auth
        <3>2. Request(auth, c) \/ old[c] = 0
            BY <2>2, <3>1 DEF Request
        <3>3. \A t : Ack(t).mtype = "ACK"
            BY ControlFields DEF Ack
        <3> QED
            BY <2>3, <3>2, <3>3, ControlPackets
    <2> HIDE DEF auth
    <2>5. \A d \in Client : \A q \in ToSet(up'[d]) :
            q \in ToSet(up[d]) \/ q.mtype = "ACK" \/ (d = c /\ Request(q, c))
        <3>1. CASE old[c] # 0
            <4>1. Answer(c, <<auth, Ack(old[c])>>)
                BY <2>1, <3>1 DEF auth
            <4>2. /\ <<auth, Ack(old[c])>> \in Seq(Packet)
                  /\ ToSet(<<auth, Ack(old[c])>>) = {auth, Ack(old[c])}
                BY <2>4 DEF ToSet
            <4> QED
                BY <2>4, <3>1, <4>1, <4>2, AnswerElements
        <3>2. CASE old[c] = 0
            <4>1. Answer(c, <<Ack(p.payload[1])>>)
                BY <2>1, <3>2
            <4>2. /\ <<Ack(p.payload[1])>> \in Seq(Packet)
                  /\ ToSet(<<Ack(p.payload[1])>>) = {Ack(p.payload[1])}
                BY <2>4 DEF ToSet
            <4> QED
                BY <2>4, <4>1, <4>2, AnswerElements
        <3> QED
            BY <3>1, <3>2
    <2>6. Travelling'
        <3>1. \A d \in Client : \A q \in ToSet(down'[d]) : q \in ToSet(down[d])
            BY <2>1, RecvElements
        <3> QED
            BY <1>1, <2>5, <3>1 DEF OwnedInv, Travelling, Hello, Request
    <2>7. TokenKnown'
        BY <1>1, <2>1, <2>2, OwnedTypes DEF OwnedInv, TokenKnown
    <2> QED
        BY <1>4, <2>6, <2>7
<1>6. CASE RecvData(c)
    <2>1. PICK p \in ToSet(down[c]) : Recv(c, p) /\ Answer(c, <<Ack(token[c])>>)
        BY <1>6 DEF RecvData
    <2>2. Ack(token[c]) \in Packet /\ Ack(token[c]).mtype = "ACK"
        BY ControlPackets, ControlFields, OwnedTypes DEF Ack
    <2>3. /\ <<Ack(token[c])>> \in Seq(Packet)
          /\ ToSet(<<Ack(token[c])>>) = {Ack(token[c])}
        BY <2>2 DEF ToSet
    <2>4. Travelling'
        <3>1. \A d \in Client : \A q \in ToSet(down'[d]) : q \in ToSet(down[d])
            BY <2>1, RecvElements
        <3>2. \A d \in Client : \A q \in ToSet(up'[d]) :
                q \in ToSet(up[d]) \/ q.mtype = "ACK"
            BY <2>1, <2>2, <2>3, AnswerElements
        <3> QED
            BY <1>1, <3>1, <3>2, TravelStep
    <2>5. TokenKnown'
        BY <1>1, <1>6 DEF OwnedInv, TokenKnown, RecvData
    <2> QED
        BY <1>4, <2>4, <2>5
<1>7. CASE RecvFin(c) \/ RecvUnanswered(c)
    <2>1. UNCHANGED <<up, token>> /\ \E p : Recv(c, p)
        BY <1>7 DEF RecvFin, RecvUnanswered
    <2>2. \A d \in Client : \A q \in ToSet(down'[d]) : q \in ToSet(down[d])
        BY <2>1, RecvElements
    <2>3. Travelling' /\ TokenKnown'
        BY <1>1, <2>1, <2>2, TravelStep DEF OwnedInv, TokenKnown
    <2> QED
        BY <1>4, <2>3
<1>8. CASE Kill(c)
    <2>1. UNCHANGED <<up, down, token>>
        BY <1>8 DEF Kill
    <2>2. Travelling' /\ TokenKnown'
        BY <1>1, <2>1, TravelStep DEF OwnedInv, TokenKnown
    <2> QED
        BY <1>4, <2>2
<1> QED
    BY <1>5, <1>6, <1>7, <1>8 DEF ClientStep

\* The steps that are not about sessions, tokens or connections.
LEMMA OwnedQuiet ==
    ASSUME OwnedInv, TypeInv',
           \/ Producers \/ Operators \/ Tick \/ UNCHANGED vars
           \/ /\ UNCHANGED <<cliente, productor, cmds>>
              /\ \/ Poll \/ Resent \/ NoCommand \/ RefuseCommand \/ NoMessage
                 \/ CollectConnections \/ ConnectionsCollected
                 \/ CollectPackets \/ PacketsCollected
                 \/ \E fd \in Fd : HangUp(fd) \/ ReadFails(fd)
    PROVE  OwnedInv'
<1>1. UNCHANGED <<fdtab, backlog, owner, peer, old, token, down, up,
                  buffer_packets, packet, connections>>
    <2>1. CASE Producers \/ Operators \/ Tick \/ UNCHANGED vars
        BY <2>1 DEF Producers, Stamp, MqSend, GiveUp, Operators, Operator, Tick,
                    vars, ipc, tcp, cliente, server
    <2>2. CASE UNCHANGED <<cliente, productor, cmds>> /\
                (\/ Poll \/ Resent \/ NoCommand \/ RefuseCommand \/ NoMessage
                 \/ CollectConnections \/ ConnectionsCollected
                 \/ CollectPackets \/ PacketsCollected)
        BY <2>2 DEF Poll, Resent, NoCommand, RefuseCommand, NoMessage,
                    CollectConnections, ConnectionsCollected, CollectPackets,
                    PacketsCollected, ipc, tcp, cliente
    <2>3. CASE UNCHANGED <<cliente, productor, cmds>> /\
                \E fd \in Fd : HangUp(fd) \/ ReadFails(fd)
        BY <2>3 DEF HangUp, ReadFails, ipc, tcp, cliente
    <2> QED
        BY <2>1, <2>2, <2>3
<1> QED
    BY <1>1, OwnedFrame

\* A control packet without tokens, written to one descriptor.
LEMMA WriteControl ==
    ASSUME OwnedInv, NEW fd, NEW type \in {"FIN", "CLI_ACCEPTED", "FT_SETUP"},
           down' = Written(To(fd, <<Control(type, <<>>)>>))
    PROVE  \A c \in Client : \A p \in ToSet(down'[c]) :
                p \in ToSet(down[c]) \/ p.mtype # "CONN_ACCEPTED"
<1> DEFINE q == Control(type, <<>>)
<1>1. q \in Packet /\ q.mtype # "CONN_ACCEPTED"
    BY ControlPackets, ControlFields
<1>2. down' = Written(To(fd, <<q>>))
    OBVIOUS
<1> HIDE DEF q
<1>3. \A c \in Client : ToSet(down'[c]) \subseteq ToSet(down[c]) \cup {q}
    BY <1>1, <1>2, OwnedTypes, WriteOne
<1> QED
    BY <1>1, <1>3

\* The steps that only write to clients, or change the buffer.
LEMMA OwnedSend ==
    ASSUME OwnedInv, TypeInv',
           \/ Thread \/ Kernel
           \/ /\ UNCHANGED <<cliente, productor, cmds>>
              /\ Resend \/ MqReceive \/ CollectPacket
    PROVE  OwnedInv'
<1>1. ASSUME UNCHANGED <<fdtab, backlog, owner, peer, old, token, up, packet,
                         connections>>,
             \A c \in Client : \A p \in ToSet(down'[c]) :
                p \in ToSet(down[c]) \/ p.mtype # "CONN_ACCEPTED",
             \A p \in ToSet(buffer_packets') :
                p \in ToSet(buffer_packets) \/ p.mtype = "DATA"
      PROVE  OwnedInv'
    BY <1>1, OwnedWrite
<1>2. /\ buffer_packets \in Seq(Packet) /\ ToSet(<<>>) = {}
      /\ down \in [Client -> Seq(Packet)]
    BY DEF OwnedInv, TypeInv, TypeOK, IpcTypeOK, ServerTypeOK, ToSet
<1>3. CASE Thread
    <2>1. UNCHANGED <<fdtab, backlog, owner, peer, old, token, up, packet,
                      connections, buffer_packets>>
        BY <1>3 DEF Thread, FtSetup, cliente
    <2>2. \/ down' = down
          \/ \E fd : down' = Written(To(fd, <<Control("FT_SETUP", <<>>)>>))
        BY <1>3 DEF Thread, FtSetup
    <2>3. \A c \in Client : \A p \in ToSet(down'[c]) :
                p \in ToSet(down[c]) \/ p.mtype # "CONN_ACCEPTED"
        BY <2>2, WriteControl
    <2> QED
        BY <1>1, <2>1, <2>3
<1>4. CASE Kernel
    <2>1. PICK c \in Client : KernelReset(c)
        BY <1>4 DEF Kernel
    <2>2. /\ UNCHANGED <<fdtab, backlog, owner, peer, old, token, up, packet,
                         connections, buffer_packets>>
          /\ down' = [down EXCEPT ![c] = <<>>]
        BY <1>4, <2>1 DEF Kernel, KernelReset, cliente, server
    <2>3. \A d \in Client : \A p \in ToSet(down'[d]) : p \in ToSet(down[d])
        BY <1>2, <2>2
    <2> QED
        BY <1>1, <2>2, <2>3
<1>5. CASE Resend /\ UNCHANGED cliente
    <2>1. UNCHANGED <<fdtab, backlog, owner, peer, old, token, up, packet,
                      connections, buffer_packets>>
        BY <1>5 DEF Resend, cliente
    <2> DEFINE p   == buffer_packets[iter]
               out == IF ToResend(connections[orig_conn], p) THEN <<p>> ELSE <<>>
               fd  == connections[orig_conn].sockfd
    <2>2. down' = Written(To(fd, out))
        BY <1>5 DEF Resend
    <2>3. iter \in DOMAIN buffer_packets
        <3>1. iter \in Nat /\ iter > 0 /\ iter <= Len(buffer_packets)
            BY <1>5 DEF Resend, OwnedInv, TypeInv, TypeOK, ServerTypeOK, IterStarted
        <3> QED
            BY <1>2, <3>1
    <2>4. p \in ToSet(buffer_packets) /\ p \in Packet
        BY <1>2, <2>3, ElementsDef
    <2>5. p.mtype = "DATA"
        BY <2>4 DEF OwnedInv, Travelling
    <2> HIDE DEF p, fd
    <2>6. /\ <<p>> \in Seq(Packet) /\ out \in Seq(Packet) /\ ToSet(out) \subseteq {p}
        BY <1>2, <2>4 DEF ToSet
    <2> HIDE DEF out
    <2>7. ASSUME NEW c \in Client
          PROVE  ToSet(down'[c]) \subseteq ToSet(down[c]) \cup {p}
        <3>1. To(fd, out) \in [Client -> Seq(Packet)]
            BY <2>6, ToType
        <3>2. ToSet(To(fd, out)[c]) \subseteq {p}
            BY <1>2, <2>6 DEF To
        <3> QED
            BY <2>2, <3>1, <3>2, OwnedTypes, WrittenElements
    <2> QED
        BY <1>1, <2>1, <2>5, <2>7
<1>6. CASE MqReceive /\ UNCHANGED cliente
    <2>1. UNCHANGED <<fdtab, backlog, owner, peer, old, token, up, packet,
                      connections>>
        BY <1>6 DEF MqReceive, cliente
    <2> DEFINE m == Head(mq)
    <2>2. m \in Message
        <3>1. mq \in Seq(Message) /\ mq # <<>>
            BY <1>6 DEF MqReceive, OwnedInv, TypeInv, TypeOK, IpcTypeOK
        <3> QED
            BY ONLY <3>1, HeadTailProperties
    <2>3. PICK fits \in BOOLEAN :
            /\ down' = Written(Broadcast(susc_room[m.id], DataPacket(m, fits)))
            /\ buffer_packets' = <<DataPacket(m, fits)>> \o buffer_packets
        BY <1>6 DEF MqReceive
    <2> HIDE DEF m
    <2> DEFINE p   == DataPacket(m, fits)
               out == Broadcast(susc_room[m.id], p)
    <2>4. p \in Packet /\ p.mtype = "DATA"
        <3>1. now \in Nat
            BY DEF OwnedInv, TypeInv, TypeOK, IpcTypeOK
        <3>2. p.mtype = "DATA"
            BY DEF DataPacket, gen_packet
        <3> QED
            BY <2>2, <3>1, <3>2, DataPacketType
    <2> HIDE DEF p
    <2>5. out \in [Client -> Seq(Packet)]
        <3>1. susc_room[m.id] \in Seq(Fd \cup {BadFd})
            BY <2>2 DEF Message, OwnedInv, TypeInv, TypeOK, ServerTypeOK
        <3> QED
            BY <2>4, <3>1, BroadcastType
    <2>6. \A c \in Client : ToSet(out[c]) \subseteq {p}
        BY DEF Broadcast, ToSet
    <2> HIDE DEF out
    <2>7. \A c \in Client : ToSet(down'[c]) \subseteq ToSet(down[c]) \cup {p}
        BY <2>3, <2>5, <2>6, OwnedTypes, WrittenElements DEF out, p
    <2>8. ToSet(buffer_packets') \subseteq ToSet(buffer_packets) \cup {p}
        <3>1. <<p>> \in Seq(Packet) /\ ToSet(<<p>>) = {p}
            BY <2>4 DEF ToSet
        <3>2. buffer_packets' = <<p>> \o buffer_packets
            BY <2>3 DEF p
        <3> QED
            BY <1>2, <3>1, <3>2, ConcatElements
    <2> QED
        BY <1>1, <2>1, <2>4, <2>7, <2>8
<1>7. CASE CollectPacket /\ UNCHANGED cliente
    <2>1. UNCHANGED <<fdtab, backlog, owner, peer, old, token, up, down, packet,
                      connections>>
        BY <1>7 DEF CollectPacket, ipc, tcp, cliente
    <2>2. PICK i \in DOMAIN buffer_packets :
                buffer_packets' = RemoveAt(buffer_packets, i)
        BY <1>7 DEF CollectPacket
    <2>3. ToSet(buffer_packets') \subseteq ToSet(buffer_packets)
        BY <1>2, <2>2, RemoveAtElements, ElementsDef
    <2> QED
        BY <1>1, <2>1, <2>3
<1> QED
    BY <1>3, <1>4, <1>5, <1>6, <1>7

\* Reads that are no AUTH.
LEMMA OwnedRead ==
    ASSUME OwnedInv, TypeInv', UNCHANGED <<cliente, productor, cmds>>,
           NEW fd \in Fd, ReadInvalid(fd) \/ RecvAck(fd) \/ RecvUnknownAck(fd)
    PROVE  OwnedInv'
<1>1. UNCHANGED <<fdtab, backlog, owner, peer, old, token, down, buffer_packets>>
    BY DEF ReadInvalid, RecvAck, RecvUnknownAck, cliente
<1>2. PICK p \in Buffered(fd) :
        /\ Read(fd, p) /\ ~(check_packet_MD5(p) /\ p.mtype = "AUTH")
        /\ up' = AfterRead(fd)
        /\ \/ connections' = connections
           \/ /\ FindToken(connections, p.payload[1]) # 0
              /\ connections' = [connections EXCEPT
                    ![FindToken(connections, p.payload[1])].timestamp = now]
    BY DEF ReadInvalid, RecvAck, RecvUnknownAck
<1>3. SlotSpent'
    BY <1>2, SlotStep
<1>4. Travelling'
    <2>1. \A c \in Client : \A q \in ToSet(up'[c]) : q \in ToSet(up[c])
        BY <1>2, ReadElements
    <2> QED
        BY <1>1, <2>1, TravelStep
<1>5. TokensDistinct(connections') /\ EntriesOwned'
    <2>1. CASE connections' = connections
        BY <1>1, <2>1 DEF OwnedInv, EntriesOwned, EntryOwned, Entries
    <2>2. CASE /\ FindToken(connections, p.payload[1]) # 0
               /\ connections' = [connections EXCEPT
                    ![FindToken(connections, p.payload[1])].timestamp = now]
        <3> DEFINE i == FindToken(connections, p.payload[1])
                   e == [connections[i] EXCEPT !.timestamp = now]
        <3>1. i \in DOMAIN connections /\ connections' = [connections EXCEPT ![i] = e]
            BY <2>2, OwnedTypes, TokenFound
        <3> HIDE DEF i
        <3>2. connections[i] \in Connection /\ now \in Nat
            BY <3>1, OwnedTypes DEF IpcTypeOK
        <3>3. /\ e \in Connection /\ e.token = connections[i].token
              /\ e.sockfd = connections[i].sockfd
            BY <3>2 DEF Connection
        <3> HIDE DEF e
        <3> QED
            BY <1>1, <3>1, <3>3, SameSessions
    <2> QED
        BY <1>2, <2>1, <2>2
<1>6. Wired' /\ PlainOld' /\ TokenKnown'
    BY <1>1 DEF OwnedInv, Wired, PlainOld, TokenKnown
<1> QED
    BY <1>3, <1>4, <1>5, <1>6 DEF OwnedInv

\* The commands change the counter and the timestamp of an entry.
LEMMA OwnedCli ==
    ASSUME OwnedInv, TypeInv', UNCHANGED <<cliente, productor, cmds>>,
           CmdAdd \/ CmdDel \/ CmdLog
    PROVE  OwnedInv'
<1>1. UNCHANGED <<fdtab, backlog, owner, peer, old, token, up, buffer_packets, packet>>
    BY DEF CmdAdd, CmdDel, CmdLog, tcp, cliente
<1>2. Travelling'
    <2>1. \A c \in Client : \A p \in ToSet(down'[c]) :
            p \in ToSet(down[c]) \/ p.mtype # "CONN_ACCEPTED"
        <3>1. CASE CmdAdd
            BY <3>1, WriteControl DEF CmdAdd
        <3>2. CASE CmdDel \/ CmdLog
            BY <3>2 DEF CmdDel, CmdLog, tcp
        <3> QED
            BY <3>1, <3>2
    <2> QED
        BY <1>1, <2>1, TravelStep
<1>3. PICK i \in DOMAIN connections :
        \/ connections' = [connections EXCEPT ![i].susc_counter = @ + 1,
                                              ![i].timestamp = now]
        \/ connections' = [connections EXCEPT ![i].susc_counter = @ - 1,
                                              ![i].timestamp = now]
        \/ connections' = [connections EXCEPT ![i].timestamp = now]
    BY DEF CmdAdd, CmdDel, CmdLog
<1>4. connections[i] \in Connection /\ now \in Nat
      /\ connections \in Seq(Connection) /\ BadFd \in Fd \cup {BadFd}
    BY OwnedTypes DEF IpcTypeOK
<1>5. PICK e \in Connection :
        /\ e.token = connections[i].token /\ e.sockfd = connections[i].sockfd
        /\ connections' = [connections EXCEPT ![i] = e]
    <2> DEFINE plus  == [connections[i] EXCEPT !.susc_counter = @ + 1, !.timestamp = now]
               minus == [connections[i] EXCEPT !.susc_counter = @ - 1, !.timestamp = now]
               same  == [connections[i] EXCEPT !.timestamp = now]
    <2>1. plus \in Connection /\ minus \in Connection /\ same \in Connection
        BY ONLY <1>4, ConnectionType
    <2>2. /\ plus.token = connections[i].token /\ plus.sockfd = connections[i].sockfd
          /\ minus.token = connections[i].token /\ minus.sockfd = connections[i].sockfd
          /\ same.token = connections[i].token /\ same.sockfd = connections[i].sockfd
        BY <1>4 DEF Connection
    <2>3. \/ connections' = [connections EXCEPT ![i] = plus]
          \/ connections' = [connections EXCEPT ![i] = minus]
          \/ connections' = [connections EXCEPT ![i] = same]
        BY <1>3, <1>4 DEF Connection
    <2> HIDE DEF plus, minus, same
    <2> QED
        BY <2>1, <2>2, <2>3
<1>6. /\ TokensDistinct(connections') /\ EntriesOwned'
      /\ \A a \in Entries' : \E b \in Entries : a.token = b.token /\ a.sockfd = b.sockfd
    BY <1>1, <1>5, SameSessions
<1>7. Wired' /\ PlainOld' /\ TokenKnown' /\ SlotSpent'
    BY <1>1, <1>6 DEF OwnedInv, Wired, PlainOld, TokenKnown, SlotSpent
<1> QED
    BY <1>2, <1>6, <1>7 DEF OwnedInv

\* Issuing a token, to a client or after an accept that failed.
LEMMA IssueToken ==
    ASSUME OwnedInv, NEW x \in Client \cup {NoClient}, NEW fd \in Fd \cup {BadFd},
           owner' = Append(owner, x),
           connections' = Append(connections, NewConnection(fd)),
           UNCHANGED <<old, token, packet>>
    PROVE  /\ Len(owner) + 1 \notin DOMAIN owner
           /\ DOMAIN owner' = DOMAIN owner \cup {Len(owner) + 1}
           /\ \A t \in DOMAIN owner : owner'[t] = owner[t]
           /\ owner'[Len(owner) + 1] = x
           /\ ToSet(owner') = ToSet(owner) \cup {x}
           /\ Entries' = Entries \cup {NewConnection(fd)}
           /\ NewConnection(fd).token = Len(owner) + 1
           /\ NewConnection(fd).sockfd = fd
           /\ TokensDistinct(connections')
           /\ PlainOld' /\ TokenKnown' /\ SlotSpent'
<1> DEFINE n == Len(owner) + 1
           e == NewConnection(fd)
<1>1. owner \in Seq(Client \cup {NoClient}) /\ Len(owner) \in Nat
      /\ DOMAIN owner = 1 .. Len(owner)
    BY OwnedTypes
<1>2. /\ owner' \in Seq(Client \cup {NoClient}) /\ Len(owner') = Len(owner) + 1
      /\ \A t \in 1 .. Len(owner) : owner'[t] = owner[t] /\ owner'[Len(owner) + 1] = x
      /\ owner'[Len(owner) + 1] = x
    BY <1>1, AppendProperties
<1>3. ToSet(owner') = ToSet(owner) \cup {x}
    BY <1>1, AppendElements
<1>4. n \notin DOMAIN owner /\ DOMAIN owner' = DOMAIN owner \cup {n}
    BY <1>1, <1>2
<1>5. /\ e \in Connection /\ e.token = n /\ e.sockfd = fd
    <2>1. now \in Nat /\ n \in Nat
        BY <1>1, OwnedTypes DEF IpcTypeOK
    <2> QED
        BY <2>1 DEF NewConnection, Connection
<1> HIDE DEF n
<1>6. \A a \in Entries : a.token \in DOMAIN owner
    BY DEF OwnedInv, EntriesOwned, EntryOwned
<1> HIDE DEF e
<1>7. TokensDistinct(connections') /\ Entries' = Entries \cup {e}
    <2>1. connections \in Seq(Connection) /\ TokensDistinct(connections)
        BY OwnedTypes DEF OwnedInv
    <2>2. \A a \in ToSet(connections) : a.token # e.token
        BY <1>4, <1>5, <1>6 DEF Entries
    <2>3. connections' = Append(connections, e)
        BY DEF e
    <2> QED
        BY <1>5, <2>1, <2>2, <2>3, AppendEntry DEF Entries
<1>8. PlainOld' /\ TokenKnown'
    BY <1>1, <1>2, <1>4 DEF OwnedInv, PlainOld, TokenKnown
<1>9. SlotSpent'
    BY <1>4, <1>5, <1>7 DEF OwnedInv, SlotSpent
<1> QED
    BY <1>1, <1>2, <1>3, <1>4, <1>5, <1>7, <1>8, <1>9 DEF n, e

\* A connection that is accepted: its descriptor was nobody's, its client had no
\* session, and its token is new.
LEMMA OwnedAccept ==
    ASSUME OwnedInv, TypeInv', UNCHANGED <<cliente, productor, cmds>>, Accept
    PROVE  OwnedInv'
<1> DEFINE fd    == Min(FreeFd)
           c     == Head(backlog)
           n     == Len(owner) + 1
           hello == Control("CONN_ACCEPTED", <<n>>)
<1>1. /\ fdtab' = [fdtab EXCEPT ![fd] = c]
      /\ down' = [down EXCEPT ![c] = IF c \in reset THEN @ ELSE Push(@, <<hello>>)]
      /\ owner' = Append(owner, c)
      /\ connections' = Append(connections, NewConnection(fd))
      /\ backlog' = Tail(backlog)
      /\ UNCHANGED <<up, peer, old, token, packet, buffer_packets>>
    BY DEF Accept, cliente
<1>2. fd \in Fd /\ fdtab[fd] = NoClient
    <2>1. FreeFd \in SUBSET Nat /\ FreeFd # {}
        BY IpcAssumption DEF Accept, FreeFd, Fd
    <2>2. Min(FreeFd) \in FreeFd
        BY <2>1, MinNat
    <2> QED
        BY <2>2 DEF FreeFd
<1> HIDE DEF fd
<1>3. backlog \in Seq(Client) /\ backlog # <<>>
    BY OwnedTypes DEF Accept, Handling, OwnedInv, TypeInv, ListenReady
<1>4. c \in ToSet(backlog) /\ c \in Client
    BY <1>3, HeadTailElements, ElementsDef
<1>5. ToSet(backlog') \subseteq ToSet(backlog) \ {c}
      /\ \A i, j \in DOMAIN backlog' : backlog'[i] = backlog'[j] => i = j
    <2>1. /\ c = backlog[1] /\ Len(backlog) \in Nat /\ Len(backlog) > 0
          /\ backlog' \in Seq(Client) /\ Len(backlog') = Len(backlog) - 1
          /\ \A i \in 1 .. Len(backlog') : backlog'[i] = backlog[i + 1]
        BY <1>1, <1>3, HeadTailProperties, EmptySeq
    <2>2. DOMAIN backlog' = 1 .. Len(backlog) - 1 /\ 1 \in DOMAIN backlog
          /\ \A i \in 1 .. Len(backlog) - 1 : i + 1 \in DOMAIN backlog /\ i + 1 # 1
        BY <1>3, <2>1
    <2>3. \A i, j \in DOMAIN backlog : backlog[i] = backlog[j] => i = j
        BY DEF OwnedInv, Wired
    <2>4. \A i \in DOMAIN backlog' : backlog'[i] = backlog[i + 1] /\ backlog'[i] # c
        BY <2>1, <2>2, <2>3
    <2>5. \A i, j \in DOMAIN backlog' : backlog'[i] = backlog'[j] => i = j
        <3>1. ASSUME NEW i \in DOMAIN backlog', NEW j \in DOMAIN backlog',
                     backlog'[i] = backlog'[j]
              PROVE  i = j
            <4>1. i + 1 = j + 1
                BY <2>2, <2>3, <2>4, <3>1
            <4> QED
                BY <2>2, <4>1
        <3> QED
            BY <3>1
    <2>6. ToSet(backlog') \subseteq ToSet(backlog)
        BY <1>1, <1>3, HeadTailElements
    <2>7. c \notin ToSet(backlog')
        BY <2>1, <2>4, ElementsDef
    <2> QED
        BY <2>5, <2>6, <2>7
<1> HIDE DEF c
<1>6. /\ n \notin DOMAIN owner /\ DOMAIN owner' = DOMAIN owner \cup {n}
      /\ \A t \in DOMAIN owner : owner'[t] = owner[t]
      /\ owner'[n] = c /\ ToSet(owner') = ToSet(owner) \cup {c}
      /\ Entries' = Entries \cup {NewConnection(fd)}
      /\ NewConnection(fd).token = n /\ NewConnection(fd).sockfd = fd
      /\ TokensDistinct(connections') /\ PlainOld' /\ TokenKnown' /\ SlotSpent'
    BY <1>1, <1>2, <1>4, IssueToken
<1>7. c \notin ToSet(owner)
    BY <1>4 DEF OwnedInv, Wired
<1>8. /\ fdtab'[fd] = c
      /\ \A f \in Fd : f # fd => fdtab'[f] = fdtab[f]
      /\ \A f \in Fd : fdtab[f] # c
    BY <1>1, <1>2, <1>4, <1>7, OwnedTypes DEF OwnedInv, Wired
<1>9. Wired'
    <2>1. \A t \in DOMAIN owner : owner[t] # c
        BY <1>7, OwnedTypes
    <2>2. \A t, u \in DOMAIN owner' :
                owner'[t] = owner'[u] /\ owner'[t] \in Client => t = u
        BY <1>6, <2>1 DEF OwnedInv, Wired
    <2>3. \A f, g \in Fd : fdtab'[f] = fdtab'[g] /\ fdtab'[f] # NoClient => f = g
        BY <1>8 DEF OwnedInv, Wired
    <2>4. \A f \in Fd : fdtab'[f] # NoClient => fdtab'[f] \in ToSet(owner')
        BY <1>6, <1>8 DEF OwnedInv, Wired
    <2>5. \A d \in ToSet(backlog') : d \notin ToSet(owner')
        BY <1>5, <1>6 DEF OwnedInv, Wired
    <2>6. \A d \in Client : peer'[d] = "unborn" =>
                d \notin ToSet(backlog') \cup ToSet(owner')
        BY <1>1, <1>4, <1>5, <1>6 DEF OwnedInv, Wired
    <2> QED
        BY <1>5, <2>2, <2>3, <2>4, <2>5, <2>6 DEF Wired
<1>10. Travelling'
    <2>1. hello \in Packet /\ hello.payload[1] = n
        BY ControlPackets, ControlFields, OwnedTypes
    <2> HIDE DEF n, hello
    <2>2. <<hello>> \in Seq(Packet) /\ ToSet(<<hello>>) = {hello}
        BY <2>1 DEF ToSet
    <2>3. \A d \in Client : \A p \in ToSet(down'[d]) :
            p \in ToSet(down[d]) \/ (d = c /\ p = hello)
        <3>1. ToSet(Push(down[c], <<hello>>)) \subseteq ToSet(down[c]) \cup {hello}
            BY <1>4, <2>2, OwnedTypes, PushElements
        <3>2. down \in [Client -> Seq(Packet)]
            BY OwnedTypes DEF IpcTypeOK
        <3> QED
            BY <1>1, <1>4, <3>1, <3>2
    <2>4. ASSUME NEW d \in Client, NEW p \in ToSet(down'[d])
          PROVE  Hello(p, d)'
        <3>1. CASE p \in ToSet(down[d])
            BY <1>6, <3>1 DEF OwnedInv, Travelling, Hello
        <3>2. CASE d = c /\ p = hello
            BY <1>6, <2>1, <3>2 DEF Hello
        <3> QED
            BY <2>3, <3>1, <3>2
    <2>5. ASSUME NEW d \in Client, NEW p \in ToSet(up'[d])
          PROVE  Request(p, d)'
        BY <1>1, <1>6, <2>5 DEF OwnedInv, Travelling, Request
    <2> QED
        BY <1>1, <2>4, <2>5 DEF OwnedInv, Travelling
<1>11. EntriesOwned'
    <2>1. \A a \in Entries : a.sockfd # BadFd => a.sockfd \in Fd /\ a.sockfd # fd
        BY <1>2, OwnedTypes DEF OwnedInv, EntriesOwned, EntryOwned, Connection
    <2>2. ASSUME NEW a \in Entries
          PROVE  EntryOwned(a)'
        BY <1>1, <1>6, <1>8, <2>1 DEF OwnedInv, EntriesOwned, EntryOwned
    <2>3. ASSUME NEW a \in Entries' \ Entries
          PROVE  EntryOwned(a)'
        <3>1. fd # BadFd /\ c # NoClient
            BY <1>2, <1>4, IpcAssumption DEF Fd, BadFd
        <3> HIDE DEF n
        <3> QED
            BY <1>4, <1>6, <1>8, <3>1 DEF EntryOwned
    <2>4. \A a, b \in Entries' : a.sockfd = b.sockfd /\ a.sockfd # BadFd => a = b
        BY <1>6, <2>1 DEF OwnedInv, EntriesOwned
    <2> QED
        BY <1>6, <2>2, <2>3, <2>4 DEF EntriesOwned
<1> QED
    BY <1>6, <1>9, <1>10, <1>11 DEF OwnedInv

\* An accept that fails leaves an entry of nobody.
LEMMA OwnedAcceptFails ==
    ASSUME OwnedInv, TypeInv', UNCHANGED <<cliente, productor, cmds>>, AcceptFails
    PROVE  OwnedInv'
<1>1. /\ UNCHANGED <<fdtab, backlog, peer, old, token, up, down, packet, buffer_packets>>
      /\ owner' = Append(owner, NoClient)
      /\ connections' = Append(connections, NewConnection(BadFd))
    BY DEF AcceptFails, ipc, tcp, cliente
<1> DEFINE n == Len(owner) + 1
           e == NewConnection(BadFd)
<1>2. /\ n \notin DOMAIN owner /\ DOMAIN owner' = DOMAIN owner \cup {n}
      /\ \A t \in DOMAIN owner : owner'[t] = owner[t]
      /\ owner'[n] = NoClient /\ ToSet(owner') = ToSet(owner) \cup {NoClient}
      /\ Entries' = Entries \cup {e} /\ e.token = n /\ e.sockfd = BadFd
      /\ TokensDistinct(connections') /\ PlainOld' /\ TokenKnown' /\ SlotSpent'
    BY <1>1, IssueToken
<1> HIDE DEF n, e
<1>3. NoClient \notin Client /\ backlog \in Seq(Client)
    BY OwnedTypes
<1>4. Wired'
    <2>1. NoClient \notin ToSet(backlog)
        BY <1>3, ElementsDef
    <2> QED
        BY <1>1, <1>2, <1>3, <2>1 DEF OwnedInv, Wired
<1>5. Travelling'
    BY <1>1, <1>2 DEF OwnedInv, Travelling, Hello, Request
<1>6. EntriesOwned'
    BY <1>1, <1>2 DEF OwnedInv, EntriesOwned, EntryOwned
<1> QED
    BY <1>2, <1>4, <1>5, <1>6 DEF OwnedInv

\* close makes a descriptor nobody's and leaves the others.
LEMMA CloseFd ==
    ASSUME OwnedInv, NEW fd, fdtab' = Closed(fd),
           UNCHANGED <<backlog, owner, peer>>
    PROVE  /\ Wired'
           /\ \A f \in Fd : f # fd => fdtab'[f] = fdtab[f]
<1>1. \A f \in Fd : fdtab'[f] = IF f = fd THEN NoClient ELSE fdtab[f]
    BY DEF Closed
<1> QED
    BY <1>1 DEF OwnedInv, Wired

\* What is left to read after a close, or a read and a close.
LEMMA DrainElements ==
    ASSUME OwnedInv, NEW fd, NEW inq, NEW c \in Client,
           ToSet(inq[c]) \subseteq ToSet(up[c])
    PROVE  ToSet(Drained(fd, inq)[c]) \subseteq ToSet(up[c])
<1>1. ToSet(<<>>) = {}
    BY DEF ToSet
<1> QED
    BY <1>1 DEF Drained

\* An AUTH that is rejected takes the session of its connection with it.
LEMMA OwnedRejected ==
    ASSUME OwnedInv, TypeInv', UNCHANGED <<cliente, productor, cmds>>,
           NEW fd \in Fd, RecvAuthRejected(fd)
    PROVE  OwnedInv'
<1>1. UNCHANGED <<fdtab, backlog, owner, peer, old, token, buffer_packets>>
    BY DEF RecvAuthRejected, cliente
<1>2. PICK p \in Buffered(fd) :
        /\ Read(fd, p) /\ check_packet_MD5(p) /\ p.mtype = "AUTH"
        /\ connections' = DeleteToken(connections, p.payload[2])
        /\ up' = AfterRead(fd)
        /\ down' = Written(To(fd, <<Control("FIN", <<>>)>>))
    BY DEF RecvAuthRejected
<1>3. connections \in Seq(Connection) /\ TokensDistinct(connections)
    BY OwnedTypes DEF OwnedInv
<1>4. /\ TokensDistinct(connections')
      /\ Entries' = {a \in Entries : a.token # p.payload[2]}
    BY <1>2, <1>3, DeleteTokenElements DEF Entries
<1>5. EntriesOwned'
    BY <1>1, <1>4 DEF OwnedInv, EntriesOwned, EntryOwned
<1>6. SlotSpent'
    <2>1. packet' = p \/ packet' = Garbage
        BY <1>2 DEF Read
    <2>2. p.payload[2] \in DOMAIN owner
        BY <1>2, ReadAuth
    <2>3. Garbage.mtype # "AUTH"
        BY DEF Garbage
    <2> QED
        BY <1>1, <1>4, <2>1, <2>2, <2>3 DEF SlotSpent
<1>7. Travelling'
    <2>1. \A c \in Client : \A q \in ToSet(down'[c]) :
            q \in ToSet(down[c]) \/ q.mtype # "CONN_ACCEPTED"
        BY <1>2, WriteControl
    <2>2. \A c \in Client : \A q \in ToSet(up'[c]) : q \in ToSet(up[c])
        BY <1>2, ReadElements
    <2> QED
        BY <1>1, <2>1, <2>2, TravelStep
<1>8. Wired' /\ PlainOld' /\ TokenKnown'
    BY <1>1 DEF OwnedInv, Wired, PlainOld, TokenKnown
<1> QED
    BY <1>4, <1>5, <1>6, <1>7, <1>8 DEF OwnedInv

\* An AUTH that is accepted comes from the client of the session it names, on
\* the descriptor of the session it gives up, e; orig becomes kept.
LEMMA AcceptedAuth ==
    ASSUME OwnedInv, NEW fd \in Fd, RecvAuthAccepted(fd)
    PROVE  \E p \in Buffered(fd), e \in Entries, orig \in Entries, kept \in Connection :
            /\ Read(fd, p) /\ p.payload[2] = e.token
            /\ fdtab[fd] \in Client /\ old[fdtab[fd]] = orig.token
            /\ e.token \in DOMAIN owner /\ owner[e.token] = fdtab[fd]
            /\ orig.token \in DOMAIN owner /\ owner[orig.token] \in Client
            /\ old[fdtab[fd]] # 0 /\ old[owner[orig.token]] = 0
            /\ e.sockfd = fd /\ orig.sockfd \notin {fd, BadFd}
            /\ kept = [orig EXCEPT !.sockfd = fd]
            /\ fdtab' = Closed(orig.sockfd)
            /\ up' = Drained(orig.sockfd, AfterRead(fd))
            /\ susc_room' = [r \in Room |-> ReplaceFd(susc_room[r], orig.sockfd, fd)]
            /\ TokensDistinct(connections')
            /\ Entries' = (Entries \ {e, orig}) \cup {kept}
<1>2. PICK p \in Buffered(fd) :
        /\ Read(fd, p) /\ check_packet_MD5(p) /\ p.mtype = "AUTH"
        /\ FindToken(connections, p.payload[2]) # 0
        /\ LET rest == DeleteToken(connections, p.payload[2])
               iOld == FindToken(rest, p.payload[1])
               orig == rest[iOld]
           IN  /\ iOld # 0
               /\ fdtab' = Closed(orig.sockfd)
               /\ up' = Drained(orig.sockfd, AfterRead(fd))
               /\ susc_room' =
                    [r \in Room |-> ReplaceFd(susc_room[r], orig.sockfd, fd)]
               /\ connections' = [rest EXCEPT ![iOld].sockfd = fd]
    BY DEF RecvAuthAccepted
<1> DEFINE t    == p.payload[1]
           u    == p.payload[2]
           rest == DeleteToken(connections, u)
           iOld == FindToken(rest, t)
           orig == rest[iOld]
           e    == connections[FindToken(connections, u)]
           kept == [orig EXCEPT !.sockfd = fd]
<1>3. connections \in Seq(Connection) /\ TokensDistinct(connections)
    BY OwnedTypes DEF OwnedInv
<1>4. e \in Entries /\ e.token = u
    BY <1>2, <1>3, TokenFound DEF Entries
<1> HIDE DEF e
<1>5. /\ rest \in Seq(Connection) /\ TokensDistinct(rest)
      /\ ToSet(rest) = Entries \ {e}
    <2>1. /\ rest \in Seq(Connection) /\ TokensDistinct(rest)
          /\ ToSet(rest) = {a \in Entries : a.token # u}
        BY <1>3, DeleteTokenElements DEF Entries
    <2>2. \A a \in Entries : a.token = u => a = e
        BY <1>3, <1>4, TokenNames DEF Entries
    <2> QED
        BY <1>4, <2>1, <2>2
<1>6. /\ iOld # 0 /\ fdtab' = Closed(orig.sockfd)
      /\ up' = Drained(orig.sockfd, AfterRead(fd))
      /\ susc_room' = [r \in Room |-> ReplaceFd(susc_room[r], orig.sockfd, fd)]
      /\ connections' = [rest EXCEPT ![iOld].sockfd = fd]
    BY <1>2
<1> HIDE DEF rest
<1>7. iOld \in DOMAIN rest /\ orig \in ToSet(rest) /\ orig.token = t
    BY <1>5, <1>6, TokenFound
<1> HIDE DEF iOld
<1>8. /\ kept \in Connection /\ kept.token = t
      /\ connections' = [rest EXCEPT ![iOld] = kept]
    <2>1. orig \in Connection
        BY <1>5, <1>7, ElementsDef
    <2>2. kept \in Connection
        BY <2>1 DEF Connection
    <2>3. kept.token = t
        BY <1>7, <2>1 DEF Connection
    <2>4. connections' = [rest EXCEPT ![iOld] = kept]
        BY <1>6
    <2> QED
        BY <2>2, <2>3, <2>4
<1>9. kept = [orig EXCEPT !.sockfd = fd]
    OBVIOUS
<1>10. orig \in Entries \ {e} /\ orig.token = t
    BY <1>5, <1>7
<1>11. TokensDistinct(connections') /\ Entries' = (Entries \ {e, orig}) \cup {kept}
    <2> HIDE DEF kept
    <2>1. kept.token = rest[iOld].token
        BY <1>7, <1>8
    <2>2. /\ TokensDistinct(connections')
          /\ ToSet(connections') = (ToSet(rest) \ {orig}) \cup {kept}
        BY <1>5, <1>7, <1>8, <2>1, ReplaceEntry
    <2> QED
        BY <1>5, <2>2 DEF Entries
<1> HIDE DEF orig, kept
<1>12. /\ fdtab[fd] \in Client /\ t = old[fdtab[fd]] /\ old[fdtab[fd]] # 0
       /\ u \in DOMAIN owner /\ owner[u] = fdtab[fd]
    <2>1. At(fd) \in Client /\ Request(p, At(fd))
        BY <1>2, <1>4, ReadAuth
    <2> QED
        BY <1>2, <2>1 DEF At, Request
<1>13. e.sockfd = fd
    <2>1. /\ EntryOwned(e) /\ e \in Connection
        BY <1>4, OwnedTypes DEF OwnedInv, EntriesOwned
    <2>2. e.sockfd # BadFd /\ e.sockfd \in Fd /\ fdtab[e.sockfd] \in Client
        BY <1>4, <1>12, <2>1, OwnedTypes DEF EntryOwned, Connection
    <2>3. owner[u] = fdtab[e.sockfd] \/ old[fdtab[e.sockfd]] = u
        BY <1>4, <2>1, <2>2 DEF EntryOwned
    <2>4. old[fdtab[e.sockfd]] # u
        <3>1. ASSUME old[fdtab[e.sockfd]] = u
              PROVE  FALSE
            <4>1. u # 0
                BY <1>12, OwnedTypes
            <4>2. old[owner[u]] = 0
                BY <2>2, <3>1, <4>1 DEF OwnedInv, PlainOld
            <4> QED
                BY <1>12, <4>2
        <3> QED
            BY <3>1
    <2>5. fdtab[e.sockfd] = fdtab[fd] /\ fdtab[fd] # NoClient
        BY <1>12, <2>3, <2>4, OwnedTypes
    <2> QED
        BY <2>2, <2>5 DEF OwnedInv, Wired
<1>14. /\ orig.sockfd # BadFd /\ orig.sockfd # fd
       /\ t \in DOMAIN owner /\ owner[t] \in Client /\ old[owner[t]] = 0
    <2>1. t \in DOMAIN owner /\ owner[t] \in Client /\ old[owner[t]] = 0
        BY <1>12 DEF OwnedInv, PlainOld
    <2>2. orig.sockfd # BadFd
        BY <1>10, <2>1, OwnedTypes DEF OwnedInv, EntriesOwned, EntryOwned
    <2>3. orig.sockfd # fd
        BY <1>4, <1>10, <1>13, <2>2 DEF OwnedInv, EntriesOwned
    <2> QED
        BY <2>1, <2>2, <2>3
<1> p \in Buffered(fd) /\ e \in Entries /\ orig \in Entries /\ kept \in Connection
    BY <1>2, <1>4, <1>8, <1>10
<1> WITNESS p \in Buffered(fd), e \in Entries, orig \in Entries, kept \in Connection
<1> QED
    <2> HIDE DEF t, u
    <2>1. p.payload[2] = e.token /\ orig.token = t /\ e.token = u
        BY <1>4, <1>10 DEF u
    <2> QED
        BY <1>2, <1>6, <1>9, <1>11, <1>12, <1>13, <1>14, <2>1

\* ... so the entry that is left is the client's.
LEMMA OwnedAccepted ==
    ASSUME OwnedInv, TypeInv', UNCHANGED <<cliente, productor, cmds>>,
           NEW fd \in Fd, RecvAuthAccepted(fd)
    PROVE  OwnedInv'
<1>1. UNCHANGED <<backlog, down, owner, peer, old, token, buffer_packets>>
    BY DEF RecvAuthAccepted, cliente
<1>2. PICK p \in Buffered(fd), e \in Entries, orig \in Entries, kept \in Connection :
        /\ Read(fd, p) /\ p.payload[2] = e.token
        /\ fdtab[fd] \in Client /\ old[fdtab[fd]] = orig.token
        /\ e.token \in DOMAIN owner
        /\ orig.token \in DOMAIN owner /\ owner[orig.token] \in Client
        /\ e.sockfd = fd /\ orig.sockfd \notin {fd, BadFd}
        /\ kept = [orig EXCEPT !.sockfd = fd]
        /\ fdtab' = Closed(orig.sockfd)
        /\ up' = Drained(orig.sockfd, AfterRead(fd))
        /\ TokensDistinct(connections')
        /\ Entries' = (Entries \ {e, orig}) \cup {kept}
    BY AcceptedAuth
<1>3. kept.sockfd = fd /\ kept.token = orig.token /\ fd # BadFd
    <2>1. orig \in Connection
        BY <1>2, OwnedTypes
    <2>2. kept.sockfd = fd /\ kept.token = orig.token
        BY <1>2, <2>1 DEF Connection
    <2> QED
        BY <2>2, IpcAssumption DEF Fd, BadFd
<1>4. Wired' /\ \A f \in Fd : f # orig.sockfd => fdtab'[f] = fdtab[f]
    BY <1>1, <1>2, CloseFd
<1>5. \A a \in Entries : a.token = e.token => a = e
    BY OwnedTypes, TokenNames DEF OwnedInv, Entries
<1>6. EntriesOwned'
    <2>1. ASSUME NEW a \in Entries \ {e, orig}
          PROVE  /\ EntryOwned(a)'
                 /\ a.sockfd # BadFd => a.sockfd # fd
        <3>1. EntryOwned(a) /\ a \in Connection
            BY OwnedTypes DEF OwnedInv, EntriesOwned
        <3>2. a.sockfd # BadFd =>
                a.sockfd # orig.sockfd /\ a.sockfd # fd /\ a.sockfd \in Fd
            BY <1>2, <3>1 DEF OwnedInv, EntriesOwned, Connection
        <3> QED
            BY <1>1, <1>4, <3>1, <3>2 DEF EntryOwned
    <2>2. EntryOwned(kept)'
        <3>1. fdtab'[fd] = fdtab[fd]
            BY <1>2, <1>4
        <3> QED
            BY <1>1, <1>2, <1>3, <3>1, OwnedTypes DEF EntryOwned
    <2>3. \A a \in Entries' : EntryOwned(a)'
        <3>1. \A a \in Entries' : a \in Entries \ {e, orig} \/ a = kept
            BY <1>2
        <3> QED
            BY <2>1, <2>2, <3>1
    <2>4. \A a, b \in Entries' : a.sockfd = b.sockfd /\ a.sockfd # BadFd => a = b
        <3>1. ASSUME NEW a \in Entries', NEW b \in Entries',
                     a.sockfd = b.sockfd, a.sockfd # BadFd
              PROVE  a = b
            <4>1. /\ a \in Entries \ {e, orig} \/ a = kept
                  /\ b \in Entries \ {e, orig} \/ b = kept
                BY <1>2
            <4>2. (a = kept \/ a.sockfd # fd) /\ (b = kept \/ b.sockfd # fd)
                BY <2>1, <3>1, <4>1
            <4>3. CASE a = kept
                BY <1>3, <3>1, <4>2, <4>3
            <4>4. CASE b = kept
                BY <1>3, <3>1, <4>2, <4>4
            <4>5. CASE a # kept /\ b # kept
                BY <3>1, <4>1, <4>5 DEF OwnedInv, EntriesOwned
            <4> QED
                BY <4>3, <4>4, <4>5
        <3> QED
            BY <3>1
    <2> QED
        BY <2>3, <2>4 DEF EntriesOwned
<1>7. SlotSpent'
    <2>1. packet' = p \/ packet' = Garbage
        BY <1>2 DEF Read
    <2>2. Garbage.mtype # "AUTH"
        BY DEF Garbage
    <2>3. \A a \in Entries' : a.token # e.token
        <3>1. orig.token # e.token
            <4>1. orig # e
                BY <1>2
            <4> QED
                BY <1>5, <4>1
        <3> QED
            BY <1>2, <1>3, <1>5, <3>1
    <2> QED
        BY <1>1, <1>2, <2>1, <2>2, <2>3 DEF SlotSpent
<1>8. Travelling'
    <2>1. \A d \in Client : ToSet(AfterRead(fd)[d]) \subseteq ToSet(up[d])
        BY ReadElements
    <2>2. \A d \in Client : ToSet(up'[d]) \subseteq ToSet(up[d])
        BY <1>2, <2>1, DrainElements
    <2> QED
        BY <1>1, <2>2, TravelStep
<1>9. PlainOld' /\ TokenKnown'
    BY <1>1 DEF OwnedInv, PlainOld, TokenKnown
<1> QED
    BY <1>2, <1>4, <1>6, <1>7, <1>8, <1>9 DEF OwnedInv

\* A session that is collected goes with its descriptor.
LEMMA OwnedCollect ==
    ASSUME OwnedInv, TypeInv', UNCHANGED <<cliente, productor, cmds>>,
           CollectConnection
    PROVE  OwnedInv'
<1>1. UNCHANGED <<backlog, owner, peer, old, token, packet, buffer_packets>>
    BY DEF CollectConnection, cliente
<1>2. PICK i \in DOMAIN connections :
        /\ down' = Written(To(connections[i].sockfd, <<Control("FIN", <<>>)>>))
        /\ fdtab' = Closed(connections[i].sockfd)
        /\ up' = Drained(connections[i].sockfd, up)
        /\ connections' = RemoveAt(connections, i)
    BY DEF CollectConnection
<1> DEFINE e == connections[i]
<1>3. connections \in Seq(Connection) /\ TokensDistinct(connections)
    BY OwnedTypes DEF OwnedInv
<1>4. e \in Entries
    BY <1>3, ElementsDef DEF Entries
<1>5. TokensDistinct(connections') /\ Entries' = Entries \ {e}
    BY <1>2, <1>3, RemoveEntry DEF Entries
<1>6. Wired' /\ \A f \in Fd : f # e.sockfd => fdtab'[f] = fdtab[f]
    BY <1>1, <1>2, CloseFd
<1> HIDE DEF e
<1>7. EntriesOwned'
    <2>1. ASSUME NEW a \in Entries'
          PROVE  EntryOwned(a)'
        <3>1. a \in Entries /\ a # e /\ EntryOwned(a) /\ a \in Connection
            BY <1>5, OwnedTypes DEF OwnedInv, EntriesOwned
        <3>2. a.sockfd # BadFd => a.sockfd # e.sockfd /\ a.sockfd \in Fd
            BY <1>4, <3>1 DEF OwnedInv, EntriesOwned, Connection
        <3> QED
            BY <1>1, <1>6, <3>1, <3>2 DEF EntryOwned
    <2> QED
        BY <1>5, <2>1 DEF OwnedInv, EntriesOwned
<1>8. Travelling'
    <2>1. \A c \in Client : \A q \in ToSet(down'[c]) :
            q \in ToSet(down[c]) \/ q.mtype # "CONN_ACCEPTED"
        BY <1>2, WriteControl
    <2>2. \A d \in Client : ToSet(up'[d]) \subseteq ToSet(up[d])
        BY <1>2, DrainElements
    <2> QED
        BY <1>1, <2>1, <2>2, TravelStep
<1>9. PlainOld' /\ TokenKnown' /\ SlotSpent'
    BY <1>1, <1>5 DEF OwnedInv, PlainOld, TokenKnown, SlotSpent
<1> QED
    BY <1>5, <1>6, <1>7, <1>8, <1>9 DEF OwnedInv

\* Every step of the server and of the others keeps the invariant.
LEMMA OwnedStep == OwnedInv /\ [Next]_vars => OwnedInv'
<1> SUFFICES ASSUME OwnedInv, [Next]_vars
             PROVE  OwnedInv'
    OBVIOUS
<1>1. TypeInv'
    BY TypeStep DEF OwnedInv
<1>2. CASE Clients
    BY <1>1, <1>2, OwnedStart, OwnedClient DEF Clients
<1>3. CASE Producers \/ Operators \/ Tick \/ UNCHANGED vars
    BY <1>1, <1>3, OwnedQuiet
<1>4. CASE Thread \/ Kernel
    BY <1>1, <1>4, OwnedSend
<1>5. CASE Server
    BY <1>1, <1>5, OwnedQuiet, OwnedSend, OwnedRead, OwnedCli, OwnedAccept,
       OwnedAcceptFails, OwnedRejected, OwnedAccepted, OwnedCollect
       DEF Server, ServerStep, ClientEvent, CliEvent
<1> QED
    BY <1>2, <1>3, <1>4, <1>5 DEF Next

\* A session is one client's: its descriptor is open, no other entry has it or
\* its token, and the client at the other end was issued the token or presented
\* it with -t.  It is so whatever the order of the events of a batch, whatever a
\* read that returns nothing leaves in the stack slot, and whatever the operator
\* does: accept, AUTH and the collector give and take a descriptor and its entry
\* together.
THEOREM SessionsOwned == Spec => []SessionOwned
<1>1. OwnedInv => SessionOwned
    <2> SUFFICES ASSUME OwnedInv, NEW i \in DOMAIN connections,
                        connections[i].sockfd # BadFd
                 PROVE  /\ At(connections[i].sockfd) \in Client
                        /\ \/ owner[connections[i].token] = At(connections[i].sockfd)
                           \/ old[At(connections[i].sockfd)] = connections[i].token
                        /\ \A j \in DOMAIN connections \ {i} :
                              /\ connections[j].sockfd # connections[i].sockfd
                              /\ connections[j].token # connections[i].token
        BY DEF SessionOwned
    <2>1. \A j \in DOMAIN connections :
            connections[j] \in Entries /\ connections[j] \in Connection
        BY OwnedTypes, ElementsDef DEF Entries
    <2>2. \A j \in DOMAIN connections \ {i} :
            connections[j].token # connections[i].token
        BY DEF OwnedInv, TokensDistinct
    <2>3. \A j \in DOMAIN connections \ {i} :
            connections[j].sockfd # connections[i].sockfd
        BY <2>1, <2>2 DEF OwnedInv, EntriesOwned
    <2>4. connections[i].sockfd \in Fd
        BY <2>1 DEF Connection
    <2> QED
        BY <2>1, <2>2, <2>3, <2>4 DEF At, OwnedInv, EntriesOwned, EntryOwned
<1> QED
    BY <1>1, OwnedInit, OwnedStep, PTL DEF Spec

-----------------------------------------------------------------------------
(* Rooms: the invariant, which adds to OwnedInv.                           *)

\* The session of a client that presents an older token is in no room.
TransientNowhere ==
    \A a \in Entries : Transient(a.token) =>
        \A r \in Room : a.sockfd \notin ToSet(susc_room[r])

\* No command on its way is about such a session, nor about one to come.
CommandsPlain ==
    \A cmd \in ToSet(fifo) :
        cmd.socket <= Len(owner) /\ ~Transient(cmd.socket)

RoomDistinct(room) == \A i, j \in DOMAIN room : room[i] = room[j] => i = j

RoomsOwned ==
    \A r \in Room :
        /\ RoomDistinct(susc_room[r])
        /\ \A fd \in ToSet(susc_room[r]) : fd # BadFd =>
              \E a \in Entries : a.sockfd = fd

\* The rooms a descriptor is in.
SubsOf(fd) == {r \in Room : fd \in ToSet(susc_room[r])}

Counted ==
    \A a \in Entries : a.sockfd # BadFd =>
        a.susc_counter = Cardinality(SubsOf(a.sockfd))

RoomsInv == TransientNowhere /\ CommandsPlain /\ RoomsOwned /\ Counted

-----------------------------------------------------------------------------
(* Rooms.                                                                  *)

\* list_find finds a descriptor in a room if it is there.
LEMMA FdFound ==
    ASSUME NEW S, NEW room \in Seq(S), NEW fd
    PROVE  /\ FindFd(room, fd) # 0 =>
                 FindFd(room, fd) \in DOMAIN room /\ room[FindFd(room, fd)] = fd
           /\ FindFd(room, fd) # 0 <=> fd \in ToSet(room)
<1> DEFINE k == FindFd(room, fd)
<1>1. /\ k \in 0 .. Len(room) /\ Len(room) \in Nat /\ DOMAIN room = 1 .. Len(room)
      /\ k # 0 => room[k] = fd
      /\ k = 0 => \A i \in 1 .. Len(room) : room[i] # fd
    BY FindFdProperties
<1> HIDE DEF k
<1>2. k # 0 => k \in DOMAIN room
    BY <1>1
<1>3. k # 0 => fd \in ToSet(room)
    BY <1>1, <1>2, ElementsDef
<1>4. k = 0 => fd \notin ToSet(room)
    BY <1>1, ElementsDef
<1> QED
    BY <1>1, <1>2, <1>3, <1>4 DEF k

\* Deleting a descriptor from a room deletes it from the room: it was there once.
LEMMA DeleteFdElements ==
    ASSUME NEW S, NEW room \in Seq(S), RoomDistinct(room), NEW fd
    PROVE  /\ RoomDistinct(DeleteFd(room, fd))
           /\ ToSet(DeleteFd(room, fd)) = ToSet(room) \ {fd}
<1> DEFINE k    == FindFd(room, fd)
           rest == RemoveAt(room, k)
<1>1. CASE k = 0
    <2>1. DeleteFd(room, fd) = room
        BY <1>1 DEF DeleteFd
    <2> QED
        BY <1>1, <2>1, FdFound
<1>2. CASE k # 0
    <2>1. k \in DOMAIN room /\ room[k] = fd
        BY <1>2, FdFound
    <2>2. DeleteFd(room, fd) = rest
        BY <1>2 DEF DeleteFd
    <2> HIDE DEF k
    <2>3. DOMAIN room = 1 .. Len(room) /\ k \in 1 .. Len(room) /\ Len(room) \in Nat
        BY <2>1
    <2>4. /\ rest \in Seq(S) /\ Len(rest) = Len(room) - 1
          /\ \A j \in 1 .. Len(room) - 1 :
                rest[j] = IF j < k THEN room[j] ELSE room[j + 1]
        BY <2>3, RemoveAtProperties
    <2>5. ToSet(rest) = {room[j] : j \in DOMAIN room \ {k}}
        BY <2>1, RemoveAtElements
    <2>6. \A j \in DOMAIN room \ {k} : room[j] # fd
        BY <2>1 DEF RoomDistinct
    <2>7. DOMAIN rest = 1 .. Len(room) - 1
        BY <2>3, <2>4
    <2> HIDE DEF rest
    <2>8. ToSet(rest) = ToSet(room) \ {fd}
        BY <2>1, <2>5, <2>6, ElementsDef
    <2>9. RoomDistinct(rest)
        <3>1. ASSUME NEW i \in DOMAIN rest, NEW j \in DOMAIN rest, rest[i] = rest[j]
              PROVE  i = j
            <4> DEFINE at(x) == IF x < k THEN x ELSE x + 1
            <4>1. /\ at(i) \in DOMAIN room /\ at(j) \in DOMAIN room
                  /\ rest[i] = room[at(i)] /\ rest[j] = room[at(j)]
                BY <2>3, <2>4, <2>7
            <4>2. at(i) = at(j)
                BY <3>1, <4>1 DEF RoomDistinct
            <4> QED
                BY <2>3, <2>7, <4>2
        <3> QED
            BY <3>1 DEF RoomDistinct
    <2> QED
        BY <2>2, <2>8, <2>9
<1> QED
    BY <1>1, <1>2

\* Replacing a descriptor by one that was not in the room.
LEMMA ReplaceFdElements ==
    ASSUME NEW S, NEW room \in Seq(S), RoomDistinct(room),
           NEW fd, NEW new \in S, new \notin ToSet(room)
    PROVE  /\ RoomDistinct(ReplaceFd(room, fd, new))
           /\ fd \in ToSet(room) =>
                ToSet(ReplaceFd(room, fd, new)) = (ToSet(room) \ {fd}) \cup {new}
           /\ fd \notin ToSet(room) => ToSet(ReplaceFd(room, fd, new)) = ToSet(room)
<1> DEFINE k == FindFd(room, fd)
<1>1. CASE k = 0
    <2>1. ReplaceFd(room, fd, new) = room
        BY <1>1 DEF ReplaceFd
    <2> QED
        BY <1>1, <2>1, FdFound
<1>2. CASE k # 0
    <2>1. k \in DOMAIN room /\ room[k] = fd /\ fd \in ToSet(room)
        BY <1>2, FdFound
    <2>2. ReplaceFd(room, fd, new) = [room EXCEPT ![k] = new]
        BY <1>2 DEF ReplaceFd
    <2> HIDE DEF k
    <2>3. \A j \in DOMAIN room : room[j] # new
        BY ElementsDef
    <2>4. RoomDistinct([room EXCEPT ![k] = new])
        BY <2>1, <2>3 DEF RoomDistinct
    <2>5. ToSet([room EXCEPT ![k] = new]) =
            {room[j] : j \in DOMAIN room \ {k}} \cup {new}
        BY <2>1, UpdateElements
    <2>6. {room[j] : j \in DOMAIN room \ {k}} = ToSet(room) \ {fd}
        BY <2>1, ElementsDef DEF RoomDistinct
    <2> QED
        BY <2>1, <2>2, <2>4, <2>5, <2>6
<1> QED
    BY <1>1, <1>2

\* Adding a descriptor that was not in the room.
LEMMA AppendFd ==
    ASSUME NEW S, NEW room \in Seq(S), RoomDistinct(room),
           NEW fd \in S, fd \notin ToSet(room)
    PROVE  /\ RoomDistinct(Append(room, fd))
           /\ ToSet(Append(room, fd)) = ToSet(room) \cup {fd}
<1>1. /\ Len(Append(room, fd)) = Len(room) + 1 /\ Len(room) \in Nat
      /\ \A i \in 1 .. Len(room) : Append(room, fd)[i] = room[i]
      /\ Append(room, fd)[Len(room) + 1] = fd
      /\ Append(room, fd) \in Seq(S)
    BY AppendProperties
<1>2. DOMAIN Append(room, fd) = DOMAIN room \cup {Len(room) + 1}
      /\ DOMAIN room = 1 .. Len(room)
    BY <1>1
<1>3. \A i \in DOMAIN room : room[i] # fd
    BY ElementsDef
<1>4. RoomDistinct(Append(room, fd))
    BY <1>1, <1>2, <1>3 DEF RoomDistinct
<1> QED
    BY <1>4, AppendElements

\* The counter follows the rooms.
LEMMA CountStep ==
    ASSUME NEW S \in SUBSET Room, NEW r \in Room
    PROVE  /\ Cardinality(S) \in Nat
           /\ r \notin S => Cardinality(S \cup {r}) = Cardinality(S) + 1
           /\ r \in S => Cardinality(S \ {r}) = Cardinality(S) - 1
<1>1. IsFiniteSet(S)
    BY IpcAssumption, FS_Subset
<1> QED
    BY <1>1, FS_CardinalityType, FS_AddElement, FS_RemoveElement

\* The types that the proofs below use most.
LEMMA RoomTypes ==
    ASSUME OwnedInv
    PROVE  /\ susc_room \in [Room -> Seq(Fd \cup {BadFd})]
           /\ fifo \in Seq(Command)
           /\ \A a \in Entries : a.sockfd \in Fd \cup {BadFd}
           /\ \A a \in Entries : Transient(a.token) => a.sockfd # BadFd
           /\ Entries \subseteq Connection
<1>1. \A a \in Entries : a.sockfd \in Fd \cup {BadFd}
    BY OwnedTypes DEF Connection
<1>2. \A a \in Entries : Transient(a.token) => a.sockfd # BadFd
    BY OwnedTypes DEF OwnedInv, EntriesOwned, EntryOwned, Transient
<1> QED
    BY <1>1, <1>2, OwnedTypes DEF OwnedInv, TypeInv, TypeOK, IpcTypeOK, ServerTypeOK

-----------------------------------------------------------------------------
(* Every step preserves the invariant.                                     *)

\* A step that leaves the sessions and the rooms alone.
LEMMA RoomFrame ==
    ASSUME RoomsInv, UNCHANGED <<susc_room, connections, owner, old>>,
           \A cmd \in ToSet(fifo') : \/ cmd \in ToSet(fifo)
                                     \/ /\ cmd.socket <= Len(owner)
                                        /\ ~Transient(cmd.socket)
    PROVE  RoomsInv'
<1>1. \A t : Transient(t)' = Transient(t)
    BY DEF Transient
<1>2. TransientNowhere' /\ CommandsPlain'
    BY <1>1 DEF RoomsInv, TransientNowhere, CommandsPlain, Entries
<1>3. RoomsOwned' /\ Counted'
    BY DEF RoomsInv, RoomsOwned, Counted, Entries, SubsOf, RoomDistinct
<1> QED
    BY <1>2, <1>3 DEF RoomsInv

\* A command that is taken from the FIFO.
LEMMA CommandTaken ==
    ASSUME OwnedInv, RoomsInv, NEW cmd, NEW i, Commanded(cmd, i)
    PROVE  /\ cmd.socket <= Len(owner) /\ ~Transient(cmd.socket)
           /\ \A c \in ToSet(fifo') : c \in ToSet(fifo)
           /\ i # 0 => /\ connections[i] \in Entries
                       /\ connections[i].token = cmd.socket
<1>1. fifo \in Seq(Command) /\ fifo # <<>> /\ cmd = Head(fifo) /\ fifo' = Tail(fifo)
    BY RoomTypes DEF Commanded
<1>2. cmd \in ToSet(fifo) /\ ToSet(fifo') \subseteq ToSet(fifo)
    BY <1>1, HeadTailElements
<1>3. i = FindToken(connections, cmd.socket)
    BY DEF Commanded
<1> QED
    BY <1>2, <1>3, TokenFound, OwnedTypes DEF RoomsInv, CommandsPlain, Entries

\* A step that changes what an entry a counts, and what rooms its descriptor
\* is in, to match.
LEMMA RoomEntry ==
    ASSUME OwnedInv, RoomsInv, UNCHANGED <<owner, old>>,
           \A cmd \in ToSet(fifo') : cmd \in ToSet(fifo),
           NEW a \in Entries, NEW e, e.token = a.token, e.sockfd = a.sockfd,
           Entries' = (Entries \ {a}) \cup {e},
           ~Transient(a.token) \/ susc_room' = susc_room,
           \A r \in Room :
                /\ RoomDistinct(susc_room'[r])
                /\ ToSet(susc_room'[r]) \ {a.sockfd} = ToSet(susc_room[r]) \ {a.sockfd},
           e.sockfd # BadFd => e.susc_counter = Cardinality(SubsOf(e.sockfd)')
    PROVE  RoomsInv'
<1>1. \A t : Transient(t)' = Transient(t)
    BY DEF Transient
<1>2. \A b \in Entries \ {a} : b.sockfd # BadFd => b.sockfd # a.sockfd
    BY DEF OwnedInv, EntriesOwned
<1>3. \A fd : fd # a.sockfd => \A r \in Room :
            fd \in ToSet(susc_room'[r]) <=> fd \in ToSet(susc_room[r])
    OBVIOUS
<1>4. TransientNowhere'
    <2>1. ASSUME NEW b \in Entries', Transient(b.token), NEW r \in Room
          PROVE  b.sockfd \notin ToSet(susc_room'[r])
        <3>1. CASE b = e
            BY <2>1, <3>1 DEF RoomsInv, TransientNowhere
        <3>2. CASE b \in Entries \ {a}
            BY <1>2, <1>3, <2>1, <3>2, RoomTypes DEF RoomsInv, TransientNowhere
        <3> QED
            BY <3>1, <3>2
    <2> QED
        BY <1>1, <2>1 DEF TransientNowhere
<1>5. CommandsPlain'
    BY <1>1 DEF RoomsInv, CommandsPlain
<1>6. RoomsOwned'
    <2>1. ASSUME NEW r \in Room, NEW fd \in ToSet(susc_room'[r]), fd # BadFd
          PROVE  \E b \in Entries' : b.sockfd = fd
        <3>1. CASE fd = a.sockfd
            BY <3>1
        <3>2. CASE fd # a.sockfd
            BY <1>3, <2>1, <3>2 DEF RoomsInv, RoomsOwned
        <3> QED
            BY <3>1, <3>2
    <2>2. \A r \in Room : RoomDistinct(susc_room[r])'
        BY DEF RoomDistinct
    <2> QED
        BY <2>1, <2>2 DEF RoomsOwned
<1>7. Counted'
    <2>1. ASSUME NEW b \in Entries \ {a}, b.sockfd # BadFd
          PROVE  b.susc_counter = Cardinality(SubsOf(b.sockfd)')
        <3>1. SubsOf(b.sockfd)' = SubsOf(b.sockfd)
            BY <1>2, <1>3, <2>1 DEF SubsOf
        <3> QED
            BY <2>1, <3>1 DEF RoomsInv, Counted
    <2> QED
        BY <2>1 DEF Counted
<1> QED
    BY <1>4, <1>5, <1>6, <1>7 DEF RoomsInv

\* A client that starts has been issued no token.
LEMMA RoomStart ==
    ASSUME OwnedInv, RoomsInv, NEW c \in Client, NEW t, Start(c, t),
           UNCHANGED <<productor, server, cmds>>
    PROVE  RoomsInv'
<1>1. /\ UNCHANGED <<susc_room, connections, owner, fifo>>
      /\ old' = [old EXCEPT ![c] = t] /\ peer[c] = "unborn"
    BY DEF Start, server
<1>2. \A u \in DOMAIN owner : owner[u] # c
    BY <1>1, OwnedTypes DEF OwnedInv, Wired
<1>3. \A u : Transient(u)' = Transient(u)
    BY <1>1, <1>2, OwnedTypes DEF Transient
<1> QED
    BY <1>1, <1>3 DEF RoomsInv, TransientNowhere, CommandsPlain, RoomsOwned,
                      Counted, Entries, SubsOf, RoomDistinct

\* The operator names sessions that stay.
LEMMA RoomOperator ==
    ASSUME OperatorWaits, OwnedInv, RoomsInv, Operators
    PROVE  RoomsInv'
<1>1. PICK type \in Commands, t \in 0 .. Len(owner), r \in Room \cup {NoRoom} :
            Operator(type, t, r)
    BY DEF Operators
<1> DEFINE cmd == [type |-> type, socket |-> t, productor |-> r]
<1>2. /\ fifo' = Append(fifo, cmd) /\ ~Transient(t)
      /\ UNCHANGED <<susc_room, connections, owner, old>>
    BY <1>1 DEF Operator, cliente, server
<1>3. cmd \in Command
    BY <1>1, NoRoomType, SystemAssumption, IpcAssumption, OwnedTypes DEF Command
<1>4. ToSet(fifo') = ToSet(fifo) \cup {cmd}
    BY <1>2, <1>3, RoomTypes, AppendElements
<1>5. cmd.socket <= Len(owner) /\ ~Transient(cmd.socket)
    BY <1>1, <1>2, OwnedTypes
<1> HIDE DEF cmd
<1> QED
    BY <1>2, <1>4, <1>5, RoomFrame

\* The steps that leave the sessions and the rooms alone.
LEMMA RoomQuiet ==
    ASSUME OwnedInv, RoomsInv,
           \/ Producers \/ Tick \/ Thread \/ Kernel \/ UNCHANGED vars
           \/ /\ \E c \in Client : ClientStep(c) \/ Kill(c)
              /\ UNCHANGED <<productor, server, cmds>>
           \/ /\ UNCHANGED <<cliente, productor, cmds>>
              /\ \/ Poll \/ Resend \/ Resent \/ NoCommand \/ RefuseCommand
                 \/ NoMessage \/ MqReceive
                 \/ CollectConnections \/ ConnectionsCollected
                 \/ CollectPackets \/ CollectPacket \/ PacketsCollected
                 \/ \E fd \in Fd : \/ HangUp(fd) \/ ReadFails(fd)
                                   \/ ReadInvalid(fd) \/ RecvUnknownAck(fd)
    PROVE  RoomsInv'
<1>1. UNCHANGED <<susc_room, connections, owner, old>>
    <2>1. CASE Producers \/ Tick \/ Thread \/ Kernel \/ UNCHANGED vars
        BY <2>1 DEF Producers, Tick, Thread, FtSetup, Kernel, vars, cliente, server
    <2>2. CASE (\E c \in Client : ClientStep(c) \/ Kill(c)) /\ UNCHANGED server
        BY <2>2 DEF ClientStep, RecvConnAccepted, RecvData, RecvFin,
                    RecvUnanswered, Kill, server
    <2>3. CASE UNCHANGED cliente /\
                (\/ Poll \/ Resend \/ Resent \/ NoCommand \/ RefuseCommand
                 \/ NoMessage \/ MqReceive
                 \/ CollectConnections \/ ConnectionsCollected
                 \/ CollectPackets \/ CollectPacket \/ PacketsCollected)
        BY <2>3 DEF Poll, Resend, Resent, NoCommand, RefuseCommand, NoMessage,
                    MqReceive, CollectConnections, ConnectionsCollected,
                    CollectPackets, CollectPacket, PacketsCollected, cliente
    <2>4. CASE UNCHANGED cliente /\ \E fd \in Fd : \/ HangUp(fd) \/ ReadFails(fd)
                                        \/ ReadInvalid(fd) \/ RecvUnknownAck(fd)
        BY <2>4 DEF HangUp, ReadFails, ReadInvalid, RecvUnknownAck, cliente
    <2> QED
        BY <2>1, <2>2, <2>3, <2>4
<1>2. \A cmd \in ToSet(fifo') : cmd \in ToSet(fifo)
    <2>1. CASE RefuseCommand
        BY <2>1, CommandTaken DEF RefuseCommand
    <2>2. CASE ~RefuseCommand
        <3>1. fifo' = fifo
            <4>1. CASE Producers \/ Tick \/ Thread \/ Kernel \/ UNCHANGED vars
                BY <4>1 DEF Producers, Stamp, MqSend, GiveUp, Tick, Thread,
                            FtSetup, Kernel, KernelReset, vars, ipc
            <4>2. CASE \E c \in Client : ClientStep(c) \/ Kill(c)
                BY <4>2 DEF ClientStep, RecvConnAccepted, RecvData, RecvFin,
                            RecvUnanswered, Recv, Kill
            <4>3. CASE \/ Poll \/ Resend \/ Resent \/ NoCommand
                       \/ NoMessage \/ MqReceive
                       \/ CollectConnections \/ ConnectionsCollected
                       \/ CollectPackets \/ CollectPacket \/ PacketsCollected
                BY <4>3 DEF Poll, Resend, Resent, NoCommand, NoMessage,
                            MqReceive, CollectConnections, ConnectionsCollected,
                            CollectPackets, CollectPacket, PacketsCollected, ipc
            <4>4. CASE \E fd \in Fd : \/ HangUp(fd) \/ ReadFails(fd)
                                      \/ ReadInvalid(fd) \/ RecvUnknownAck(fd)
                BY <4>4 DEF HangUp, ReadFails, ReadInvalid, RecvUnknownAck, ipc
            <4> QED
                BY <2>2, <4>1, <4>2, <4>3, <4>4
        <3> QED
            BY <3>1
    <2> QED
        BY <2>1, <2>2
<1> QED
    BY <1>1, <1>2, RoomFrame

\* A sign of life changes no room.
LEMMA RoomAck ==
    ASSUME OwnedInv, RoomsInv, UNCHANGED <<cliente, productor, cmds>>,
           CmdLog \/ \E fd \in Fd : RecvAck(fd)
    PROVE  RoomsInv'
<1>1. UNCHANGED <<susc_room, fdtab, owner, old>>
    BY DEF CmdLog, RecvAck, tcp, cliente
<1>2. \A cmd \in ToSet(fifo') : cmd \in ToSet(fifo)
    <2>1. CASE CmdLog
        BY <2>1, CommandTaken DEF CmdLog
    <2>2. CASE \E fd \in Fd : RecvAck(fd)
        BY <2>2 DEF RecvAck
    <2> QED
        BY <2>1, <2>2
<1>3. PICK i \in DOMAIN connections :
            connections' = [connections EXCEPT ![i].timestamp = now]
    <2>1. CASE CmdLog
        BY <2>1 DEF CmdLog
    <2>2. CASE \E fd \in Fd : RecvAck(fd)
        <3>1. PICK t : /\ FindToken(connections, t) # 0
                       /\ connections' = [connections EXCEPT
                                ![FindToken(connections, t)].timestamp = now]
            BY <2>2 DEF RecvAck
        <3>2. FindToken(connections, t) \in DOMAIN connections
            BY <3>1, TokenFound, OwnedTypes
        <3> QED
            BY <3>1, <3>2
    <2> QED
        BY <2>1, <2>2
<1>4. PICK a \in Entries : a = connections[i] /\ a \in Connection
    BY OwnedTypes, ElementsDef DEF Entries
<1>5. PICK e : e = [a EXCEPT !.timestamp = now]
    OBVIOUS
<1>6. /\ e \in Connection /\ e.token = a.token /\ e.sockfd = a.sockfd
      /\ e.susc_counter = a.susc_counter
    <2>1. now \in Nat
        BY OwnedTypes DEF IpcTypeOK
    <2> QED
        BY <1>4, <1>5, <2>1 DEF Connection
<1>7. connections' = [connections EXCEPT ![i] = e]
    BY <1>3, <1>4, <1>5
<1>8. Entries' = (Entries \ {a}) \cup {e}
    BY <1>1, <1>4, <1>6, <1>7, SameSessions
<1>9. e.sockfd # BadFd => e.susc_counter = Cardinality(SubsOf(e.sockfd)')
    <2>1. SubsOf(e.sockfd)' = SubsOf(e.sockfd)
        BY <1>1 DEF SubsOf
    <2>2. e.sockfd # BadFd => a.susc_counter = Cardinality(SubsOf(a.sockfd))
        BY <1>6 DEF RoomsInv, Counted
    <2> QED
        BY <1>6, <2>1, <2>2
<1>10. \A r \in Room : RoomDistinct(susc_room'[r])
    BY <1>1 DEF RoomsInv, RoomsOwned
<1> QED
    BY <1>1, <1>2, <1>6, <1>8, <1>9, <1>10, RoomEntry

\* add: the descriptor goes to a room it was not in.
LEMMA RoomAdd ==
    ASSUME OwnedInv, RoomsInv, UNCHANGED <<cliente, productor, cmds>>, CmdAdd
    PROVE  RoomsInv'
<1>1. UNCHANGED <<fdtab, owner, old>>
    BY DEF CmdAdd, cliente
<1>2. PICK cmd \in ToSet(fifo), i \in DOMAIN connections :
        /\ Commanded(cmd, i) /\ cmd.productor \in Room
        /\ FindFd(susc_room[cmd.productor], connections[i].sockfd) = 0
        /\ susc_room' = [susc_room EXCEPT
                ![cmd.productor] = Append(@, connections[i].sockfd)]
        /\ connections' = [connections EXCEPT ![i].susc_counter = @ + 1,
                                              ![i].timestamp = now]
    BY DEF CmdAdd, Subscribed
<1>3. /\ ~Transient(connections[i].token)
      /\ \A c \in ToSet(fifo') : c \in ToSet(fifo)
    <2>1. i # 0
        BY OwnedTypes
    <2> QED
        BY <1>2, <2>1, CommandTaken
<1>4. PICK a \in Entries : a = connections[i] /\ a \in Connection
    BY OwnedTypes, ElementsDef DEF Entries
<1>5. PICK e : e = [a EXCEPT !.susc_counter = @ + 1, !.timestamp = now]
    OBVIOUS
<1>6. /\ e \in Connection /\ e.token = a.token /\ e.sockfd = a.sockfd
      /\ e.susc_counter = a.susc_counter + 1
    <2>1. now \in Nat /\ BadFd \in Fd \cup {BadFd}
        BY OwnedTypes DEF IpcTypeOK
    <2>2. e \in Connection
        BY ONLY <1>4, <1>5, <2>1, ConnectionType
    <2> QED
        BY <1>4, <1>5, <2>2 DEF Connection
<1>7. Entries' = (Entries \ {a}) \cup {e}
    <2>1. connections' = [connections EXCEPT ![i] = e]
        BY <1>2, <1>4, <1>5 DEF Connection
    <2> QED
        BY <1>1, <1>4, <1>6, <2>1, SameSessions
<1> DEFINE r  == cmd.productor
           fd == a.sockfd
<1>8. /\ r \in Room /\ fd \in Fd \cup {BadFd} /\ fd \notin ToSet(susc_room[r])
      /\ susc_room' = [susc_room EXCEPT ![r] = Append(@, fd)]
      /\ susc_room[r] \in Seq(Fd \cup {BadFd}) /\ RoomDistinct(susc_room[r])
    <2>1. r \in Room /\ susc_room[r] \in Seq(Fd \cup {BadFd})
        BY <1>2, RoomTypes
    <2>2. fd \in Fd \cup {BadFd}
        BY RoomTypes
    <2>3. FindFd(susc_room[r], fd) = 0
        BY <1>2, <1>4
    <2>4. fd \notin ToSet(susc_room[r])
        BY <2>1, <2>3, FdFound
    <2> QED
        BY <1>2, <1>4, <2>1, <2>2, <2>4 DEF RoomsInv, RoomsOwned
<1>9. RoomDistinct(Append(susc_room[r], fd))
      /\ ToSet(Append(susc_room[r], fd)) = ToSet(susc_room[r]) \cup {fd}
    <2> HIDE DEF r, fd
    <2> QED
        BY <1>8, AppendFd
<1>10. \A s \in Room :
            susc_room'[s] = IF s = r THEN Append(susc_room[r], fd) ELSE susc_room[s]
    BY <1>8, RoomTypes
<1>11. \A s \in Room :
        /\ RoomDistinct(susc_room'[s])
        /\ ToSet(susc_room'[s]) \ {fd} = ToSet(susc_room[s]) \ {fd}
    BY <1>9, <1>10 DEF RoomsInv, RoomsOwned
<1>12. SubsOf(fd)' = SubsOf(fd) \cup {r} /\ r \notin SubsOf(fd)
    BY <1>8, <1>9, <1>10 DEF SubsOf
<1>13. e.sockfd # BadFd => e.susc_counter = Cardinality(SubsOf(e.sockfd)')
    <2>1. Cardinality(SubsOf(fd) \cup {r}) = Cardinality(SubsOf(fd)) + 1
        <3>1. SubsOf(fd) \subseteq Room
            BY DEF SubsOf
        <3> HIDE DEF r, fd
        <3> QED
            BY <1>8, <1>12, <3>1, CountStep
    <2>2. e.sockfd # BadFd => a.susc_counter = Cardinality(SubsOf(fd))
        BY <1>6 DEF RoomsInv, Counted
    <2> QED
        BY <1>6, <1>12, <2>1, <2>2
<1> QED
    BY <1>1, <1>3, <1>4, <1>6, <1>7, <1>11, <1>13, RoomEntry

\* delete: the descriptor leaves a room it was in.
LEMMA RoomDel ==
    ASSUME OwnedInv, RoomsInv, UNCHANGED <<cliente, productor, cmds>>, CmdDel
    PROVE  RoomsInv'
<1>1. UNCHANGED <<fdtab, owner, old>>
    BY DEF CmdDel, tcp, cliente
<1>2. PICK cmd \in ToSet(fifo), i \in DOMAIN connections :
        /\ Commanded(cmd, i) /\ cmd.productor \in Room
        /\ FindFd(susc_room[cmd.productor], connections[i].sockfd) # 0
        /\ susc_room' = [susc_room EXCEPT
                ![cmd.productor] = DeleteFd(@, connections[i].sockfd)]
        /\ connections' = [connections EXCEPT ![i].susc_counter = @ - 1,
                                              ![i].timestamp = now]
    BY DEF CmdDel, Subscribed
<1>3. /\ ~Transient(connections[i].token)
      /\ \A c \in ToSet(fifo') : c \in ToSet(fifo)
    <2>1. i # 0
        BY OwnedTypes
    <2> QED
        BY <1>2, <2>1, CommandTaken
<1>4. PICK a \in Entries : a = connections[i] /\ a \in Connection
    BY OwnedTypes, ElementsDef DEF Entries
<1>5. PICK e : e = [a EXCEPT !.susc_counter = @ - 1, !.timestamp = now]
    OBVIOUS
<1>6. /\ e \in Connection /\ e.token = a.token /\ e.sockfd = a.sockfd
      /\ e.susc_counter = a.susc_counter - 1
    <2>1. now \in Nat /\ BadFd \in Fd \cup {BadFd}
        BY OwnedTypes DEF IpcTypeOK
    <2>2. e \in Connection
        BY ONLY <1>4, <1>5, <2>1, ConnectionType
    <2> QED
        BY <1>4, <1>5, <2>2 DEF Connection
<1>7. Entries' = (Entries \ {a}) \cup {e}
    <2>1. connections' = [connections EXCEPT ![i] = e]
        BY <1>2, <1>4, <1>5 DEF Connection
    <2> QED
        BY <1>1, <1>4, <1>6, <2>1, SameSessions
<1> DEFINE r  == cmd.productor
           fd == a.sockfd
<1>8. /\ r \in Room /\ fd \in ToSet(susc_room[r])
      /\ susc_room' = [susc_room EXCEPT ![r] = DeleteFd(@, fd)]
      /\ susc_room[r] \in Seq(Fd \cup {BadFd}) /\ RoomDistinct(susc_room[r])
    <2>1. r \in Room /\ susc_room[r] \in Seq(Fd \cup {BadFd})
        BY <1>2, RoomTypes
    <2>2. FindFd(susc_room[r], fd) # 0
        BY <1>2, <1>4
    <2>3. fd \in ToSet(susc_room[r])
        BY <2>1, <2>2, FdFound
    <2> QED
        BY <1>2, <1>4, <2>1, <2>3 DEF RoomsInv, RoomsOwned
<1>9. RoomDistinct(DeleteFd(susc_room[r], fd))
      /\ ToSet(DeleteFd(susc_room[r], fd)) = ToSet(susc_room[r]) \ {fd}
    <2> HIDE DEF r, fd
    <2> QED
        BY <1>8, DeleteFdElements
<1>10. \A s \in Room :
            susc_room'[s] = IF s = r THEN DeleteFd(susc_room[r], fd) ELSE susc_room[s]
    BY <1>8, RoomTypes
<1>11. \A s \in Room :
        /\ RoomDistinct(susc_room'[s])
        /\ ToSet(susc_room'[s]) \ {fd} = ToSet(susc_room[s]) \ {fd}
    BY <1>9, <1>10 DEF RoomsInv, RoomsOwned
<1>12. SubsOf(fd)' = SubsOf(fd) \ {r} /\ r \in SubsOf(fd)
    BY <1>8, <1>9, <1>10 DEF SubsOf
<1>13. e.sockfd # BadFd => e.susc_counter = Cardinality(SubsOf(e.sockfd)')
    <2>1. Cardinality(SubsOf(fd) \ {r}) = Cardinality(SubsOf(fd)) - 1
        <3>1. SubsOf(fd) \subseteq Room
            BY DEF SubsOf
        <3> HIDE DEF r, fd
        <3> QED
            BY <1>8, <1>12, <3>1, CountStep
    <2>2. e.sockfd # BadFd => a.susc_counter = Cardinality(SubsOf(fd))
        BY <1>6 DEF RoomsInv, Counted
    <2> QED
        BY <1>6, <1>12, <2>1, <2>2
<1> QED
    BY <1>1, <1>3, <1>4, <1>6, <1>7, <1>11, <1>13, RoomEntry

\* A token that is issued is no command's yet, and its descriptor is in no room.
LEMMA RoomAccept ==
    ASSUME OwnedInv, RoomsInv, UNCHANGED <<cliente, productor, cmds>>,
           Accept \/ AcceptFails
    PROVE  RoomsInv'
<1>1. UNCHANGED <<susc_room, fifo, old, token, packet>>
    BY DEF Accept, AcceptFails, ipc, cliente
<1>2. PICK x \in Client \cup {NoClient}, fd \in Fd \cup {BadFd} :
        /\ owner' = Append(owner, x)
        /\ connections' = Append(connections, NewConnection(fd))
        /\ fd # BadFd => fdtab[fd] = NoClient
        /\ fd = BadFd => x = NoClient
    <2>1. CASE AcceptFails
        BY <2>1 DEF AcceptFails
    <2>2. CASE Accept
        <3>1. Min(FreeFd) \in Fd /\ fdtab[Min(FreeFd)] = NoClient
            <4>1. FreeFd \in SUBSET Nat /\ FreeFd # {}
                BY <2>2, IpcAssumption DEF Accept, FreeFd, Fd
            <4>2. Min(FreeFd) \in FreeFd
                BY <4>1, MinNat
            <4> QED
                BY <4>2 DEF FreeFd
        <3>2. Head(backlog) \in Client
            <4>1. backlog \in Seq(Client) /\ backlog # <<>>
                BY <2>2, OwnedTypes
                   DEF Accept, Handling, OwnedInv, TypeInv, ListenReady
            <4> QED
                BY ONLY <4>1, HeadTailProperties
        <3>3. Min(FreeFd) # BadFd
            BY <3>1, IpcAssumption DEF Fd, BadFd
        <3>4. /\ owner' = Append(owner, Head(backlog))
              /\ connections' = Append(connections, NewConnection(Min(FreeFd)))
            BY <2>2 DEF Accept
        <3> QED
            BY <3>1, <3>2, <3>3, <3>4
    <2> QED
        BY <2>1, <2>2
<1>3. PICK e : e = NewConnection(fd)
    OBVIOUS
<1>4. /\ DOMAIN owner' = DOMAIN owner \cup {Len(owner) + 1}
      /\ \A t \in DOMAIN owner : owner'[t] = owner[t]
      /\ Len(owner) + 1 \notin DOMAIN owner /\ owner'[Len(owner) + 1] = x
      /\ Entries' = Entries \cup {e}
      /\ e.token = Len(owner) + 1 /\ e.sockfd = fd
    BY <1>1, <1>2, <1>3, IssueToken
<1>5. e.susc_counter = 0
    BY <1>3 DEF NewConnection
<1>6. Len(owner') = Len(owner) + 1 /\ Len(owner) \in Nat
      /\ DOMAIN owner = 1 .. Len(owner)
    <2>1. owner \in Seq(Client \cup {NoClient})
        BY OwnedTypes
    <2> QED
        BY <1>2, <2>1, AppendProperties
<1>7. \A t : t # Len(owner) + 1 => Transient(t)' = Transient(t)
    BY <1>1, <1>4 DEF Transient
<1>8. \A a \in Entries : a.token # Len(owner) + 1
    BY <1>4 DEF OwnedInv, EntriesOwned, EntryOwned
<1>9. fd # BadFd => \A r \in Room : fd \notin ToSet(susc_room[r])
    <2>1. fd # BadFd => \A a \in Entries : a.sockfd # fd
        BY <1>2, OwnedTypes DEF OwnedInv, EntriesOwned, EntryOwned
    <2> QED
        BY <2>1 DEF RoomsInv, RoomsOwned
<1>10. TransientNowhere'
    <2>1. ASSUME NEW a \in Entries', Transient(a.token)', NEW r \in Room
          PROVE  a.sockfd \notin ToSet(susc_room'[r])
        <3>1. CASE a \in Entries
            BY <1>1, <1>7, <1>8, <2>1, <3>1 DEF RoomsInv, TransientNowhere
        <3>2. CASE a = e
            <4>1. x \in Client
                BY <1>4, <2>1, <3>2 DEF Transient
            <4>2. fd # BadFd
                BY <1>2, <4>1, IpcAssumption
            <4> QED
                BY <1>1, <1>4, <1>9, <3>2, <4>2
        <3> QED
            BY <1>4, <3>1, <3>2
    <2> QED
        BY <2>1 DEF TransientNowhere
<1>11. CommandsPlain'
    <2>1. ASSUME NEW cmd \in ToSet(fifo)
          PROVE  cmd.socket <= Len(owner') /\ ~Transient(cmd.socket)'
        <3>1. cmd \in Command
            BY RoomTypes, ElementsDef
        <3>2. cmd.socket \in Nat /\ cmd.socket <= Len(owner) /\ ~Transient(cmd.socket)
            BY <3>1 DEF Command, RoomsInv, CommandsPlain
        <3>3. cmd.socket # Len(owner) + 1 /\ cmd.socket <= Len(owner')
            BY <1>6, <3>2
        <3> QED
            BY <1>7, <3>2, <3>3
    <2> QED
        BY <1>1, <2>1 DEF CommandsPlain
<1>12. RoomsOwned'
    <2>1. \A r \in Room : RoomDistinct(susc_room[r])'
        BY <1>1 DEF RoomsInv, RoomsOwned, RoomDistinct
    <2>2. \A r \in Room : \A g \in ToSet(susc_room'[r]) : g # BadFd =>
                \E a \in Entries' : a.sockfd = g
        BY <1>1, <1>4 DEF RoomsInv, RoomsOwned
    <2> QED
        BY <2>1, <2>2 DEF RoomsOwned
<1>13. Counted'
    <2>1. \A g : SubsOf(g)' = {r \in Room : g \in ToSet(susc_room[r])}
        BY <1>1 DEF SubsOf
    <2>2. \A a \in Entries : a.sockfd # BadFd =>
                a.susc_counter = Cardinality(SubsOf(a.sockfd)')
        BY <2>1 DEF RoomsInv, Counted, SubsOf
    <2>3. e.sockfd # BadFd => e.susc_counter = Cardinality(SubsOf(e.sockfd)')
        <3>1. fd # BadFd => SubsOf(fd)' = {}
            BY <1>9, <2>1
        <3> QED
            BY <1>4, <1>5, <3>1, FS_EmptySet
    <2> QED
        BY <1>4, <2>2, <2>3 DEF Counted
<1> QED
    BY <1>10, <1>11, <1>12, <1>13 DEF RoomsInv

\* A session that is dropped is in no room any more, and the rooms keep the
\* others.
LEMMA RoomDrop ==
    ASSUME OwnedInv, RoomsInv, UNCHANGED <<owner, old, fifo>>,
           NEW e, Entries' \subseteq Entries, Entries \ Entries' \subseteq {e},
           \A r \in Room :
                /\ RoomDistinct(susc_room'[r])
                /\ ToSet(susc_room'[r]) \subseteq ToSet(susc_room[r])
                /\ \A a \in Entries' : a.sockfd # BadFd =>
                      (a.sockfd \in ToSet(susc_room'[r]) <=>
                       a.sockfd \in ToSet(susc_room[r]))
                /\ e \in Entries \ Entries' /\ e.sockfd # BadFd =>
                      e.sockfd \notin ToSet(susc_room'[r])
    PROVE  RoomsInv'
<1>1. \A t : Transient(t)' = Transient(t)
    BY DEF Transient
<1>2. TransientNowhere' /\ CommandsPlain'
    BY <1>1 DEF RoomsInv, TransientNowhere, CommandsPlain
<1>3. RoomsOwned'
    <2>1. \A r \in Room : RoomDistinct(susc_room[r])'
        BY DEF RoomDistinct
    <2>2. ASSUME NEW r \in Room, NEW fd \in ToSet(susc_room'[r]), fd # BadFd
          PROVE  \E a \in Entries' : a.sockfd = fd
        <3>1. PICK a \in Entries : a.sockfd = fd
            BY <2>2 DEF RoomsInv, RoomsOwned
        <3> QED
            BY <2>2, <3>1
    <2> QED
        BY <2>1, <2>2 DEF RoomsOwned
<1>4. Counted'
    <2>1. ASSUME NEW a \in Entries', a.sockfd # BadFd
          PROVE  a.susc_counter = Cardinality(SubsOf(a.sockfd)')
        <3>1. SubsOf(a.sockfd)' = SubsOf(a.sockfd)
            BY <2>1 DEF SubsOf
        <3> QED
            BY <2>1, <3>1 DEF RoomsInv, Counted
    <2> QED
        BY <2>1 DEF Counted
<1> QED
    BY <1>2, <1>3, <1>4 DEF RoomsInv

\* The session a rejected AUTH gives up was in no room.
LEMMA RoomRejected ==
    ASSUME OwnedInv, RoomsInv, UNCHANGED <<cliente, productor, cmds>>,
           NEW fd \in Fd, RecvAuthRejected(fd)
    PROVE  RoomsInv'
<1>1. UNCHANGED <<susc_room, owner, old, fifo>>
    BY DEF RecvAuthRejected, cliente
<1>2. PICK p \in Buffered(fd) :
        /\ check_packet_MD5(p) /\ p.mtype = "AUTH"
        /\ connections' = DeleteToken(connections, p.payload[2])
    BY DEF RecvAuthRejected
<1>3. Entries' = {a \in Entries : a.token # p.payload[2]}
    BY <1>2, OwnedTypes, DeleteTokenElements DEF OwnedInv, Entries
<1>4. \A r \in Room : RoomDistinct(susc_room'[r])
    BY <1>1 DEF RoomsInv, RoomsOwned
<1>5. CASE \A a \in Entries : a.token # p.payload[2]
    <2>1. Entries' = Entries
        BY <1>3, <1>5
    <2> QED
        BY <1>1, <1>4, <2>1, RoomDrop
<1>6. CASE \E a \in Entries : a.token = p.payload[2]
    <2>1. PICK e \in Entries : e.token = p.payload[2]
        BY <1>6
    <2>2. \A a \in Entries : a.token = e.token => a = e
        BY OwnedTypes, TokenNames DEF OwnedInv, Entries
    <2>3. Transient(e.token)
        <3>1. e.token \in DOMAIN owner /\ At(fd) \in Client /\ Request(p, At(fd))
            BY <1>2, <2>1, ReadAuth
        <3>2. owner[e.token] = At(fd) /\ old[At(fd)] # 0
            BY <1>2, <2>1, <3>1 DEF Request
        <3> QED
            BY <3>1, <3>2 DEF Transient
    <2>4. \A r \in Room : e.sockfd \notin ToSet(susc_room'[r])
        BY <1>1, <2>3 DEF RoomsInv, TransientNowhere
    <2>5. Entries' \subseteq Entries /\ Entries \ Entries' \subseteq {e}
        BY <1>3, <2>1, <2>2
    <2> QED
        BY <1>1, <1>4, <2>4, <2>5, RoomDrop
<1> QED
    BY <1>5, <1>6

\* The rooms of a session that is collected lose its descriptor.
LEMMA RoomCollect ==
    ASSUME OwnedInv, RoomsInv, UNCHANGED <<cliente, productor, cmds>>,
           CollectConnection
    PROVE  RoomsInv'
<1>1. UNCHANGED <<owner, old, fifo>>
    BY DEF CollectConnection, cliente
<1>2. PICK i \in DOMAIN connections :
        /\ susc_room' =
             [r \in Room |-> DeleteFd(susc_room[r], connections[i].sockfd)]
        /\ connections' = RemoveAt(connections, i)
    BY DEF CollectConnection
<1>3. PICK e \in Entries : e = connections[i]
    BY OwnedTypes, ElementsDef DEF Entries
<1>4. Entries' = Entries \ {e}
    BY <1>2, <1>3, OwnedTypes, RemoveEntry DEF OwnedInv, Entries
<1>5. \A r \in Room :
        /\ RoomDistinct(susc_room'[r])
        /\ ToSet(susc_room'[r]) = ToSet(susc_room[r]) \ {e.sockfd}
    <2>1. ASSUME NEW r \in Room
          PROVE  /\ RoomDistinct(DeleteFd(susc_room[r], e.sockfd))
                 /\ ToSet(DeleteFd(susc_room[r], e.sockfd)) =
                        ToSet(susc_room[r]) \ {e.sockfd}
        <3>1. susc_room[r] \in Seq(Fd \cup {BadFd}) /\ RoomDistinct(susc_room[r])
            BY RoomTypes DEF RoomsInv, RoomsOwned
        <3> QED
            BY <3>1, DeleteFdElements
    <2> QED
        BY <1>2, <1>3, <2>1
<1>6. \A a \in Entries' : a.sockfd # BadFd => a.sockfd # e.sockfd
    BY <1>4 DEF OwnedInv, EntriesOwned
<1> QED
    BY <1>1, <1>4, <1>5, <1>6, RoomDrop

\* A session that moves to another descriptor takes its rooms with it.
LEMMA RoomAccepted ==
    ASSUME OwnedInv, RoomsInv, UNCHANGED <<cliente, productor, cmds>>,
           NEW fd \in Fd, RecvAuthAccepted(fd)
    PROVE  RoomsInv'
<1>1. UNCHANGED <<owner, old, fifo>>
    BY DEF RecvAuthAccepted, cliente
<1>2. PICK p \in Buffered(fd), e \in Entries, orig \in Entries, kept \in Connection :
        /\ fdtab[fd] \in Client
        /\ e.token \in DOMAIN owner /\ owner[e.token] = fdtab[fd]
        /\ orig.token \in DOMAIN owner /\ owner[orig.token] \in Client
        /\ old[fdtab[fd]] # 0 /\ old[owner[orig.token]] = 0
        /\ e.sockfd = fd /\ orig.sockfd \notin {fd, BadFd}
        /\ kept = [orig EXCEPT !.sockfd = fd]
        /\ susc_room' = [r \in Room |-> ReplaceFd(susc_room[r], orig.sockfd, fd)]
        /\ Entries' = (Entries \ {e, orig}) \cup {kept}
    BY AcceptedAuth
<1>3. /\ kept.sockfd = fd /\ kept.token = orig.token
      /\ kept.susc_counter = orig.susc_counter /\ fd # BadFd
    <2>1. orig \in Connection
        BY OwnedTypes
    <2>2. fd # BadFd
        BY IpcAssumption DEF Fd, BadFd
    <2> QED
        BY <1>2, <2>1, <2>2 DEF Connection
<1>4. \A t : Transient(t)' = Transient(t)
    BY <1>1 DEF Transient
<1>5. Transient(e.token) /\ ~Transient(orig.token)
    BY <1>2 DEF Transient
<1>6. \A r \in Room : fd \notin ToSet(susc_room[r])
    BY <1>2, <1>5 DEF RoomsInv, TransientNowhere
<1>7. \A r \in Room :
        /\ RoomDistinct(susc_room'[r])
        /\ orig.sockfd \in ToSet(susc_room[r]) =>
             ToSet(susc_room'[r]) = (ToSet(susc_room[r]) \ {orig.sockfd}) \cup {fd}
        /\ orig.sockfd \notin ToSet(susc_room[r]) =>
             ToSet(susc_room'[r]) = ToSet(susc_room[r])
    <2>1. \A r \in Room :
            /\ susc_room[r] \in Seq(Fd \cup {BadFd}) /\ RoomDistinct(susc_room[r])
            /\ susc_room'[r] = ReplaceFd(susc_room[r], orig.sockfd, fd)
        BY <1>2, RoomTypes DEF RoomsInv, RoomsOwned
    <2> DEFINE S == Fd \cup {BadFd}
               g == orig.sockfd
    <2>2. fd \in S /\ \A r \in Room : susc_room[r] \in Seq(S)
        BY <2>1
    <2> HIDE DEF S, g
    <2>3. ASSUME NEW r \in Room
          PROVE  /\ RoomDistinct(ReplaceFd(susc_room[r], g, fd))
                 /\ g \in ToSet(susc_room[r]) =>
                      ToSet(ReplaceFd(susc_room[r], g, fd)) =
                          (ToSet(susc_room[r]) \ {g}) \cup {fd}
                 /\ g \notin ToSet(susc_room[r]) =>
                      ToSet(ReplaceFd(susc_room[r], g, fd)) = ToSet(susc_room[r])
        <3>1. /\ susc_room[r] \in Seq(S) /\ RoomDistinct(susc_room[r])
              /\ fd \in S /\ fd \notin ToSet(susc_room[r])
            BY <1>6, <2>1, <2>2
        <3> QED
            BY ONLY <3>1, ReplaceFdElements
    <2> QED
        BY <2>1, <2>3 DEF g
<1>8. \A a \in Entries \ {e, orig} : a.sockfd # BadFd =>
            a.sockfd # fd /\ a.sockfd # orig.sockfd
    BY <1>2 DEF OwnedInv, EntriesOwned
<1>9. \A g : g \notin {fd, orig.sockfd} => \A r \in Room :
            g \in ToSet(susc_room'[r]) <=> g \in ToSet(susc_room[r])
    BY <1>7
<1>10. \A r \in Room :
            /\ fd \in ToSet(susc_room'[r]) <=> orig.sockfd \in ToSet(susc_room[r])
            /\ orig.sockfd \notin ToSet(susc_room'[r])
    BY <1>2, <1>6, <1>7
<1>11. TransientNowhere'
    <2>1. ASSUME NEW a \in Entries', Transient(a.token), NEW r \in Room
          PROVE  a.sockfd \notin ToSet(susc_room'[r])
        <3>1. a \in Entries \ {e, orig}
            BY <1>2, <1>3, <1>5, <2>1
        <3>2. a.sockfd \notin {fd, orig.sockfd}
            BY <1>8, <2>1, <3>1, RoomTypes
        <3> QED
            BY <1>9, <2>1, <3>1, <3>2 DEF RoomsInv, TransientNowhere
    <2> QED
        BY <1>4, <2>1 DEF TransientNowhere
<1>12. CommandsPlain'
    BY <1>1, <1>4 DEF RoomsInv, CommandsPlain
<1>13. RoomsOwned'
    <2>1. \A r \in Room : RoomDistinct(susc_room[r])'
        BY <1>7 DEF RoomDistinct
    <2>2. ASSUME NEW r \in Room, NEW g \in ToSet(susc_room'[r]), g # BadFd
          PROVE  \E a \in Entries' : a.sockfd = g
        <3>1. CASE g = fd
            BY <1>2, <1>3, <3>1
        <3>2. CASE g # fd
            <4>1. g # orig.sockfd /\ g \in ToSet(susc_room[r])
                BY <1>9, <1>10, <2>2, <3>2
            <4>2. PICK a \in Entries : a.sockfd = g
                BY <2>2, <4>1 DEF RoomsInv, RoomsOwned
            <4> QED
                BY <1>2, <3>2, <4>1, <4>2
        <3> QED
            BY <3>1, <3>2
    <2> QED
        BY <2>1, <2>2 DEF RoomsOwned
<1>14. Counted'
    <2>1. ASSUME NEW a \in Entries \ {e, orig}, a.sockfd # BadFd
          PROVE  a.susc_counter = Cardinality(SubsOf(a.sockfd)')
        <3>1. SubsOf(a.sockfd)' = SubsOf(a.sockfd)
            BY <1>8, <1>9, <2>1 DEF SubsOf
        <3> QED
            BY <2>1, <3>1 DEF RoomsInv, Counted
    <2>2. kept.susc_counter = Cardinality(SubsOf(kept.sockfd)')
        <3>1. SubsOf(fd)' = SubsOf(orig.sockfd)
            BY <1>10 DEF SubsOf
        <3>2. orig.susc_counter = Cardinality(SubsOf(orig.sockfd))
            BY <1>2 DEF RoomsInv, Counted
        <3>3. SubsOf(kept.sockfd)' = SubsOf(fd)'
            BY <1>3 DEF SubsOf
        <3> QED
            BY <1>3, <3>1, <3>2, <3>3
    <2> QED
        BY <1>2, <2>1, <2>2 DEF Counted
<1> QED
    BY <1>11, <1>12, <1>13, <1>14 DEF RoomsInv

\* Nothing is in a room when the server starts.
LEMMA RoomInit == Init => RoomsInv
<1> SUFFICES ASSUME Init
             PROVE  RoomsInv
    OBVIOUS
<1>1. connections = <<>> /\ fifo = <<>> /\ \A r \in Room : susc_room[r] = <<>>
    BY DEF Init, IpcInit, ServerInit
<1>2. ToSet(<<>>) = {}
    BY DEF ToSet
<1> QED
    BY <1>1, <1>2 DEF RoomsInv, TransientNowhere, CommandsPlain, RoomsOwned,
                      Counted, Entries, RoomDistinct

\* Every step keeps the invariant.
LEMMA RoomStep == OperatorWaits /\ OwnedInv /\ RoomsInv /\ [Next]_vars => RoomsInv'
<1> SUFFICES ASSUME OperatorWaits, OwnedInv, RoomsInv, [Next]_vars
             PROVE  RoomsInv'
    OBVIOUS
<1>1. CASE Clients
    BY <1>1, RoomStart, RoomQuiet DEF Clients
<1>2. CASE Producers \/ Tick \/ Thread \/ Kernel \/ UNCHANGED vars
    BY <1>2, RoomQuiet
<1>3. CASE Operators
    BY <1>3, RoomOperator
<1>4. CASE Server
    BY <1>4, RoomQuiet, RoomAck, RoomAdd, RoomDel, RoomAccept, RoomRejected,
       RoomAccepted, RoomCollect
       DEF Server, ServerStep, ClientEvent, CliEvent
<1> QED
    BY <1>1, <1>2, <1>3, <1>4 DEF Next

\* The two invariants, for the operator who waits.
LEMMA RoomsInvariant == OperatorWaits => (Spec => [](OwnedInv /\ RoomsInv))
<1> SUFFICES ASSUME OperatorWaits
             PROVE  Spec => [](OwnedInv /\ RoomsInv)
    OBVIOUS
<1>1. Init => OwnedInv /\ RoomsInv
    BY OwnedInit, RoomInit
<1>2. OwnedInv /\ RoomsInv /\ [Next]_vars => (OwnedInv /\ RoomsInv)'
    BY OwnedStep, RoomStep
<1> QED
    BY <1>1, <1>2, PTL DEF Spec

\* A room names a descriptor once, and only descriptors of sessions, through
\* every add, delete, reconnection and collection: a broadcast reaches no
\* client twice and no stranger.  The operator must not name the session of a
\* client that is about to recover another one: its descriptor would stay in
\* the room after the AUTH gives the session up.
THEOREM RoomsNameSessions == OperatorWaits => (Spec => []RoomsExact)
<1>1. OwnedInv /\ RoomsInv => RoomsExact
    <2> SUFFICES ASSUME OwnedInv, RoomsInv, NEW r \in Room,
                        NEW i \in DOMAIN susc_room[r], susc_room[r][i] # BadFd
                 PROVE  /\ \E conn \in Sessions : conn.sockfd = susc_room[r][i]
                        /\ \A j \in DOMAIN susc_room[r] \ {i} :
                              susc_room[r][j] # susc_room[r][i]
        BY DEF RoomsExact
    <2>1. susc_room[r] \in Seq(Fd \cup {BadFd})
        BY RoomTypes
    <2>2. susc_room[r][i] \in ToSet(susc_room[r])
        BY <2>1, ElementsDef
    <2> QED
        BY <2>2 DEF RoomsInv, RoomsOwned, RoomDistinct, Sessions, Entries
<1> QED
    BY <1>1, RoomsInvariant, PTL

\* susc_counter is the number of rooms that name the session, so the collector
\* takes only sessions that are subscribed and leaves none of those alone.
THEOREM CounterCountsRooms == OperatorWaits => (Spec => []CounterExact)
<1>1. RoomsInv => CounterExact
    <2> SUFFICES ASSUME RoomsInv, NEW conn \in Sessions
                 PROVE  conn.susc_counter =
                          Cardinality({r \in Room : InRoom(conn.sockfd, r)})
        BY DEF CounterExact
    <2>1. SubsOf(conn.sockfd) = {r \in Room : InRoom(conn.sockfd, r)}
        BY DEF SubsOf, InRoom
    <2> QED
        BY <2>1 DEF RoomsInv, Counted, Sessions, Entries
<1> QED
    BY <1>1, RoomsInvariant, PTL
=============================================================================
