--------------------------- MODULE LogTransferProofs ---------------------------
(***************************************************************************)
(* Two transfers at once do not meet in log_comprimido.zip, and no thread  *)
(* closes a session, for any number of clients, threads, descriptors and   *)
(* blocks, if the variable that handle_loq_req closes without having       *)
(* initialised it holds no descriptor.  The proof follows the two          *)
(* descriptors of each thread.                                             *)
(***************************************************************************)
EXTENDS LogTransfer, WellFoundedInduction, TLAPS

Slot == {"free", "stdin", "session", "passive", "listen", "transfer", "zip",
         "file", "dead"} \X (Client \cup Thread \cup {Nobody})

\* Where a thread holds its first socket, the port, and no second socket yet.
HasSocket  == {"bind", "listen", "setup", "accept", "zip_open", "zip_close",
               "begin", "open", "data", "terminate", "close", "close_passive"}
HasPort    == {"setup", "accept", "zip_open", "zip_close", "begin", "open", "data"}
BeforeAccept == {"unborn", "socket", "bind", "listen", "setup", "accept"}
MayTransfer  == {"zip_open", "zip_close", "begin", "open", "data", "terminate",
                 "close"}

\* A descriptor that listens is a thread's, and there is only one.
OnePort ==
    /\ \A f \in Fd : fdtab[f][1] = "listen" => fdtab[f][2] \in Thread
    /\ \A f, g \in Fd : fdtab[f][1] = "listen" /\ fdtab[g][1] = "listen" => f = g

\* Sessions are clients'.
SessionSlots == \A f \in Fd : fdtab[f][1] = "session" => fdtab[f][2] \in Client

\* What a thread closes in the end is its own: socket_passive_ftransfer and ...
PassiveOwned(t) ==
    /\ pc[t] \in HasSocket /\ passive[t] \in Fd =>
           fdtab[passive[t]] \in {Obj("passive", t), Obj("listen", t)}
    /\ pc[t] \in HasPort =>
           passive[t] \in Fd /\ fdtab[passive[t]] = Obj("listen", t)

\* ... fd_file_transfer, or no descriptor.
TransferOwned(t) ==
    /\ pc[t] \in BeforeAccept => fd_file_transfer[t] \notin Fd
    /\ pc[t] \in MayTransfer /\ fd_file_transfer[t] \in Fd =>
           fdtab[fd_file_transfer[t]] = Obj("transfer", t)

PortInv ==
    /\ TypeOK /\ OnePort /\ SessionSlots
    /\ \A t \in Thread : PassiveOwned(t) /\ TransferOwned(t)

-----------------------------------------------------------------------------
(* Descriptors.                                                            *)

LEMMA MinNat ==
    ASSUME NEW S \in SUBSET Nat, S # {}
    PROVE  Min(S) \in S
<1>1. PICK x \in S : \A y \in S : <<y, x>> \notin OpToRel(<, Nat)
    BY NatLessThanWellFounded, WFMin
<1>2. ASSUME NEW y \in S PROVE x <= y
    <2>1. OpToRel(<, Nat) = {ss \in Nat \X Nat : ss[1] < ss[2]}
        BY DEF OpToRel
    <2>2. <<y, x>> \in Nat \X Nat /\ <<y, x>> \notin {ss \in Nat \X Nat : ss[1] < ss[2]}
        BY <1>1, <2>1
    <2>3. ~ (<<y, x>>[1] < <<y, x>>[2])
        BY <2>2
    <2> QED
        BY <2>3
<1> QED
    BY <1>2 DEF Min

\* open, socket and accept return a number that was free, or -1.
LEMMA NewFdFree ==
    ASSUME TransferAssumption
    PROVE  \/ NewFd = BadFd /\ BadFd \notin Fd
           \/ NewFd \in Fd /\ fdtab[NewFd] = Free
<1>1. FreeFd \in SUBSET Nat /\ BadFd \notin Fd
    BY DEF TransferAssumption, FreeFd, Fd, BadFd
<1>2. CASE FreeFd = {}
    BY <1>1, <1>2 DEF NewFd
<1>3. CASE FreeFd # {}
    <2>1. NewFd \in FreeFd
        BY <1>1, <1>3, MinNat DEF NewFd
    <2> QED
        BY <2>1 DEF FreeFd
<1> QED
    BY <1>2, <1>3

\* ... and what they return is all that changes.
LEMMA OpenedSlots ==
    ASSUME TransferAssumption, fdtab \in [Fd -> Slot], NEW obj \in Slot
    PROVE  /\ Opened(obj) \in [Fd -> Slot]
           /\ \A f \in Fd : Opened(obj)[f] = fdtab[f] \/
                  (f = NewFd /\ fdtab[f] = Free /\ Opened(obj)[f] = obj)
           /\ NewFd \in Fd => Opened(obj)[NewFd] = obj
    BY NewFdFree DEF Opened

LEMMA ClosedSlots ==
    ASSUME TransferAssumption, fdtab \in [Fd -> Slot], NEW fd
    PROVE  /\ Closed(fd) \in [Fd -> Slot]
           /\ \A f \in Fd : Closed(fd)[f] = IF f = fd THEN Free ELSE fdtab[f]
<1>1. Free \in Slot
    BY DEF Free, Obj, Slot
<1> QED
    BY <1>1 DEF Closed

\* Objects are told apart by what they are and whose they are.
LEMMA ObjParts ==
    ASSUME NEW k, NEW w
    PROVE  Obj(k, w)[1] = k /\ Obj(k, w)[2] = w
    BY DEF Obj

LEMMA FreePart == Free[1] = "free"
    BY DEF Free, Obj

\* The type invariant, in the part about the descriptors and the rest.
OtherTypes ==
    /\ pc \in [Thread -> {"unborn", "socket", "bind", "listen", "setup",
                          "accept", "zip_open", "zip_close", "begin", "open",
                          "data", "terminate", "close", "close_passive", "exit"}]
    /\ sock_req \in [Thread -> Fd \cup {BadFd}]
    /\ passive \in [Thread -> Fd \cup {BadFd}]
    /\ fd_file_transfer \in [Thread -> Nat \cup {BadFd}]
    /\ pos \in [Thread -> Nat]
    /\ home \in [Thread -> Client \cup {Nobody}]
    /\ rpc \in [Thread -> {"unborn", "setup", "connected", "recv", "done", "dead"}]
    /\ backlog \in [Thread -> Seq(Thread)]
    /\ peer \in [Thread -> Thread \cup {Nobody}]
    /\ rcv_owner \in Thread \cup {Nobody}
    /\ verdict \in [Thread -> {"none", "intact", "damaged"}]

SlotsOK == fdtab \in [Fd -> Slot]

-----------------------------------------------------------------------------
(* Types.                                                                  *)

LEMMA Types ==
    ASSUME TransferAssumption, TypeOK, SessionSlots, [Next]_vars
    PROVE  TypeOK'
<1> SUFFICES SlotsOK' /\ OtherTypes'
    BY DEF TypeOK, SlotsOK, OtherTypes, Slot
<1>t. SlotsOK /\ OtherTypes
    BY DEF TypeOK, SlotsOK, OtherTypes, Slot
<1>n. Fd \subseteq Nat /\ NewFd \in Fd \cup {BadFd} /\ Free \in Slot
    BY NewFdFree DEF Fd, TransferAssumption, Free, Obj, Slot
<1>k. \A k \in {"session", "passive", "listen", "transfer", "zip", "file", "dead"},
         w \in Client \cup Thread \cup {Nobody} : Obj(k, w) \in Slot
    BY DEF Obj, Slot
<1>h. \A fd \in Sessions : fdtab[fd][2] \in Client
    BY DEF SessionSlots, Sessions
<1>s. ASSUME NEW fd, At(fd)[1] = "session" PROVE At(fd)[2] \in Client
    BY <1>s DEF At, Free, Obj, SessionSlots
<1>1. ASSUME NEW c \in Client, AcceptSession(c) PROVE SlotsOK' /\ OtherTypes'
    <2>1. SlotsOK'
        BY <1>1, <1>t, <1>k, OpenedSlots DEF SlotsOK, AcceptSession, threads, network, receivers
    <2>2. OtherTypes'
        BY <1>1, <1>t DEF AcceptSession, OtherTypes, threads, network, receivers
    <2> QED
        BY <2>1, <2>2
<1>2. ASSUME NEW fd \in Fd, CloseSession(fd) PROVE SlotsOK' /\ OtherTypes'
    <2>1. SlotsOK'
        BY <1>2, <1>t, ClosedSlots DEF SlotsOK, CloseSession, threads, network, receivers
    <2>2. OtherTypes'
        BY <1>2, <1>t DEF CloseSession, OtherTypes, threads, network, receivers
    <2> QED
        BY <2>1, <2>2
<1>3. ASSUME NEW t \in Thread, NEW fd \in Fd, CmdLog(t, fd) PROVE SlotsOK' /\ OtherTypes'
    <2>1. SlotsOK'
        BY <1>3, <1>t, <1>h DEF SlotsOK, CmdLog, Goto, tables, receivers
    <2>2. OtherTypes'
        BY <1>3, <1>t, <1>h DEF CmdLog, OtherTypes, Goto, tables, receivers
    <2> QED
        BY <2>1, <2>2
<1>4. ASSUME NEW t \in Thread, Socket(t) PROVE SlotsOK' /\ OtherTypes'
    <2>1. SlotsOK'
        BY <1>4, <1>t, <1>n, <1>k, OpenedSlots DEF SlotsOK, Socket, Goto, network, receivers
    <2>2. OtherTypes'
        BY <1>4, <1>t, <1>n DEF Socket, OtherTypes, Goto, network, receivers
    <2> QED
        BY <2>1, <2>2
<1>5. ASSUME NEW t \in Thread, Bind(t) PROVE SlotsOK' /\ OtherTypes'
    <2>1. SlotsOK'
        BY <1>5, <1>t DEF SlotsOK, Bind, Goto, tables, network, receivers
    <2>2. OtherTypes'
        BY <1>5, <1>t DEF Bind, OtherTypes, Goto, tables, network, receivers
    <2> QED
        BY <2>1, <2>2
<1>6. ASSUME NEW t \in Thread, Listen(t) PROVE SlotsOK' /\ OtherTypes'
    <2>1. SlotsOK'
        BY <1>6, <1>t, <1>k DEF SlotsOK, Listen, Goto, network, receivers
    <2>2. OtherTypes'
        BY <1>6, <1>t DEF Listen, OtherTypes, Goto, network, receivers
    <2> QED
        BY <2>1, <2>2
<1>7. ASSUME NEW t \in Thread, WriteSetup(t) PROVE SlotsOK' /\ OtherTypes'
    <2>1. SlotsOK'
        BY <1>7, <1>t, <1>s DEF SlotsOK, WriteSetup, Goto, tables, receivers
    <2>2. OtherTypes'
        <3>1. CASE At(sock_req[t])[1] = "session"
            <4>1. At(sock_req[t])[2] \in Client
                BY <1>s, <3>1
            <4>2. home' \in [Thread -> Client \cup {Nobody}]
                BY <1>7, <1>t, <4>1 DEF WriteSetup, OtherTypes
            <4> QED
                BY <1>7, <1>t, <4>2 DEF WriteSetup, OtherTypes, Goto, tables, receivers
        <3>2. CASE At(sock_req[t])[1] # "session"
            BY <1>7, <1>t, <3>2 DEF WriteSetup, OtherTypes, Goto, tables, receivers
        <3> QED
            BY <3>1, <3>2
    <2> QED
        BY <2>1, <2>2
<1>8. ASSUME NEW t \in Thread, Accept(t) PROVE SlotsOK' /\ OtherTypes'
    <2>1. SlotsOK'
        BY <1>8, <1>t, <1>k, OpenedSlots DEF SlotsOK, Accept
    <2>2. OtherTypes'
        <3>1. NewFd # BadFd /\ Listening(t) => backlog[t] # <<>>
            BY <1>8 DEF Accept
        <3>2. backlog' \in [Thread -> Seq(Thread)]
            BY <1>8, <1>t, <3>1 DEF Accept, OtherTypes
        <3>3. fd_file_transfer' \in [Thread -> Nat \cup {BadFd}]
            BY <1>8, <1>t, <1>n DEF Accept, OtherTypes
        <3> QED
            BY <1>8, <1>t, <3>2, <3>3 DEF Accept, OtherTypes, Goto, receivers
    <2> QED
        BY <2>1, <2>2
<1>9. ASSUME NEW t \in Thread, ZipOpen(t) PROVE SlotsOK' /\ OtherTypes'
    <2>1. SlotsOK'
        BY <1>9, <1>t, <1>k, OpenedSlots DEF SlotsOK, ZipOpen, Goto, tables, network, receivers
    <2>2. OtherTypes'
        BY <1>9, <1>t DEF ZipOpen, OtherTypes, Goto, tables, network, receivers
    <2> QED
        BY <2>1, <2>2
<1>10. ASSUME NEW t \in Thread, ZipClose(t) PROVE SlotsOK' /\ OtherTypes'
    <2>1. SlotsOK'
        BY <1>10, <1>t, <1>n DEF SlotsOK, ZipClose, Goto, tables, network, receivers
    <2>2. OtherTypes'
        BY <1>10, <1>t DEF ZipClose, OtherTypes, Goto, tables, network, receivers
    <2> QED
        BY <2>1, <2>2
<1>11. ASSUME NEW t \in Thread, Begin(t) PROVE SlotsOK' /\ OtherTypes'
    <2>1. SlotsOK'
        BY <1>11, <1>t, <1>k, OpenedSlots DEF SlotsOK, Begin, GotoWritten, Goto, receivers
    <2>2. OtherTypes'
        BY <1>11, <1>t DEF Begin, GotoWritten, OtherTypes, Goto, receivers
    <2> QED
        BY <2>1, <2>2
<1>12. ASSUME NEW t \in Thread, OpenLog(t) PROVE SlotsOK' /\ OtherTypes'
    <2>1. SlotsOK'
        BY <1>12, <1>t, <1>k, OpenedSlots DEF SlotsOK, OpenLog, Goto, network, receivers
    <2>2. OtherTypes'
        BY <1>12, <1>t DEF OpenLog, OtherTypes, Goto, network, receivers
    <2> QED
        BY <2>1, <2>2
<1>13. ASSUME NEW t \in Thread, Data(t) PROVE SlotsOK' /\ OtherTypes'
    <2>1. SlotsOK'
        BY <1>13, <1>t DEF SlotsOK, Data, GotoWritten, Goto, tables, receivers
    <2>2. OtherTypes'
        <3>1. pos' \in [Thread -> Nat]
            BY <1>13, <1>t DEF Data, OtherTypes
        <3>2. pc' \in [Thread -> {"unborn", "socket", "bind", "listen", "setup",
                      "accept", "zip_open", "zip_close", "begin", "open",
                      "data", "terminate", "close", "close_passive", "exit"}]
            <4>1. Goto(t, "terminate") \/ Goto(t, "data")
                BY <1>13 DEF Data, GotoWritten
            <4> QED
                BY <1>t, <4>1 DEF OtherTypes, Goto
        <3> QED
            BY <1>13, <1>t, <3>1, <3>2 DEF Data, OtherTypes, receivers
    <2> QED
        BY <2>1, <2>2
<1>14. ASSUME NEW t \in Thread, Terminate(t) PROVE SlotsOK' /\ OtherTypes'
    <2>1. SlotsOK'
        BY <1>14, <1>t DEF SlotsOK, Terminate, Goto, tables, receivers
    <2>2. OtherTypes'
        BY <1>14, <1>t DEF Terminate, OtherTypes, Goto, tables, receivers
    <2> QED
        BY <2>1, <2>2
<1>15. ASSUME NEW t \in Thread, CloseTransfer(t) PROVE SlotsOK' /\ OtherTypes'
    <2>1. SlotsOK'
        BY <1>15, <1>t, ClosedSlots DEF SlotsOK, CloseTransfer, Goto, network, receivers
    <2>2. OtherTypes'
        BY <1>15, <1>t DEF CloseTransfer, OtherTypes, Goto, network, receivers
    <2> QED
        BY <2>1, <2>2
<1>16. ASSUME NEW t \in Thread, ClosePassive(t) PROVE SlotsOK' /\ OtherTypes'
    <2>1. SlotsOK'
        BY <1>16, <1>t, ClosedSlots DEF SlotsOK, ClosePassive, Goto, network, receivers
    <2>2. OtherTypes'
        BY <1>16, <1>t DEF ClosePassive, OtherTypes, Goto, network, receivers
    <2> QED
        BY <2>1, <2>2
<1>17. ASSUME NEW r \in Thread, Connect(r) PROVE SlotsOK' /\ OtherTypes'
    <2>1. SlotsOK'
        BY <1>17, <1>t DEF SlotsOK, Connect, tables, threads, receivers
    <2>2. OtherTypes'
        <3>1. backlog' \in [Thread -> Seq(Thread)]
            <4>1. ASSUME NEW t \in Thread, backlog' = [backlog EXCEPT ![t] = Append(@, r)]
                  PROVE  backlog' \in [Thread -> Seq(Thread)]
                BY <1>t, <4>1 DEF OtherTypes
            <4> QED
                BY <1>17, <1>t, <4>1 DEF Connect, OtherTypes
        <3>2. rpc' \in [Thread -> {"unborn", "setup", "connected", "recv", "done", "dead"}]
            <4>1. \/ rpc' = [rpc EXCEPT ![r] = "connected"]
                  \/ rpc' = [rpc EXCEPT ![r] = "done"]
                BY <1>17 DEF Connect
            <4> QED
                BY <1>t, <4>1 DEF OtherTypes
        <3>3. peer' \in [Thread -> Thread \cup {Nobody}]
            <4>1. \/ \E t \in Thread : peer' = [peer EXCEPT ![r] = t]
                  \/ peer' = peer
                BY <1>17 DEF Connect
            <4> QED
                BY <1>t, <4>1 DEF OtherTypes
        <3>4. UNCHANGED <<threads, home, receivers>>
            BY <1>17 DEF Connect
        <3> QED
            BY <1>t, <3>1, <3>2, <3>3, <3>4 DEF OtherTypes, threads, receivers
    <2> QED
        BY <2>1, <2>2
<1>18. ASSUME NEW r \in Thread, OpenFile(r) PROVE SlotsOK' /\ OtherTypes'
    <2>1. SlotsOK'
        BY <1>18, <1>t DEF SlotsOK, OpenFile, tables, threads
    <2>2. OtherTypes'
        BY <1>18, <1>t DEF OpenFile, OtherTypes, tables, threads
    <2> QED
        BY <2>1, <2>2
<1>19. ASSUME NEW r \in Thread, RecvBegin(r) PROVE SlotsOK' /\ OtherTypes'
    <2>1. SlotsOK'
        BY <1>19, <1>t DEF SlotsOK, RecvBegin, Received, tables, threads
    <2>2. OtherTypes'
        BY <1>19, <1>t DEF RecvBegin, Received, OtherTypes, tables, threads
    <2> QED
        BY <2>1, <2>2
<1>20. ASSUME NEW r \in Thread, RecvData(r) PROVE SlotsOK' /\ OtherTypes'
    <2>1. SlotsOK'
        BY <1>20, <1>t DEF SlotsOK, RecvData, Received, tables, threads
    <2>2. OtherTypes'
        BY <1>20, <1>t DEF RecvData, Received, OtherTypes, tables, threads
    <2> QED
        BY <2>1, <2>2
<1>21. ASSUME NEW r \in Thread, RecvFin(r) PROVE SlotsOK' /\ OtherTypes'
    <2>1. SlotsOK'
        BY <1>21, <1>t DEF SlotsOK, RecvFin, Received, tables, threads
    <2>2. OtherTypes'
        BY <1>21, <1>t DEF RecvFin, Received, OtherTypes, tables, threads
    <2> QED
        BY <2>1, <2>2
<1>22. ASSUME NEW r \in Thread, RecvFails(r) PROVE SlotsOK' /\ OtherTypes'
    <2>1. SlotsOK'
        BY <1>22, <1>t DEF SlotsOK, RecvFails, tables, threads, receivers
    <2>2. OtherTypes'
        BY <1>22, <1>t DEF RecvFails, OtherTypes, tables, threads, receivers
    <2> QED
        BY <2>1, <2>2
<1>23. ASSUME NEW r \in Thread, ClientDies(r) PROVE SlotsOK' /\ OtherTypes'
    <2>1. SlotsOK'
        BY <1>23, <1>t DEF SlotsOK, ClientDies, tables, threads, receivers
    <2>2. OtherTypes'
        BY <1>23, <1>t DEF ClientDies, OtherTypes, tables, threads, receivers
    <2> QED
        BY <2>1, <2>2
<1>24. CASE ServerDies
    <2>1. SlotsOK'
        BY <1>24, <1>t, <1>k DEF SlotsOK, ServerDies, network, receivers
    <2>2. OtherTypes'
        BY <1>24, <1>t DEF ServerDies, OtherTypes, network, receivers
    <2> QED
        BY <2>1, <2>2
<1>25. CASE UNCHANGED vars
    BY <1>t, <1>25 DEF SlotsOK, OtherTypes, vars, tables, threads, network, receivers
<1> QED
    BY <1>1, <1>2, <1>3, <1>4, <1>5, <1>6, <1>7, <1>8, <1>9, <1>10, <1>11, <1>12,
       <1>13, <1>14, <1>15, <1>16, <1>17, <1>18, <1>19, <1>20, <1>21, <1>22, <1>23,
       <1>24, <1>25
       DEF Next, MainLoop, ThreadStep, ReceiverStep

-----------------------------------------------------------------------------
(* Ownership.                                                              *)

Own(t) == {Obj("passive", t), Obj("listen", t), Obj("transfer", t)}

\* A descriptor that changes was free, or was an archive, or was a thread's own.
OnlyOwn(t) ==
    \A f \in Fd : fdtab'[f] # fdtab[f] =>
        fdtab[f][1] \in {"free", "zip"} \/ fdtab[f] \in Own(t)

StateKept(u) ==
    pc'[u] = pc[u] /\ passive'[u] = passive[u]
        /\ fd_file_transfer'[u] = fd_file_transfer[u]

\* Nothing new listens, and nothing new is a session.
LEMMA PortKept ==
    ASSUME OnePort, SessionSlots,
           \A f \in Fd : fdtab'[f] = fdtab[f] \/ fdtab'[f][1] \notin {"listen", "session"}
    PROVE  OnePort' /\ SessionSlots'
<1>1. \A f \in Fd : fdtab'[f][1] \in {"listen", "session"} => fdtab'[f] = fdtab[f]
    OBVIOUS
<1>2. Fd' = Fd
    BY DEF Fd
<1> QED
    BY <1>1 DEF OnePort, SessionSlots, Fd

LEMMA SlotsKept ==
    ASSUME NEW u \in Thread, PassiveOwned(u), TransferOwned(u), StateKept(u),
           \A f \in Fd : fdtab[f] \in Own(u) => fdtab'[f] = fdtab[f]
    PROVE  PassiveOwned(u)' /\ TransferOwned(u)'
    BY DEF PassiveOwned, TransferOwned, StateKept, Own, Fd

\* What belongs to another thread than t is not changed by t.
LEMMA OthersKept ==
    ASSUME PortInv, NEW t \in Thread, OnlyOwn(t),
           \A u \in Thread \ {t} : StateKept(u)
    PROVE  \A u \in Thread \ {t} : PassiveOwned(u)' /\ TransferOwned(u)'
<1> SUFFICES ASSUME NEW u \in Thread \ {t}
             PROVE  PassiveOwned(u)' /\ TransferOwned(u)'
    OBVIOUS
<1>1. ASSUME NEW o \in Own(u)
      PROVE  o \notin Own(t) /\ o[1] \notin {"free", "zip"}
    BY DEF Own, Obj
<1>2. \A f \in Fd : fdtab[f] \in Own(u) => fdtab'[f] = fdtab[f]
    BY <1>1 DEF OnlyOwn
<1> QED
    BY <1>2, SlotsKept DEF PortInv

\* A step that only opens and closes sessions, or that is none of the server's.
LEMMA MainKept ==
    ASSUME PortInv, UNCHANGED <<pc, passive, fd_file_transfer>>,
           \A f \in Fd : fdtab'[f] # fdtab[f] => fdtab[f][1] \in {"free", "session"}
    PROVE  \A u \in Thread : PassiveOwned(u)' /\ TransferOwned(u)'
<1> SUFFICES ASSUME NEW u \in Thread
             PROVE  PassiveOwned(u)' /\ TransferOwned(u)'
    OBVIOUS
<1>1. ASSUME NEW o \in Own(u)
      PROVE  o[1] \notin {"free", "session"}
    BY DEF Own, Obj
<1>2. \A f \in Fd : fdtab[f] \in Own(u) => fdtab'[f] = fdtab[f]
    BY <1>1
<1> QED
    BY <1>2, SlotsKept DEF PortInv, StateKept

\* A step of thread t that makes nothing listen.
LEMMA ThreadKept ==
    ASSUME PortInv, NEW t \in Thread, OnlyOwn(t),
           \A f \in Fd : fdtab'[f] = fdtab[f] \/ fdtab'[f][1] \notin {"listen", "session"},
           \A u \in Thread \ {t} : StateKept(u),
           PassiveOwned(t)' /\ TransferOwned(t)'
    PROVE  /\ OnePort' /\ SessionSlots'
           /\ \A u \in Thread : PassiveOwned(u)' /\ TransferOwned(u)'
    BY PortKept, OthersKept DEF PortInv

Owned ==
    /\ OnePort /\ SessionSlots
    /\ \A u \in Thread : PassiveOwned(u) /\ TransferOwned(u)

\* The main loop opens and closes sessions only.
LEMMA MainLoopKeeps ==
    ASSUME TransferAssumption, PortInv, MainLoop
    PROVE  Owned'
<1>t. fdtab \in [Fd -> Slot]
    BY DEF PortInv, TypeOK, Slot
<1>1. ASSUME NEW c \in Client, AcceptSession(c) PROVE Owned'
    <2>1. Obj("session", c) \in Slot
        BY DEF Obj, Slot
    <2>2. \A f \in Fd : fdtab'[f] = fdtab[f] \/
              (fdtab[f][1] = "free" /\ fdtab'[f] = Obj("session", c))
        BY <1>1, <1>t, <2>1, OpenedSlots, FreePart DEF AcceptSession
    <2>3. UNCHANGED <<pc, passive, fd_file_transfer>>
        BY <1>1 DEF AcceptSession, threads
    <2>4. \A u \in Thread : PassiveOwned(u)' /\ TransferOwned(u)'
        BY <2>2, <2>3, MainKept
    <2>5. OnePort' /\ SessionSlots'
        BY <2>2, ObjParts DEF PortInv, OnePort, SessionSlots, Fd
    <2> QED
        BY <2>4, <2>5 DEF Owned
<1>2. ASSUME NEW fd \in Fd, CloseSession(fd) PROVE Owned'
    <2>1. \A f \in Fd : fdtab'[f] = fdtab[f] \/
              (fdtab[f][1] = "session" /\ fdtab'[f][1] = "free")
        BY <1>2, <1>t, ClosedSlots, FreePart DEF CloseSession, Sessions
    <2>2. UNCHANGED <<pc, passive, fd_file_transfer>>
        BY <1>2 DEF CloseSession, threads
    <2>3. \A u \in Thread : PassiveOwned(u)' /\ TransferOwned(u)'
        BY <2>1, <2>2, MainKept
    <2>4. OnePort' /\ SessionSlots'
        BY <2>1, PortKept DEF PortInv
    <2> QED
        BY <2>3, <2>4 DEF Owned
<1>3. ASSUME NEW t \in Thread, NEW fd \in Fd, CmdLog(t, fd) PROVE Owned'
    <2>1. fdtab' = fdtab
        BY <1>3 DEF CmdLog, tables
    <2>2. \A u \in Thread \ {t} : StateKept(u)
        BY <1>3 DEF CmdLog, Goto, StateKept, PortInv, TypeOK
    <2>3. PassiveOwned(t)' /\ TransferOwned(t)'
        BY <1>3, <2>1 DEF CmdLog, Goto, PortInv, TypeOK, PassiveOwned, TransferOwned,
                        HasSocket, HasPort, BeforeAccept, MayTransfer, Fd
    <2> QED
        BY <2>1, <2>2, <2>3, ThreadKept DEF OnlyOwn, Owned
<1> QED
    BY <1>1, <1>2, <1>3 DEF MainLoop

\* Receivers touch no descriptor of the server.
LEMMA ReceiversKeep ==
    ASSUME PortInv, UNCHANGED <<fdtab, pc, passive, fd_file_transfer>>
    PROVE  Owned'
    BY MainKept, PortKept DEF Owned, PortInv

\* socket, bind and listen: from no descriptor to the port.
LEMMA PortSteps ==
    ASSUME TransferAssumption, PortInv, NEW t \in Thread,
           Socket(t) \/ Bind(t) \/ Listen(t)
    PROVE  Owned'
<1>t. fdtab \in [Fd -> Slot] /\ PassiveOwned(t) /\ TransferOwned(t) /\ TypeOK
    BY DEF PortInv, TypeOK, Slot
<1>1. CASE Socket(t)
    <2>1. Obj("passive", t) \in Slot
        BY DEF Obj, Slot
    <2>2. \A f \in Fd : fdtab'[f] = fdtab[f] \/
              (fdtab[f] = Free /\ fdtab'[f] = Obj("passive", t))
        BY <1>1, <1>t, <2>1, OpenedSlots DEF Socket
    <2>3. NewFd \in Fd => fdtab'[NewFd] = Obj("passive", t)
        BY <1>1, <1>t, <2>1, OpenedSlots DEF Socket
    <2>4. \A u \in Thread \ {t} : StateKept(u)
        BY <1>1, <1>t DEF Socket, Goto, StateKept, TypeOK
    <2>5. PassiveOwned(t)'
        BY <1>1, <1>t, <2>3 DEF Socket, Goto, TypeOK, PassiveOwned, HasSocket, HasPort, Fd
    <2>6. TransferOwned(t)'
        BY <1>1, <1>t DEF Socket, Goto, TypeOK, TransferOwned, BeforeAccept, MayTransfer, Fd
    <2> QED
        BY <2>2, <2>4, <2>5, <2>6, FreePart, ObjParts, ThreadKept DEF OnlyOwn, Owned
<1>2. CASE Bind(t)
    <2>1. fdtab' = fdtab
        BY <1>2 DEF Bind, tables
    <2>2. \A u \in Thread \ {t} : StateKept(u)
        BY <1>2, <1>t DEF Bind, Goto, StateKept, TypeOK
    <2>3. PassiveOwned(t)' /\ TransferOwned(t)'
        BY <1>2, <1>t, <2>1 DEF Bind, Goto, TypeOK, PassiveOwned, TransferOwned,
                              HasSocket, HasPort, BeforeAccept, MayTransfer, Fd
    <2> QED
        BY <2>1, <2>2, <2>3, ThreadKept DEF OnlyOwn, Owned
<1>3. CASE Listen(t) /\ UNCHANGED fdtab
    <2>1. pc' = [pc EXCEPT ![t] = "terminate"] /\ UNCHANGED <<passive, fd_file_transfer>>
        <3>1. \A p \in Fd : [fdtab EXCEPT ![p] = Obj("listen", t)] = fdtab =>
                  fdtab[p] # Obj("passive", t)
            BY <1>t, ObjParts
        <3>2. At(passive[t]) = Obj("passive", t) => passive[t] \in Fd
            BY FreePart, ObjParts DEF At
        <3> QED
            BY <1>3, <3>1, <3>2 DEF Listen, Goto, At
    <2>2. \A u \in Thread \ {t} : StateKept(u)
        BY <2>1, <1>t DEF StateKept, TypeOK
    <2>3. PassiveOwned(t)' /\ TransferOwned(t)'
        BY <1>3, <1>t, <2>1 DEF Listen, TypeOK, PassiveOwned, TransferOwned,
                              HasSocket, HasPort, BeforeAccept, MayTransfer, Fd
    <2> QED
        BY <1>3, <2>2, <2>3, ThreadKept DEF OnlyOwn, Owned
<1>4. CASE Listen(t) /\ fdtab' # fdtab
    <2>1. /\ ~PortTaken /\ passive[t] \in Fd /\ fdtab[passive[t]] = Obj("passive", t)
          /\ fdtab' = [fdtab EXCEPT ![passive[t]] = Obj("listen", t)]
          /\ pc' = [pc EXCEPT ![t] = "setup"] /\ UNCHANGED <<passive, fd_file_transfer>>
        BY <1>4, FreePart, ObjParts DEF Listen, Goto, At
    <2>2. OnlyOwn(t)
        BY <2>1, <1>t DEF OnlyOwn, Own
    <2>3. \A u \in Thread \ {t} : StateKept(u)
        BY <2>1, <1>t DEF StateKept, TypeOK
    <2>4. \A u \in Thread \ {t} : PassiveOwned(u)' /\ TransferOwned(u)'
        BY <2>2, <2>3, OthersKept
    <2>5. PassiveOwned(t)' /\ TransferOwned(t)'
        BY <1>4, <1>t, <2>1 DEF Listen, TypeOK, PassiveOwned, TransferOwned,
                              HasSocket, HasPort, BeforeAccept, MayTransfer, Fd
    <2>6. \A f \in Fd : fdtab[f][1] # "listen"
        <3>1. \A f \in Fd : fdtab[f] \in Slot
            BY <1>t
        <3>2. ASSUME NEW f \in Fd, fdtab[f][1] = "listen"
              PROVE  fdtab[f] = Obj("listen", fdtab[f][2])
            BY <3>1, <3>2 DEF Slot, Obj
        <3> QED
            BY <2>1, <3>2 DEF PortTaken, Listening, PortInv, OnePort
    <2>7. OnePort' /\ SessionSlots'
        <3>1. \A f \in Fd : fdtab'[f] = IF f = passive[t] THEN Obj("listen", t)
                                        ELSE fdtab[f]
            BY <2>1, <1>t
        <3> QED
            BY <2>6, <3>1, ObjParts DEF PortInv, OnePort, SessionSlots, Fd
    <2> QED
        BY <2>4, <2>5, <2>7 DEF Owned
<1> QED
    BY <1>1, <1>2, <1>3, <1>4

\* Steps of thread t with both descriptors as they are.
LEMMA WorkSteps ==
    ASSUME TransferAssumption, PortInv, NEW t \in Thread,
           \/ WriteSetup(t) \/ ZipOpen(t) \/ ZipClose(t) \/ Begin(t)
           \/ OpenLog(t) \/ Data(t) \/ Terminate(t)
    PROVE  Owned'
<1>t. fdtab \in [Fd -> Slot] /\ PassiveOwned(t) /\ TransferOwned(t) /\ TypeOK
    BY DEF PortInv, TypeOK, Slot
<1>o. \A k \in {"zip", "file"} : Obj(k, t) \in Slot
    BY DEF Obj, Slot
<1>1. \A f \in Fd : \/ fdtab'[f] = fdtab[f]
                    \/ /\ fdtab[f] = Free \/ fdtab[f] = Obj("zip", t)
                       /\ fdtab'[f] \in {Free, Obj("zip", t), Obj("file", t)}
    BY <1>t, <1>o, OpenedSlots
       DEF WriteSetup, ZipOpen, ZipClose, Begin, OpenLog, Data, Terminate, tables
<1>2. UNCHANGED <<passive, fd_file_transfer>>
    BY DEF WriteSetup, ZipOpen, ZipClose, Begin, OpenLog, Data, Terminate, threads
<1>3. \E l \in {"accept", "zip_close", "begin", "open", "data", "terminate", "close"} :
          /\ pc' = [pc EXCEPT ![t] = l]
          /\ \/ pc[t] \in {"zip_open", "zip_close", "begin", "open", "data", "terminate"}
                /\ l # "accept"
             \/ pc[t] = "setup" /\ l \in {"accept", "terminate"}
          /\ pc[t] = "terminate" <=> l = "close"
    BY <1>t DEF WriteSetup, ZipOpen, ZipClose, Begin, OpenLog, Data, Terminate, Goto, GotoWritten
<1>4. \A u \in Thread \ {t} : StateKept(u)
    BY <1>2, <1>3, <1>t DEF StateKept, TypeOK
<1>5. \A f \in Fd : fdtab[f] \in Own(t) => fdtab'[f] = fdtab[f]
    BY <1>1, FreePart, ObjParts DEF Own
<1>6. PassiveOwned(t)'
    BY <1>2, <1>3, <1>5, <1>t DEF PassiveOwned, HasSocket, HasPort, Own, TypeOK, Fd
<1>7. TransferOwned(t)'
    BY <1>2, <1>3, <1>5, <1>t DEF TransferOwned, BeforeAccept, MayTransfer, Own, TypeOK, Fd
<1> QED
    BY <1>1, <1>4, <1>6, <1>7, FreePart, ObjParts, ThreadKept DEF OnlyOwn, Owned

\* accept, and the two closes.
LEMMA ConnectionSteps ==
    ASSUME TransferAssumption, PortInv, NEW t \in Thread,
           Accept(t) \/ CloseTransfer(t) \/ ClosePassive(t)
    PROVE  Owned'
<1>t. fdtab \in [Fd -> Slot] /\ PassiveOwned(t) /\ TransferOwned(t) /\ TypeOK
    BY DEF PortInv, TypeOK, Slot
<1>1. CASE Accept(t)
    <2>1. Obj("transfer", t) \in Slot
        BY DEF Obj, Slot
    <2>2. \A f \in Fd : fdtab'[f] = fdtab[f] \/
              (fdtab[f] = Free /\ fdtab'[f] = Obj("transfer", t))
        BY <1>1, <1>t, <2>1, OpenedSlots DEF Accept
    <2>3. /\ pc[t] = "accept"
          /\ \/ /\ pc' = [pc EXCEPT ![t] = "zip_open"]
                /\ fd_file_transfer' = [fd_file_transfer EXCEPT ![t] = NewFd]
                /\ NewFd \in Fd => fdtab'[NewFd] = Obj("transfer", t)
             \/ /\ pc' = [pc EXCEPT ![t] = "terminate"]
                /\ fd_file_transfer' = [fd_file_transfer EXCEPT ![t] = BadFd]
          /\ passive' = passive
        BY <1>1, <1>t, <2>1, OpenedSlots DEF Accept, Goto
    <2>4. \A u \in Thread \ {t} : StateKept(u)
        BY <2>3, <1>t DEF StateKept, TypeOK
    <2>5. \A f \in Fd : fdtab[f] \in Own(t) => fdtab'[f] = fdtab[f]
        BY <2>2, FreePart, ObjParts DEF Own
    <2>6. PassiveOwned(t)'
        BY <2>3, <2>5, <1>t DEF PassiveOwned, HasSocket, HasPort, Own, TypeOK, Fd
    <2>7. TransferOwned(t)'
        <3>1. BadFd \notin Fd /\ Fd' = Fd
            BY DEF BadFd, Fd
        <3>2. pc'[t] \notin BeforeAccept
            BY <2>3, <1>t DEF BeforeAccept, TypeOK
        <3>3. fd_file_transfer'[t] \in Fd =>
                  fdtab'[fd_file_transfer'[t]] = Obj("transfer", t)
            BY <2>3, <3>1, <1>t DEF TypeOK
        <3> QED
            BY <3>1, <3>2, <3>3 DEF TransferOwned, BeforeAccept
    <2> QED
        BY <2>2, <2>4, <2>6, <2>7, FreePart, ObjParts, ThreadKept DEF OnlyOwn, Owned
<1>2. CASE CloseTransfer(t)
    <2>1. \A f \in Fd : fdtab'[f] = IF f = fd_file_transfer[t] THEN Free ELSE fdtab[f]
        BY <1>2, <1>t, ClosedSlots DEF CloseTransfer
    <2>2. fd_file_transfer[t] \in Fd => fdtab[fd_file_transfer[t]] = Obj("transfer", t)
        BY <1>2, <1>t DEF CloseTransfer, TransferOwned, MayTransfer
    <2>3. /\ pc[t] = "close" /\ pc' = [pc EXCEPT ![t] = "close_passive"]
          /\ UNCHANGED <<passive, fd_file_transfer>>
        BY <1>2 DEF CloseTransfer, Goto
    <2>4. \A u \in Thread \ {t} : StateKept(u)
        BY <2>3, <1>t DEF StateKept, TypeOK
    <2>5. PassiveOwned(t)'
        <3>1. passive[t] \in Fd => passive[t] # fd_file_transfer[t]
            BY <1>t, <2>2, <2>3, ObjParts DEF PassiveOwned, HasSocket
        <3> QED
            BY <2>1, <2>3, <3>1, <1>t DEF PassiveOwned, HasSocket, HasPort, TypeOK, Fd
    <2>6. TransferOwned(t)'
        BY <2>3, <1>t DEF TransferOwned, BeforeAccept, MayTransfer, TypeOK
    <2> QED
        BY <2>1, <2>2, <2>4, <2>5, <2>6, FreePart, ObjParts, ThreadKept
           DEF OnlyOwn, Own, Owned
<1>3. CASE ClosePassive(t)
    <2>1. \A f \in Fd : fdtab'[f] = IF f = passive[t] THEN Free ELSE fdtab[f]
        BY <1>3, <1>t, ClosedSlots DEF ClosePassive
    <2>2. passive[t] \in Fd => fdtab[passive[t]] \in Own(t)
        BY <1>3, <1>t DEF ClosePassive, PassiveOwned, HasSocket, Own
    <2>3. /\ pc[t] = "close_passive" /\ pc' = [pc EXCEPT ![t] = "exit"]
          /\ UNCHANGED <<passive, fd_file_transfer>>
        BY <1>3 DEF ClosePassive, Goto
    <2>4. \A u \in Thread \ {t} : StateKept(u)
        BY <2>3, <1>t DEF StateKept, TypeOK
    <2>5. PassiveOwned(t)' /\ TransferOwned(t)'
        BY <2>3, <1>t DEF PassiveOwned, TransferOwned, HasSocket, HasPort, BeforeAccept,
                          MayTransfer, TypeOK
    <2> QED
        BY <2>1, <2>2, <2>4, <2>5, FreePart, ThreadKept DEF OnlyOwn, Owned
<1> QED
    BY <1>1, <1>2, <1>3

-----------------------------------------------------------------------------
(* The invariant and what follows from it.                                 *)

LEMMA Initially ==
    ASSUME TransferAssumption, Leftover \cap Fd = {}, Init
    PROVE  PortInv
<1>1. TypeOK
    <2>1. fdtab \in [Fd -> Slot]
        BY DEF Init, Slot, Free, Obj
    <2>2. OtherTypes
        <3>1. fd_file_transfer \in [Thread -> Nat \cup {BadFd}]
            BY DEF Init, TransferAssumption
        <3>2. <<>> \in Seq(Thread)
            OBVIOUS
        <3> QED
            BY <3>1, <3>2 DEF Init, OtherTypes
    <2> QED
        BY <2>1, <2>2 DEF TypeOK, OtherTypes, Slot
<1>2. OnePort /\ SessionSlots
    BY DEF Init, OnePort, SessionSlots, Free, Obj
<1>3. \A t \in Thread : PassiveOwned(t) /\ TransferOwned(t)
    BY DEF Init, PassiveOwned, TransferOwned, HasSocket, HasPort, MayTransfer
<1> QED
    BY <1>1, <1>2, <1>3 DEF PortInv

LEMMA Inductive ==
    ASSUME TransferAssumption, PortInv, [Next]_vars
    PROVE  PortInv'
<1>1. TypeOK'
    BY Types DEF PortInv
<1>2. ASSUME MainLoop PROVE Owned'
    BY <1>2, MainLoopKeeps
<1>3. ASSUME NEW t \in Thread, ThreadStep(t) PROVE Owned'
    BY <1>3, PortSteps, WorkSteps, ConnectionSteps DEF ThreadStep
<1>4. ASSUME NEW r \in Thread, ReceiverStep(r) \/ ClientDies(r) PROVE Owned'
    <2>1. UNCHANGED <<tables, threads>>
        BY <1>4 DEF ReceiverStep, ClientDies, Connect, OpenFile, RecvBegin, RecvData,
                    RecvFin, RecvFails, Received
    <2> QED
        BY <2>1, ReceiversKeep DEF tables, threads
<1>5. ASSUME ServerDies PROVE Owned'
    <2>1. \A f \in Fd : fdtab'[f][1] = "dead"
        BY <1>5, ObjParts DEF ServerDies
    <2>2. \A t \in Thread : pc'[t] = "exit"
        BY <1>5 DEF ServerDies
    <2>3. OnePort' /\ SessionSlots'
        BY <2>1 DEF OnePort, SessionSlots, Fd
    <2>4. \A t \in Thread : PassiveOwned(t)' /\ TransferOwned(t)'
        BY <2>2 DEF PassiveOwned, TransferOwned, HasSocket, HasPort, BeforeAccept, MayTransfer
    <2> QED
        BY <2>3, <2>4 DEF Owned
<1>6. ASSUME UNCHANGED vars PROVE Owned'
    BY <1>6, ReceiversKeep DEF vars, tables, threads
<1>7. Owned'
    BY <1>2, <1>3, <1>4, <1>5, <1>6 DEF Next
<1> QED
    BY <1>1, <1>7 DEF PortInv, Owned

LEMMA PortInvHolds ==
    ASSUME Leftover \cap Fd = {}
    PROVE  Spec => []PortInv
<1>1. Init => PortInv
    BY Initially, TransferAssumption
<1>2. PortInv /\ [Next]_vars => PortInv'
    BY Inductive, TransferAssumption
<1> QED
    BY <1>1, <1>2, PTL DEF Spec

\* The port has one holder.
LEMMA PortHolder ==
    ASSUME PortInv, NEW t \in Thread, NEW u \in Thread,
           pc[t] \in HasPort, pc[u] \in HasPort
    PROVE  t = u
<1>1. /\ passive[t] \in Fd /\ fdtab[passive[t]] = Obj("listen", t)
      /\ passive[u] \in Fd /\ fdtab[passive[u]] = Obj("listen", u)
    BY DEF PortInv, PassiveOwned
<1>2. passive[t] = passive[u]
    BY <1>1, ObjParts DEF PortInv, OnePort
<1> QED
    BY <1>1, <1>2, ObjParts

\* Only one thread at a time works with log_comprimido.zip (srv_util.c:226): the
\* thread that does has the one socket that listens on the port, and keeps it
\* until it is done.
THEOREM OneTransferOnly ==
    ASSUME Leftover \cap Fd = {}
    PROVE  Spec => []OneTransfer
<1>1. PortInv => OneTransfer
    <2> SUFFICES ASSUME PortInv PROVE OneTransfer
        OBVIOUS
    <2> QED
        BY PortHolder DEF OneTransfer, HasPort, PortInv
<1> QED
    BY <1>1, PortInvHolds, PTL

\* No thread closes a session of the main loop (srv_util.c:273-274), although
\* `terminate' closes the two numbers on every path.
THEOREM NoSessionClosed ==
    ASSUME Leftover \cap Fd = {}
    PROVE  Spec => SessionsUntouched
<1>1. PortInv /\ [Next]_vars =>
        [\A f \in Sessions :
           fdtab'[f] # fdtab[f] => UNCHANGED pc \/ fdtab'[f][1] = "dead"]_vars
    <2> SUFFICES ASSUME PortInv, Next, NEW f \in Sessions,
                        fdtab'[f] # fdtab[f], pc' # pc
                 PROVE  fdtab'[f][1] = "dead"
        OBVIOUS
    <2>t. fdtab \in [Fd -> Slot] /\ f \in Fd /\ fdtab[f][1] = "session"
        BY DEF PortInv, TypeOK, Slot, Sessions
    <2>o. \A k \in {"passive", "transfer", "zip", "file"}, t \in Thread : Obj(k, t) \in Slot
        BY DEF Obj, Slot
    <2>1. CASE MainLoop
        BY <2>1, <2>t DEF MainLoop, AcceptSession, CloseSession, CmdLog, threads, tables
    <2>2. ASSUME NEW t \in Thread, ThreadStep(t) PROVE FALSE
        <3>1. PassiveOwned(t) /\ TransferOwned(t)
            BY DEF PortInv
        <3>2. fdtab[f] # Free /\ \A k \in {"passive", "listen", "transfer", "zip"} :
                  fdtab[f] # Obj(k, t)
            BY <2>t, FreePart, ObjParts
        <3>3. CASE Socket(t) \/ Accept(t) \/ ZipOpen(t) \/ Begin(t) \/ OpenLog(t)
            BY <2>t, <2>o, <3>2, <3>3, OpenedSlots, TransferAssumption
               DEF Socket, Accept, ZipOpen, Begin, OpenLog, tables
        <3>4. CASE Bind(t) \/ WriteSetup(t) \/ Data(t) \/ Terminate(t)
            BY <3>4 DEF Bind, WriteSetup, Data, Terminate, tables
        <3>5. CASE Listen(t)
            BY <2>t, <3>2, <3>5 DEF Listen, At
        <3>6. CASE ZipClose(t)
            BY <2>t, <3>2, <3>6 DEF ZipClose, tables
        <3>7. CASE CloseTransfer(t)
            BY <2>t, <3>1, <3>2, <3>7, ClosedSlots, TransferAssumption
               DEF CloseTransfer, TransferOwned, MayTransfer
        <3>8. CASE ClosePassive(t)
            BY <2>t, <3>1, <3>2, <3>8, ClosedSlots, TransferAssumption
               DEF ClosePassive, PassiveOwned, HasSocket
        <3> QED
            BY <2>2, <3>3, <3>4, <3>5, <3>6, <3>7, <3>8 DEF ThreadStep
    <2>3. ASSUME NEW r \in Thread, ReceiverStep(r) \/ ClientDies(r) PROVE FALSE
        BY <2>3 DEF ReceiverStep, ClientDies, Connect, OpenFile, RecvBegin, RecvData,
                    RecvFin, RecvFails, Received, threads
    <2>4. CASE ServerDies
        BY <2>4, <2>t, ObjParts DEF ServerDies
    <2> QED
        BY <2>1, <2>2, <2>3, <2>4 DEF Next
<1> QED
    BY <1>1, PortInvHolds, PTL DEF Spec, SessionsUntouched
-----------------------------------------------------------------------------
(* What a receiver reads.                                                  *)

Block == Thread \X (1 .. Blocks)
FtPackets == [mtype : {"FT_BEGIN", "FT_DATA", "FT_FIN", "none"},
              hash : Seq(Block), fsize : Nat]

DataTypes ==
    /\ zipfile \in Seq(Block) /\ rcv_file \in Seq(Block)
    /\ chan \in [Thread -> Seq(FtPackets)] /\ last \in [Thread -> FtPackets]
    /\ server_hash \in [Thread -> Seq(Block)] /\ my_hash \in [Thread -> Seq(Block)]

\* Packet number i of the transfer of thread t, and where a thread has sent FT_FIN.
Packet(t, i) == IF i = 1 THEN FtBegin(Zipped(t)) ELSE FtData(<<t, i - 1>>)
Ended == {"close", "close_passive", "exit"}

Active(r)   == rpc[r] \in {"connected", "recv"}
Queued(r)   == r \in ToSet(backlog[peer[r]])
Unread(r)   == last[r] = NoPacket /\ my_hash[r] = <<>>
Untouched(r) == Unread(r) /\ chan[r] = <<>>

\* A receiver is sent nothing before its thread has accepted it.
Waiting(r) ==
    /\ pc[r] \in {"unborn", "socket", "bind", "listen", "setup"} => rpc[r] = "unborn"
    /\ rpc[r] \in {"unborn", "setup"} => Untouched(r)
    /\ rpc[r] = "connected" => Unread(r)
    /\ Active(r) => /\ peer[r] \in Thread
                    /\ pc[peer[r]] \in BeforeAccept => Queued(r)
                    /\ Queued(r) => Untouched(r)

\* What thread t sends, and where it stands.
Sending(t) ==
    /\ pc[t] \in {"begin", "open", "data"} => zipfile = Zipped(t)
    /\ pc[t] \in {"zip_open", "zip_close", "begin", "open", "data"} =>
           fd_file_transfer[t] \in Fd
    /\ pc[t] \in BeforeAccept \cup {"zip_open", "zip_close", "begin", "open"} =>
           pos[t] = 0
    /\ pc[t] = "data" => pos[t] <= Blocks

\* The packets r has read, and those it has read or has still in its socket.
Taken(r) == IF last[r] = NoPacket THEN 0 ELSE Len(rcv_file) + 1
Given(r) == Taken(r) + Len(chan[r])

\* The file is the beginning of what thread t sends.
FileFrom(t) ==
    Len(rcv_file) <= Blocks /\ \A i \in 1 .. Len(rcv_file) : rcv_file[i] = <<t, i>>

\* How many packets thread t has sent, as far as its place tells.
HasSent(t, n) ==
    /\ pc[t] \in {"zip_open", "zip_close", "begin"} => n = 0
    /\ pc[t] = "open" => n = 1
    /\ pc[t] = "data" => n = pos[t] + 1

\* r has read the first packets of its thread, and the next ones wait for it ...
ReadsWell(r) ==
    /\ last[r] # NoPacket => /\ my_hash[r] = rcv_file /\ server_hash[r] = Zipped(peer[r])
                             /\ FileFrom(peer[r])
                             /\ last[r] = Packet(peer[r], Taken(r))
    /\ \A i \in 1 .. Len(chan[r]) :
         \/ chan[r][i] = Packet(peer[r], Taken(r) + i) /\ Taken(r) + i <= Blocks + 1
         \/ i = Len(chan[r]) /\ chan[r][i] = FtFin /\ pc[peer[r]] \in Ended
    /\ HasSent(peer[r], Given(r))

\* ... or the connection is over and r reads the last block again and again.
HangsUp(t) == t \in Thread /\ pc[t] \notin BeforeAccept /\ ~Connected(t)
Repeats(r) == HangsUp(peer[r]) /\ chan[r] = <<>> /\ last[r].mtype = "FT_DATA"

Reading(r) == Active(r) /\ ~Queued(r) => ReadsWell(r) \/ (rpc[r] = "recv" /\ Repeats(r))

\* Only the receiver that created the file writes to it.
FileOwned ==
    /\ rcv_owner = Nobody => rcv_file = <<>>
    /\ rcv_owner \in Thread => rpc[rcv_owner] \in {"recv", "done", "dead"}
    /\ \A r \in Thread :
         /\ rpc[r] = "recv" => rcv_owner = r /\ (last[r] = NoPacket => rcv_file = <<>>)
         /\ verdict[r] # "none" => rcv_owner = r /\ rpc[r] = "done"

\* What is in the file in the end.
FileKept ==
    /\ rcv_owner \in Thread => \/ FileFrom(peer[rcv_owner])
                               \/ verdict[rcv_owner] = "none" /\ HangsUp(peer[rcv_owner])
    /\ \A r \in Thread : verdict[r] = "intact" => rcv_file = Zipped(peer[r])

FileInv ==
    /\ DataTypes /\ FileOwned /\ FileKept
    /\ \A r \in Thread : Waiting(r) /\ Sending(r) /\ Reading(r)

-----------------------------------------------------------------------------
(* Packets.                                                                *)

LEMMA PacketParts ==
    ASSUME NEW b
    PROVE  /\ FtBegin(b).mtype = "FT_BEGIN" /\ FtBegin(b).hash = b
           /\ FtData(b).mtype = "FT_DATA" /\ FtData(b).hash = <<b>>
           /\ FtFin.mtype = "FT_FIN" /\ NoPacket.mtype = "none"
    BY DEF FtBegin, FtData, FtFin, NoPacket, FtPacket

\* The log as a thread compresses it.
LEMMA ZippedBlocks ==
    ASSUME TransferAssumption, NEW t \in Thread
    PROVE  /\ Zipped(t) \in Seq(Block) /\ Len(Zipped(t)) = Blocks
           /\ \A i \in 1 .. Blocks : Zipped(t)[i] = <<t, i>> /\ <<t, i>> \in Block
<1>1. Blocks \in Nat
    BY DEF TransferAssumption
<1>2. \A i \in 1 .. Blocks : <<t, i>> \in Block
    BY DEF Block
<1> QED
    BY <1>1, <1>2 DEF Zipped

LEMMA PacketTypes ==
    ASSUME TransferAssumption, NEW t \in Thread
    PROVE  /\ FtBegin(Zipped(t)) \in FtPackets /\ FtFin \in FtPackets
           /\ NoPacket \in FtPackets
           /\ \A b \in Block : FtData(b) \in FtPackets
           /\ \A i \in 1 .. Blocks + 1 : Packet(t, i) \in FtPackets
<1>1. LogSize \in Nat /\ Blocks \in Nat
    BY DEF TransferAssumption
<1>2. FtBegin(Zipped(t)) \in FtPackets
    BY <1>1, ZippedBlocks DEF FtBegin, FtPacket, FtPackets
<1>3. \A b \in Block : FtData(b) \in FtPackets
    BY DEF FtData, FtPacket, FtPackets
<1>4. FtFin \in FtPackets /\ NoPacket \in FtPackets
    BY DEF FtFin, NoPacket, FtPacket, FtPackets
<1>5. \A i \in 1 .. Blocks + 1 : i # 1 => <<t, i - 1>> \in Block
    BY <1>1 DEF Block
<1> QED
    BY <1>2, <1>3, <1>4, <1>5 DEF Packet

\* The first packet is the only FT_BEGIN, and the others are blocks.
LEMMA PacketKinds ==
    ASSUME NEW t \in Thread, NEW i \in Nat, i # 0
    PROVE  /\ Packet(t, i).mtype = IF i = 1 THEN "FT_BEGIN" ELSE "FT_DATA"
           /\ Packet(t, i) # NoPacket /\ Packet(t, i) # FtFin
           /\ i # 1 => Packet(t, i).hash = << <<t, i - 1>> >>
           /\ i = 1 => Packet(t, i).hash = Zipped(t)
<1>1. CASE i = 1
    <2>1. Packet(t, i) = FtBegin(Zipped(t))
        BY <1>1 DEF Packet
    <2> QED
        BY <1>1, <2>1, PacketParts
<1>2. CASE i # 1
    <2>1. Packet(t, i) = FtData(<<t, i - 1>>)
        BY <1>2 DEF Packet
    <2> QED
        BY <1>2, <2>1, PacketParts
<1> QED
    BY <1>1, <1>2

\* What a write on the connection of thread t does: it reaches the readers of t,
\* if the connection is still there.
LEMMA SentChannels ==
    ASSUME TransferAssumption, PortInv, NEW t \in Thread, pc[t] \in MayTransfer,
           NEW p
    PROVE  /\ Sent(fd_file_transfer[t], p) =
                  [r \in Thread |-> IF fd_file_transfer[t] \in Fd /\ r \in Reader(t)
                                    THEN Append(chan[r], p) ELSE chan[r]]
           /\ fd_file_transfer[t] \in Fd => Connected(t)
<1>1. fd_file_transfer[t] \in Fd => fdtab[fd_file_transfer[t]] = Obj("transfer", t)
    BY DEF PortInv, TransferOwned
<1>2. fd_file_transfer[t] \in Fd =>
          At(fd_file_transfer[t])[1] = "transfer" /\ At(fd_file_transfer[t])[2] = t
    BY <1>1, ObjParts DEF At
<1>3. fd_file_transfer[t] \notin Fd => At(fd_file_transfer[t])[1] # "transfer"
    BY FreePart DEF At
<1> QED
    BY <1>1, <1>2, <1>3 DEF Sent, Connected

\* The readers of t are those it has accepted.
LEMMA ReadersAre ==
    ASSUME NEW t \in Thread, NEW r \in Thread
    PROVE  r \in Reader(t) <=> peer[r] = t /\ Active(r) /\ ~Queued(r)
    BY DEF Reader, Active, Queued

-----------------------------------------------------------------------------
(* What every step keeps.                                                  *)

\* No connection comes back, and no thread goes back before accept.
LEMMA HangsUpStays ==
    ASSUME TransferAssumption, PortInv, [Next]_vars, NEW u \in Thread,
           pc[u] \notin BeforeAccept
    PROVE  /\ pc'[u] \notin BeforeAccept
           /\ Connected(u)' => Connected(u)
<1>t. fdtab \in [Fd -> Slot] /\ TypeOK
    BY DEF PortInv, TypeOK, Slot
<1>o. \A k \in {"session", "passive", "zip", "file"}, w \in Client \cup Thread :
          Obj(k, w) \in Slot /\ Obj(k, w) # Obj("transfer", u)
    BY DEF Obj, Slot
<1>p. ASSUME \/ pc'[u] = pc[u]
             \/ pc'[u] \in {"begin", "zip_close", "open", "data", "terminate", "close",
                            "close_passive", "exit"}
      PROVE  pc'[u] \notin BeforeAccept
    BY <1>p DEF BeforeAccept
<1>f. Free # Obj("transfer", u) /\ \A w : Obj("dead", w) # Obj("transfer", u)
          /\ Obj("listen", w) # Obj("transfer", u)
    BY DEF Free, Obj
<1>d. Fd' = Fd
    BY DEF Fd
<1>c. ASSUME \A f \in Fd : fdtab'[f] = fdtab[f] \/ fdtab'[f] # Obj("transfer", u)
      PROVE  Connected(u)' => Connected(u)
    BY <1>c, <1>d DEF Connected
<1>1. CASE MainLoop
    <2>1. pc'[u] = pc[u]
        BY <1>1, <1>t DEF MainLoop, AcceptSession, CloseSession, CmdLog, Goto, threads,
                          TypeOK, BeforeAccept
    <2>2. ASSUME NEW c \in Client, AcceptSession(c)
          PROVE  \A f \in Fd : fdtab'[f] = fdtab[f] \/ fdtab'[f] # Obj("transfer", u)
        BY <2>2, <1>t, <1>o, OpenedSlots DEF AcceptSession
    <2>3. ASSUME NEW fd \in Fd, CloseSession(fd)
          PROVE  \A f \in Fd : fdtab'[f] = fdtab[f] \/ fdtab'[f] # Obj("transfer", u)
        BY <2>3, <1>t, <1>f, ClosedSlots DEF CloseSession
    <2>4. ASSUME NEW t \in Thread, NEW fd \in Fd, CmdLog(t, fd)
          PROVE  \A f \in Fd : fdtab'[f] = fdtab[f] \/ fdtab'[f] # Obj("transfer", u)
        BY <2>4 DEF CmdLog, tables
    <2> QED
        BY <1>1, <1>p, <1>c, <2>1, <2>2, <2>3, <2>4 DEF MainLoop
<1>2. ASSUME NEW t \in Thread, Accept(t)
      PROVE  pc'[u] \notin BeforeAccept /\ (Connected(u)' => Connected(u))
    <2>1. pc[t] = "accept" /\ t # u
        BY <1>2 DEF Accept, BeforeAccept
    <2>2. pc'[u] = pc[u]
        BY <1>2, <1>t, <2>1 DEF Accept, Goto, TypeOK
    <2>3. Obj("transfer", t) \in Slot /\ Obj("transfer", t) # Obj("transfer", u)
        BY <2>1 DEF Obj, Slot
    <2>4. \A f \in Fd : fdtab'[f] = fdtab[f] \/ fdtab'[f] # Obj("transfer", u)
        BY <1>2, <1>t, <2>3, OpenedSlots DEF Accept
    <2> QED
        BY <1>p, <1>c, <2>2, <2>4
<1>3. ASSUME NEW t \in Thread, ThreadStep(t), ~Accept(t)
      PROVE  pc'[u] \notin BeforeAccept /\ (Connected(u)' => Connected(u))
    <2>1. pc'[u] \notin BeforeAccept
        BY <1>3, <1>t, <1>p DEF ThreadStep, Socket, Bind, Listen, WriteSetup, ZipOpen, ZipClose,
              Begin, OpenLog, Data, Terminate, CloseTransfer, ClosePassive, Goto, GotoWritten,
              TypeOK, BeforeAccept
    <2>2. CASE Socket(t) \/ ZipOpen(t) \/ Begin(t) \/ OpenLog(t)
        <3>1. \A f \in Fd : fdtab'[f] = fdtab[f] \/ fdtab'[f] # Obj("transfer", u)
            BY <2>2, <1>t, <1>o, OpenedSlots DEF Socket, ZipOpen, Begin, OpenLog, tables
        <3> QED
            BY <2>1, <3>1, <1>c
    <2>3. CASE Bind(t) \/ WriteSetup(t) \/ Data(t) \/ Terminate(t)
        <3>1. \A f \in Fd : fdtab'[f] = fdtab[f] \/ fdtab'[f] # Obj("transfer", u)
            BY <2>3 DEF Bind, WriteSetup, Data, Terminate, tables
        <3> QED
            BY <2>1, <3>1, <1>c
    <2>4. CASE Listen(t) \/ ZipClose(t)
        <3>1. \A f \in Fd : fdtab'[f] = fdtab[f] \/ fdtab'[f] # Obj("transfer", u)
            BY <2>4, <1>t, <1>f DEF Listen, ZipClose, tables
        <3> QED
            BY <2>1, <3>1, <1>c
    <2>5. CASE CloseTransfer(t) \/ ClosePassive(t)
        <3>1. \A f \in Fd : fdtab'[f] = fdtab[f] \/ fdtab'[f] # Obj("transfer", u)
            BY <2>5, <1>t, <1>f, ClosedSlots DEF CloseTransfer, ClosePassive
        <3> QED
            BY <2>1, <3>1, <1>c
    <2> QED
        BY <1>3, <2>2, <2>3, <2>4, <2>5 DEF ThreadStep
<1>4. ASSUME UNCHANGED <<tables, threads>>
      PROVE  pc'[u] \notin BeforeAccept /\ (Connected(u)' => Connected(u))
    BY <1>4, <1>p, <1>c DEF tables, threads
<1>5. ASSUME NEW r \in Thread, ReceiverStep(r) \/ ClientDies(r)
      PROVE  UNCHANGED <<tables, threads>>
    BY <1>5 DEF ReceiverStep, ClientDies, Connect, OpenFile, RecvBegin, RecvData,
                RecvFin, RecvFails, Received
<1>6. CASE ServerDies
    <2>1. \A f \in Fd : fdtab'[f] = fdtab[f] \/ fdtab'[f] # Obj("transfer", u)
        BY <1>6, <1>f DEF ServerDies
    <2>2. pc'[u] = "exit"
        BY <1>6 DEF ServerDies
    <2> QED
        BY <1>p, <1>c, <2>1, <2>2
<1>7. CASE UNCHANGED vars
    BY <1>4, <1>7 DEF vars
<1> QED
    BY <1>1, <1>2, <1>3, <1>4, <1>5, <1>6, <1>7 DEF Next, ThreadStep

\* The packets, blocks and hashes keep their types.
LEMMA DataTypesKept ==
    ASSUME TransferAssumption, PortInv, DataTypes, \A t \in Thread : Sending(t),
           [Next]_vars
    PROVE  DataTypes'
<1>t. Block' = Block /\ FtPackets' = FtPackets /\ TypeOK /\ <<>> \in Seq(Block)
    BY DEF Block, FtPackets, PortInv
<1>1. ASSUME UNCHANGED <<zipfile, rcv_file, chan, last, server_hash, my_hash>>
      PROVE  DataTypes'
    BY <1>1 DEF DataTypes, Block, FtPackets
<1>2. ASSUME NEW t \in Thread, NEW p \in FtPackets, NEW fd,
             chan' = Sent(fd, p), UNCHANGED <<zipfile, receivers>>
      PROVE  DataTypes'
    <2>1. chan' \in [Thread -> Seq(FtPackets)]
        BY <1>2 DEF Sent, DataTypes
    <2> QED
        BY <1>2, <2>1 DEF DataTypes, receivers, Block, FtPackets
<1>3. CASE MainLoop
    <2>1. UNCHANGED <<zipfile, rcv_file, chan, last, server_hash, my_hash>>
        BY <1>3 DEF MainLoop, AcceptSession, CloseSession, CmdLog, tables, network, receivers
    <2> QED
        BY <2>1, <1>1
<1>4. ASSUME NEW t \in Thread, ThreadStep(t) PROVE DataTypes'
    <2>1. CASE \/ Socket(t) \/ Bind(t) \/ Listen(t) \/ WriteSetup(t) \/ Accept(t)
               \/ OpenLog(t) \/ CloseTransfer(t) \/ ClosePassive(t)
        <3>1. UNCHANGED <<zipfile, rcv_file, chan, last, server_hash, my_hash>>
            BY <2>1 DEF Socket, Bind, Listen, WriteSetup, Accept, OpenLog, CloseTransfer,
                        ClosePassive, tables, network, receivers
        <3> QED
            BY <3>1, <1>1
    <2>2. CASE ZipOpen(t) \/ ZipClose(t)
        <3>1. zipfile' \in Seq(Block)
            BY <2>2, <1>t, ZippedBlocks DEF ZipOpen, ZipClose, tables, DataTypes
        <3>2. UNCHANGED <<rcv_file, chan, last, server_hash, my_hash>>
            BY <2>2 DEF ZipOpen, ZipClose, network, receivers
        <3> QED
            BY <3>1, <3>2, <1>t DEF DataTypes
    <2>3. CASE Begin(t)
        <3>1. zipfile = Zipped(t)
            BY <2>3 DEF Begin, Sending
        <3>2. FtBegin(zipfile) \in FtPackets
            BY <3>1, PacketTypes
        <3>3. UNCHANGED <<zipfile, receivers>>
            BY <2>3 DEF Begin
        <3>4. chan' = chan \/ chan' = Sent(fd_file_transfer[t], FtBegin(zipfile))
            BY <2>3 DEF Begin
        <3> QED
            BY <3>2, <3>3, <3>4, <1>1, <1>2 DEF receivers
    <2>4. CASE Data(t)
        <3>1. UNCHANGED <<zipfile, receivers>>
            BY <2>4 DEF Data, tables
        <3>2. CASE pos[t] >= Len(zipfile)
            BY <2>4, <3>1, <3>2, <1>1 DEF Data, receivers
        <3>3. CASE ~(pos[t] >= Len(zipfile))
            <4>1. pos[t] \in Nat /\ zipfile \in Seq(Block)
                BY <1>t DEF TypeOK, DataTypes
            <4>2. pos[t] + 1 \in 1 .. Len(zipfile)
                BY <3>3, <4>1
            <4>3. zipfile[pos[t] + 1] \in Block
                BY <4>1, <4>2
            <4>4. FtData(zipfile[pos[t] + 1]) \in FtPackets
                BY <4>3, PacketTypes
            <4>5. chan' = Sent(fd_file_transfer[t], FtData(zipfile[pos[t] + 1]))
                BY <2>4, <3>3 DEF Data
            <4> QED
                BY <3>1, <4>4, <4>5, <1>2
        <3> QED
            BY <3>2, <3>3
    <2>5. CASE Terminate(t)
        <3>1. FtFin \in FtPackets
            BY PacketTypes
        <3>2. UNCHANGED <<zipfile, receivers>> /\ chan' = Sent(fd_file_transfer[t], FtFin)
            BY <2>5 DEF Terminate, tables
        <3> QED
            BY <3>1, <3>2, <1>2
    <2> QED
        BY <1>4, <2>1, <2>2, <2>3, <2>4, <2>5 DEF ThreadStep
<1>5. ASSUME NEW r \in Thread, NEW p, Received(r, p)
      PROVE  /\ p \in FtPackets /\ p.hash \in Seq(Block)
             /\ chan' \in [Thread -> Seq(FtPackets)] /\ last' \in [Thread -> FtPackets]
             /\ zipfile' \in Seq(Block)
    <2>1. chan[r] \in Seq(FtPackets) /\ last[r] \in FtPackets
        BY DEF DataTypes
    <2>2. p \in FtPackets
        BY <1>5, <2>1 DEF Received
    <2>3. chan[r] # <<>> => Tail(chan[r]) \in Seq(FtPackets)
        BY <2>1
    <2>4. chan' = [chan EXCEPT ![r] = IF chan[r] = <<>> THEN chan[r] ELSE Tail(chan[r])]
        BY <1>5 DEF Received
    <2>5. chan' \in [Thread -> Seq(FtPackets)]
        BY <2>1, <2>3, <2>4 DEF DataTypes
    <2>6. last' \in [Thread -> FtPackets]
        BY <1>5, <2>2 DEF Received, DataTypes
    <2>7. p.hash \in Seq(Block)
        BY <2>2 DEF FtPackets
    <2> QED
        BY <1>5, <2>2, <2>5, <2>6, <2>7 DEF Received, tables, DataTypes
<1>6. ASSUME NEW r \in Thread, ReceiverStep(r) \/ ClientDies(r) PROVE DataTypes'
    <2>1. CASE Connect(r) \/ OpenFile(r) \/ RecvFails(r) \/ ClientDies(r)
        <3>1. UNCHANGED <<zipfile, rcv_file, chan, last, server_hash, my_hash>>
            BY <2>1 DEF Connect, OpenFile, RecvFails, ClientDies, tables, receivers
        <3> QED
            BY <3>1, <1>1
    <2>2. CASE RecvBegin(r)
        <3>1. PICK p : /\ Received(r, p)
                       /\ server_hash' = [server_hash EXCEPT ![r] = p.hash]
                       /\ my_hash' = [my_hash EXCEPT ![r] = <<>>]
                       /\ UNCHANGED rcv_file
            BY <2>2 DEF RecvBegin
        <3>2. server_hash' \in [Thread -> Seq(Block)] /\ my_hash' \in [Thread -> Seq(Block)]
            BY <3>1, <1>5, <1>t DEF DataTypes
        <3> QED
            BY <3>1, <3>2, <1>5, <1>t DEF DataTypes
    <2>3. CASE RecvData(r)
        <3>1. PICK p : /\ Received(r, p)
                       /\ rcv_file' = rcv_file \o p.hash
                       /\ my_hash' = [my_hash EXCEPT ![r] = my_hash[r] \o p.hash]
                       /\ UNCHANGED server_hash
            BY <2>3 DEF RecvData
        <3>2. p.hash \in Seq(Block) /\ rcv_file \in Seq(Block) /\ my_hash[r] \in Seq(Block)
            BY <3>1, <1>5 DEF DataTypes
        <3>3. rcv_file' \in Seq(Block) /\ my_hash' \in [Thread -> Seq(Block)]
            BY <3>1, <3>2 DEF DataTypes
        <3> QED
            BY <3>1, <3>3, <1>5, <1>t DEF DataTypes
    <2>4. CASE RecvFin(r)
        <3>1. PICK p : Received(r, p) /\ UNCHANGED <<server_hash, my_hash, rcv_file>>
            BY <2>4 DEF RecvFin
        <3> QED
            BY <3>1, <1>5, <1>t DEF DataTypes
    <2> QED
        BY <1>6, <2>1, <2>2, <2>3, <2>4 DEF ReceiverStep
<1>7. CASE ServerDies
    BY <1>7, <1>1 DEF ServerDies, network, receivers
<1>8. CASE UNCHANGED vars
    BY <1>8, <1>1 DEF vars, tables, network, receivers
<1> QED
    BY <1>3, <1>4, <1>6, <1>7, <1>8 DEF Next

\* Steps that change neither the file nor a verdict.
LEMMA FileStays ==
    ASSUME TransferAssumption, PortInv, [Next]_vars, FileOwned, FileKept,
           UNCHANGED <<rcv_file, rcv_owner, verdict>>,
           \A r \in Thread :
             /\ peer'[r] = peer[r] \/ rpc[r] = "setup"
             /\ last'[r] = last[r] \/ last'[r] # NoPacket
             /\ \/ rpc'[r] = rpc[r]
                \/ rpc[r] \notin {"recv", "done", "dead"} /\ rpc'[r] # "recv"
                \/ rpc[r] = "recv" /\ rpc'[r] \in {"done", "dead"}
    PROVE  FileOwned' /\ FileKept'
<1>1. FileOwned'
    BY DEF FileOwned
<1>0. /\ rcv_owner \in Thread => peer'[rcv_owner] = peer[rcv_owner]
      /\ \A r \in Thread : verdict[r] = "intact" => peer'[r] = peer[r]
    BY DEF FileOwned
<1>2. ASSUME rcv_owner \in Thread, HangsUp(peer[rcv_owner])
      PROVE  HangsUp(peer[rcv_owner])'
    BY <1>0, <1>2, HangsUpStays DEF HangsUp
<1>4. \A t : Zipped(t)' = Zipped(t)
    BY DEF Zipped
<1>5. rcv_owner \in Thread => FileFrom(peer[rcv_owner])' \/
          (verdict'[rcv_owner] = "none" /\ HangsUp(peer[rcv_owner])')
    <2>1. rcv_owner \in Thread /\ FileFrom(peer[rcv_owner]) => FileFrom(peer[rcv_owner])'
        BY <1>0 DEF FileFrom
    <2> QED
        BY <1>2, <2>1 DEF FileKept
<1>6. \A r \in Thread : verdict[r] = "intact" => rcv_file' = Zipped(peer'[r])
    BY <1>0 DEF FileKept
<1> QED
    BY <1>4, <1>5, <1>6, <1>1 DEF FileKept, Zipped

\* Each thread sends the file it has compressed: while it does, nobody else has
\* the port.
LEMMA SendingKept ==
    ASSUME TransferAssumption, PortInv, DataTypes, \A t \in Thread : Sending(t),
           [Next]_vars
    PROVE  \A u \in Thread : Sending(u)'
<1>t. TypeOK /\ Blocks \in Nat
    BY DEF PortInv, TransferAssumption
<1>n. BadFd \notin Fd
    BY DEF BadFd, Fd
<1>z. \A t : Zipped(t)' = Zipped(t)
    BY DEF Zipped
<1>0. ASSUME NEW u \in Thread, pc'[u] = pc[u], fd_file_transfer'[u] = fd_file_transfer[u],
             pos'[u] = pos[u],
             pc[u] \in {"begin", "open", "data"} => zipfile' = zipfile
      PROVE  Sending(u)'
    BY <1>0, <1>z DEF Sending, BeforeAccept, Fd
<1>1. CASE MainLoop
    <2>1. UNCHANGED <<zipfile, fd_file_transfer, pos>>
        BY <1>1 DEF MainLoop, AcceptSession, CloseSession, CmdLog, tables, threads
    <2>2. CASE UNCHANGED pc
        BY <2>1, <2>2, <1>0
    <2>3. ASSUME NEW t \in Thread, NEW fd \in Fd, CmdLog(t, fd) PROVE \A u \in Thread : Sending(u)'
        <3>1. pc[t] = "unborn" /\ pc' = [pc EXCEPT ![t] = "socket"]
            BY <2>3 DEF CmdLog, Goto
        <3>2. Sending(t)'
            BY <3>1, <2>1, <1>t, <1>z DEF Sending, BeforeAccept, TypeOK
        <3>3. \A u \in Thread \ {t} : Sending(u)'
            BY <3>1, <2>1, <1>0, <1>t DEF TypeOK
        <3> QED
            BY <3>2, <3>3
    <2> QED
        BY <1>1, <2>2, <2>3 DEF MainLoop, AcceptSession, CloseSession, threads
<1>2. ASSUME NEW t \in Thread, ThreadStep(t) PROVE \A u \in Thread : Sending(u)'
    <2>1. \A u \in Thread \ {t} : /\ pc'[u] = pc[u] /\ pos'[u] = pos[u]
                                  /\ fd_file_transfer'[u] = fd_file_transfer[u]
        BY <1>2, <1>t DEF ThreadStep, Socket, Bind, Listen, WriteSetup, Accept, ZipOpen,
              ZipClose, Begin, OpenLog, Data, Terminate, CloseTransfer, ClosePassive, Goto,
              GotoWritten, TypeOK
    <2>2. zipfile' # zipfile => pc[t] \in HasPort
        BY <1>2 DEF ThreadStep, Socket, Bind, Listen, WriteSetup, Accept, ZipOpen,
              ZipClose, Begin, OpenLog, Data, Terminate, CloseTransfer, ClosePassive, tables,
              HasPort
    <2>3. \A u \in Thread \ {t} : pc[u] \in {"begin", "open", "data"} => zipfile' = zipfile
        BY <2>2, PortHolder DEF HasPort
    <2>4. \A u \in Thread \ {t} : Sending(u)'
        BY <2>1, <2>3, <1>0
    <2>5. CASE Socket(t) \/ Bind(t) \/ Listen(t) \/ WriteSetup(t)
        <3>1. /\ pc[t] \in BeforeAccept
              /\ pc'[t] \in {"terminate", "bind", "listen", "setup", "accept"}
              /\ UNCHANGED pos
            BY <2>5, <1>t DEF Socket, Bind, Listen, WriteSetup, Goto, TypeOK, BeforeAccept
        <3> QED
            BY <3>1, <2>4 DEF Sending, BeforeAccept
    <2>6. CASE Accept(t)
        <3>1. /\ pc[t] = "accept" /\ UNCHANGED pos
              /\ \/ /\ pc'[t] = "zip_open" /\ NewFd # BadFd
                    /\ fd_file_transfer'[t] = NewFd
                 \/ pc'[t] = "terminate"
            BY <2>6, <1>t DEF Accept, Goto, TypeOK
        <3>2. Fd' = Fd
            BY DEF Fd
        <3> QED
            BY <3>1, <3>2, <2>4, NewFdFree DEF Sending, BeforeAccept
    <2>7. CASE ZipOpen(t) \/ ZipClose(t)
        <3>1. /\ pc[t] \in {"zip_open", "zip_close"} /\ UNCHANGED <<pos, fd_file_transfer>>
              /\ \/ pc'[t] \in {"zip_close", "terminate"}
                 \/ pc'[t] = "begin" /\ zipfile' = Zipped(t)
            BY <2>7, <1>t DEF ZipOpen, ZipClose, Goto, TypeOK
        <3>2. Fd' = Fd
            BY DEF Fd
        <3> QED
            BY <3>1, <3>2, <1>z, <2>4 DEF Sending, BeforeAccept
    <2>8. CASE Begin(t) \/ OpenLog(t)
        <3>1. /\ UNCHANGED <<zipfile, pos, fd_file_transfer>>
              /\ \/ pc[t] = "begin" /\ pc'[t] \in {"open", "terminate"}
                 \/ pc[t] = "open" /\ pc'[t] \in {"data", "terminate"}
            BY <2>8, <1>t DEF Begin, OpenLog, Goto, GotoWritten, TypeOK
        <3>2. Fd' = Fd
            BY DEF Fd
        <3> QED
            BY <3>1, <3>2, <1>z, <1>t, <2>4 DEF Sending, BeforeAccept
    <2>9. CASE Data(t)
        <3>1. /\ UNCHANGED <<zipfile, fd_file_transfer>> /\ pc[t] = "data"
              /\ \/ pc'[t] = "terminate"
                 \/ pc'[t] = "data" /\ ~(pos[t] >= Len(zipfile)) /\ pos'[t] = pos[t] + 1
            BY <2>9, <1>t DEF Data, tables, Goto, GotoWritten, TypeOK
        <3>2. Fd' = Fd
            BY DEF Fd
        <3>3. zipfile = Zipped(t) /\ Len(zipfile) = Blocks /\ pos[t] \in Nat
            BY <3>1, <1>t, ZippedBlocks DEF Sending, TypeOK
        <3>4. pc'[t] = "data" => pos'[t] <= Blocks
            BY <3>1, <3>3, <1>t
        <3> QED
            BY <3>1, <3>2, <3>4, <1>z, <2>4 DEF Sending, BeforeAccept
    <2>10. CASE Terminate(t) \/ CloseTransfer(t) \/ ClosePassive(t)
        <3>1. pc'[t] \in {"close", "close_passive", "exit"}
            BY <2>10, <1>t DEF Terminate, CloseTransfer, ClosePassive, Goto, TypeOK
        <3> QED
            BY <3>1, <2>4 DEF Sending, BeforeAccept
    <2> QED
        BY <1>2, <2>5, <2>6, <2>7, <2>8, <2>9, <2>10 DEF ThreadStep
<1>3. ASSUME NEW r \in Thread, ReceiverStep(r) \/ ClientDies(r)
      PROVE  \A u \in Thread : Sending(u)'
    <2>1. UNCHANGED <<tables, threads>>
        BY <1>3 DEF ReceiverStep, ClientDies, Connect, OpenFile, RecvBegin, RecvData,
                    RecvFin, RecvFails, Received
    <2> QED
        BY <2>1, <1>0 DEF tables, threads
<1>4. CASE ServerDies
    BY <1>4 DEF ServerDies, Sending, BeforeAccept
<1>5. CASE UNCHANGED vars
    BY <1>5, <1>0 DEF vars, tables, threads
<1> QED
    BY <1>1, <1>2, <1>3, <1>4, <1>5 DEF Next

\* A step that leaves r's variables and r's place in the queue alone, while the
\* thread at the other end sends nothing.
LEMMA ReaderStays ==
    ASSUME TransferAssumption, PortInv, [Next]_vars,
           NEW r \in Thread, Waiting(r), Reading(r),
           rpc'[r] = rpc[r], chan'[r] = chan[r], last'[r] = last[r], peer'[r] = peer[r],
           my_hash'[r] = my_hash[r], server_hash'[r] = server_hash[r],
           rcv_file' = rcv_file \/ rpc[r] # "recv",
           pc'[r] \in {"unborn", "socket", "bind", "listen", "setup"} =>
               pc[r] \in {"unborn", "socket", "bind", "listen", "setup"},
           Active(r) => (Queued(r)' <=> Queued(r)),
           Active(r) /\ ~Queued(r) =>
               /\ \A n : HasSent(peer[r], n) => HasSent(peer[r], n)'
               /\ pc[peer[r]] \in Ended => pc'[peer[r]] \in Ended
    PROVE  Waiting(r)' /\ Reading(r)'
<1>1. Active(r)' <=> Active(r)
    BY DEF Active
<1>2. Active(r) => (pc'[peer[r]] \in BeforeAccept => pc[peer[r]] \in BeforeAccept)
    BY HangsUpStays DEF Waiting
<1>3. Unread(r)' <=> Unread(r)
    BY DEF Unread
<1>4. Waiting(r)'
    BY <1>1, <1>2, <1>3 DEF Waiting, Untouched
<1>5. ASSUME Active(r), ~Queued(r), ReadsWell(r) PROVE ReadsWell(r)'
    <2>1. Taken(r)' = Taken(r) /\ Given(r)' = Given(r)
        BY <1>5 DEF Taken, Given, Active, Waiting, Unread
    <2>2. last[r] # NoPacket => rcv_file' = rcv_file
        BY <1>5 DEF Active, Waiting, Unread
    <2>3. Zipped(peer[r])' = Zipped(peer[r]) /\ peer'[r] = peer[r]
        BY DEF Zipped
    <2>5. last[r] # NoPacket => FileFrom(peer[r])'
        BY <2>2, <1>5 DEF FileFrom, ReadsWell
    <2>6. HasSent(peer[r], Given(r))'
        BY <1>5, <2>1 DEF ReadsWell, HasSent
    <2>7. last'[r] # NoPacket =>
              /\ my_hash'[r] = rcv_file' /\ server_hash'[r] = Zipped(peer[r])'
              /\ last'[r] = Packet(peer[r], Taken(r))'
        BY <1>5, <2>1, <2>2, <2>3 DEF ReadsWell, Packet, FtBegin, FtData
    <2>8. \A i \in 1 .. Len(chan'[r]) :
             \/ chan'[r][i] = Packet(peer'[r], Taken(r)' + i) /\ Taken(r)' + i <= Blocks + 1
             \/ i = Len(chan'[r]) /\ chan'[r][i] = FtFin /\ pc'[peer'[r]] \in Ended
        BY <1>5, <2>1, <2>3 DEF ReadsWell
    <2> QED
        BY <2>5, <2>6, <2>7, <2>8 DEF ReadsWell
<1>6. ASSUME Active(r), Repeats(r) PROVE Repeats(r)'
    BY <1>6, HangsUpStays DEF Repeats, HangsUp
<1>7. Reading(r)'
    BY <1>1, <1>5, <1>6 DEF Reading
<1> QED
    BY <1>4, <1>7

Starting == {"unborn", "socket", "bind", "listen", "setup"}

\* Steps that neither send nor receive.
LEMMA QuietSteps ==
    ASSUME TransferAssumption, PortInv, FileInv, [Next]_vars,
           UNCHANGED <<rpc, chan, peer, backlog, receivers>>,
           \A u \in Thread :
             /\ pc'[u] \in Starting => pc[u] \in Starting
             /\ pc[u] \notin BeforeAccept =>
                    /\ \A n : HasSent(u, n) => HasSent(u, n)'
                    /\ pc[u] \in Ended => pc'[u] \in Ended
    PROVE  (\A r \in Thread : Waiting(r)' /\ Reading(r)') /\ FileOwned' /\ FileKept'
<1>1. FileOwned' /\ FileKept'
    BY FileStays DEF FileInv, receivers
<1>2. ASSUME NEW r \in Thread PROVE Waiting(r)' /\ Reading(r)'
    <2>1. Waiting(r) /\ Reading(r)
        BY DEF FileInv
    <2>2. /\ rpc'[r] = rpc[r] /\ chan'[r] = chan[r] /\ last'[r] = last[r]
          /\ peer'[r] = peer[r] /\ my_hash'[r] = my_hash[r]
          /\ server_hash'[r] = server_hash[r] /\ rcv_file' = rcv_file
        BY DEF receivers
    <2>3. Queued(r)' <=> Queued(r)
        BY DEF Queued
    <2>4. Active(r) /\ ~Queued(r) => peer[r] \in Thread /\ pc[peer[r]] \notin BeforeAccept
        BY <2>1 DEF Waiting
    <2>5. pc'[r] \in {"unborn", "socket", "bind", "listen", "setup"} =>
               pc[r] \in {"unborn", "socket", "bind", "listen", "setup"}
        BY DEF Starting
    <2> QED
        BY <2>1, <2>2, <2>3, <2>4, <2>5, ReaderStays
<1> QED
    BY <1>1, <1>2

Reads ==
    (\A r \in Thread : Waiting(r) /\ Reading(r)) /\ FileOwned /\ FileKept

LEMMA MainLoopReads ==
    ASSUME TransferAssumption, PortInv, FileInv, Next, MainLoop
    PROVE  Reads'
<1>1. UNCHANGED <<rpc, chan, peer, backlog, receivers, pos>>
    BY DEF MainLoop, AcceptSession, CloseSession, CmdLog, tables, threads, network
<1>2. \A u \in Thread : pc'[u] = pc[u] \/ (pc[u] = "unborn" /\ pc'[u] = "socket")
    BY DEF MainLoop, AcceptSession, CloseSession, CmdLog, Goto, threads, PortInv, TypeOK
<1>3. \A u \in Thread :
             /\ pc'[u] \in Starting => pc[u] \in Starting
             /\ pc[u] \notin BeforeAccept =>
                    /\ \A n : HasSent(u, n) => HasSent(u, n)'
                    /\ pc[u] \in Ended => pc'[u] \in Ended
    BY <1>1, <1>2 DEF Starting, BeforeAccept, HasSent
<1> QED
    BY <1>1, <1>3, QuietSteps DEF Reads

LEMMA QuietThreadReads ==
    ASSUME TransferAssumption, PortInv, FileInv, Next, NEW t \in Thread,
           \/ Socket(t) \/ Bind(t) \/ Listen(t) \/ ZipOpen(t) \/ ZipClose(t)
           \/ OpenLog(t) \/ CloseTransfer(t) \/ ClosePassive(t)
    PROVE  Reads'
<1>t. TypeOK /\ Sending(t)
    BY DEF PortInv, FileInv
<1>1. UNCHANGED <<rpc, chan, peer, backlog, receivers, pos>>
    BY DEF Socket, Bind, Listen, ZipOpen, ZipClose, OpenLog, CloseTransfer, ClosePassive,
           network
<1>2. \A u \in Thread \ {t} : pc'[u] = pc[u]
    BY <1>t DEF Socket, Bind, Listen, ZipOpen, ZipClose, OpenLog, CloseTransfer, ClosePassive,
                Goto, TypeOK
<1>3. \/ pc[t] \in {"socket", "bind", "listen"}
      \/ pc[t] = "zip_open" /\ pc'[t] \in {"zip_close", "terminate"}
      \/ pc[t] = "zip_close" /\ pc'[t] \in {"begin", "terminate"}
      \/ pc[t] = "open" /\ pc'[t] \in {"data", "terminate"}
      \/ pc[t] = "close" /\ pc'[t] = "close_passive"
      \/ pc[t] = "close_passive" /\ pc'[t] = "exit"
    BY <1>t DEF Socket, Bind, Listen, ZipOpen, ZipClose, OpenLog, CloseTransfer, ClosePassive,
                Goto, TypeOK
<1>4. pc[t] = "open" => pos[t] = 0
    BY <1>t DEF Sending
<1>5. /\ pc'[t] \in Starting => pc[t] \in Starting
      /\ pc[t] \notin BeforeAccept =>
             /\ \A n : HasSent(t, n) => HasSent(t, n)'
             /\ pc[t] \in Ended => pc'[t] \in Ended
    BY <1>1, <1>3, <1>4 DEF Starting, BeforeAccept, HasSent, Ended
<1>6. ASSUME NEW u \in Thread \ {t}
      PROVE  /\ pc'[u] \in Starting => pc[u] \in Starting
             /\ \A n : HasSent(u, n) => HasSent(u, n)'
             /\ pc[u] \in Ended => pc'[u] \in Ended
    BY <1>1, <1>2 DEF HasSent
<1> QED
    BY <1>1, <1>5, <1>6, QuietSteps DEF Reads

LEMMA ServerDiesReads ==
    ASSUME TransferAssumption, PortInv, FileInv, Next, ServerDies
    PROVE  Reads'
<1>1. UNCHANGED <<rpc, chan, peer, backlog, receivers>> /\ \A u \in Thread : pc'[u] = "exit"
    BY DEF ServerDies, network
<1>2. \A u \in Thread :
             /\ pc'[u] \in Starting => pc[u] \in Starting
             /\ \A n : HasSent(u, n) => HasSent(u, n)'
             /\ pc[u] \in Ended => pc'[u] \in Ended
    BY <1>1 DEF Starting, HasSent, Ended
<1> QED
    BY <1>1, <1>2, QuietSteps DEF Reads

LEMMA StutterReads ==
    ASSUME TransferAssumption, PortInv, FileInv, UNCHANGED vars
    PROVE  Reads'
<1>1. UNCHANGED <<rpc, chan, peer, backlog, receivers, pc, pos>>
    BY DEF vars, threads, network
<1>2. \A u \in Thread :
             /\ pc'[u] \in Starting => pc[u] \in Starting
             /\ \A n : HasSent(u, n) => HasSent(u, n)'
             /\ pc[u] \in Ended => pc'[u] \in Ended
    BY <1>1 DEF HasSent
<1> QED
    BY <1>1, <1>2, QuietSteps DEF Reads

\* FT_SETUP makes a receiver; accept takes one that has been sent nothing.
LEMMA SetupReads ==
    ASSUME TransferAssumption, PortInv, FileInv, Next, NEW t \in Thread, WriteSetup(t)
    PROVE  Reads'
<1>t. TypeOK /\ Waiting(t)
    BY DEF PortInv, FileInv
<1>1. /\ UNCHANGED <<chan, peer, backlog, receivers, pos>>
      /\ pc[t] = "setup" /\ pc'[t] \in {"accept", "terminate"}
      /\ \A u \in Thread \ {t} : pc'[u] = pc[u] /\ rpc'[u] = rpc[u]
      /\ rpc'[t] \in {rpc[t], "setup"}
    BY <1>t DEF WriteSetup, Goto, TypeOK
<1>2. rpc[t] = "unborn" /\ Untouched(t)
    BY <1>1, <1>t DEF Waiting
<1>3. FileOwned' /\ FileKept'
    BY <1>1, <1>2, FileStays DEF FileInv, receivers
<1>4. Waiting(t)' /\ Reading(t)'
    BY <1>1, <1>2 DEF Waiting, Reading, Active, Untouched, Unread, receivers
<1>5. ASSUME NEW r \in Thread \ {t} PROVE Waiting(r)' /\ Reading(r)'
    <2>1. Waiting(r) /\ Reading(r)
        BY DEF FileInv
    <2>2. Queued(r)' <=> Queued(r)
        BY <1>1 DEF Queued
    <2>3. Active(r) /\ ~Queued(r) => peer[r] \in Thread \ {t}
        BY <2>1, <1>1 DEF Waiting, BeforeAccept
    <2>4. Active(r) /\ ~Queued(r) => /\ \A n : HasSent(peer[r], n) => HasSent(peer[r], n)'
                                     /\ pc[peer[r]] \in Ended => pc'[peer[r]] \in Ended
        BY <2>3, <1>1 DEF HasSent
    <2>5. /\ rpc'[r] = rpc[r] /\ chan'[r] = chan[r] /\ last'[r] = last[r]
          /\ peer'[r] = peer[r] /\ my_hash'[r] = my_hash[r] /\ pc'[r] = pc[r]
          /\ server_hash'[r] = server_hash[r] /\ rcv_file' = rcv_file
        BY <1>1 DEF receivers
    <2> QED
        BY <2>1, <2>2, <2>4, <2>5, ReaderStays
<1> QED
    BY <1>3, <1>4, <1>5 DEF Reads

LEMMA AcceptReads ==
    ASSUME TransferAssumption, PortInv, FileInv, Next, NEW t \in Thread, Accept(t)
    PROVE  Reads'
<1>t. TypeOK /\ Blocks \in Nat
    BY DEF PortInv, TransferAssumption
<1>1. /\ UNCHANGED <<rpc, chan, peer, receivers, pos>>
      /\ pc[t] = "accept" /\ pc'[t] \in {"zip_open", "terminate"}
      /\ \A u \in Thread \ {t} : pc'[u] = pc[u] /\ backlog'[u] = backlog[u]
    BY <1>t DEF Accept, Goto, TypeOK
<1>2. FileOwned' /\ FileKept'
    BY <1>1, FileStays DEF FileInv, receivers
<1>3. ASSUME NEW r \in Thread PROVE Waiting(r)' /\ Reading(r)'
    <2>1. Waiting(r) /\ Reading(r)
        BY DEF FileInv
    <2>2. /\ rpc'[r] = rpc[r] /\ chan'[r] = chan[r] /\ last'[r] = last[r]
          /\ peer'[r] = peer[r] /\ my_hash'[r] = my_hash[r]
          /\ server_hash'[r] = server_hash[r] /\ rcv_file' = rcv_file
          /\ pc'[r] \in {"unborn", "socket", "bind", "listen", "setup"} =>
                 pc[r] \in {"unborn", "socket", "bind", "listen", "setup"}
        BY <1>1 DEF receivers
    <2>3. CASE Active(r) => peer[r] # t
        <3>1. Active(r) => peer[r] \in Thread \ {t}
            BY <2>1, <2>3 DEF Waiting
        <3>2. Active(r) => (Queued(r)' <=> Queued(r))
            BY <3>1, <1>1 DEF Queued
        <3>3. Active(r) => /\ \A n : HasSent(peer[r], n) => HasSent(peer[r], n)'
                           /\ pc[peer[r]] \in Ended => pc'[peer[r]] \in Ended
            BY <3>1, <1>1 DEF HasSent
        <3> QED
            BY <2>1, <2>2, <3>2, <3>3, ReaderStays
    <2>4. CASE Active(r) /\ peer[r] = t
        <3>1. Untouched(r) /\ rpc[r] \notin {"unborn", "setup"}
            BY <2>1, <2>4, <1>1 DEF Waiting, BeforeAccept, Active
        <3>2. Untouched(r)' /\ pc'[t] \notin BeforeAccept /\ rpc'[r] \notin {"unborn", "setup"}
            BY <3>1, <2>2, <1>1 DEF Untouched, Unread, BeforeAccept
        <3>3. Waiting(r)'
            BY <2>1, <2>2, <2>4, <3>2 DEF Waiting, Untouched, Active
        <3>4. last'[r] = NoPacket /\ chan'[r] = <<>> /\ peer'[r] = t
            BY <3>2, <2>2, <2>4 DEF Untouched, Unread
        <3>5. Given(r)' = 0
            BY <3>4 DEF Given, Taken
        <3>6. HasSent(t, 0)'
            BY <1>1 DEF HasSent
        <3>7. HasSent(peer[r], Given(r))'
            BY <3>4, <3>5, <3>6 DEF HasSent
        <3>8. ReadsWell(r)'
            BY <3>4, <3>7 DEF ReadsWell
        <3> QED
            BY <3>3, <3>8 DEF Reading
    <2> QED
        BY <2>3, <2>4
<1> QED
    BY <1>2, <1>3 DEF Reads

\* One more packet in r's socket.
LEMMA AppendReads ==
    ASSUME TransferAssumption, NEW r \in Thread, NEW t \in Thread, peer[r] = t,
           ReadsWell(r), DataTypes, NEW p \in FtPackets,
           chan'[r] = Append(chan[r], p), peer'[r] = t,
           UNCHANGED receivers,
           pc[t] \notin Ended,
           \/ p = Packet(t, Given(r) + 1) /\ Given(r) + 1 <= Blocks + 1
           \/ p = FtFin /\ pc'[t] \in Ended,
           NEW n, n = Given(r) + 1, HasSent(t, n)'
    PROVE  ReadsWell(r)'
<1>1. chan[r] \in Seq(FtPackets) /\ Len(chan[r]) \in Nat /\ rcv_file \in Seq(Block)
    BY DEF DataTypes
<1>2. Taken(r) \in Nat
    BY <1>1 DEF Taken
<1>3. Taken(r)' = Taken(r) /\ Len(chan'[r]) = Len(chan[r]) + 1
    BY <1>1 DEF Taken, receivers
<1>4. Given(r)' = Given(r) + 1 /\ Given(r) = Taken(r) + Len(chan[r])
    BY <1>1, <1>2, <1>3 DEF Given
<1>5. HasSent(peer[r], Given(r))'
    BY <1>4 DEF HasSent
<1>6. last'[r] # NoPacket =>
          /\ my_hash'[r] = rcv_file' /\ server_hash'[r] = Zipped(peer[r])'
          /\ FileFrom(peer[r])' /\ last'[r] = Packet(peer[r], Taken(r))'
    BY <1>3 DEF ReadsWell, receivers, FileFrom, Packet, Zipped, FtBegin, FtData
<1>7. ASSUME NEW i \in 1 .. Len(chan'[r])
      PROVE  \/ chan'[r][i] = Packet(peer'[r], Taken(r)' + i) /\ Taken(r)' + i <= Blocks + 1
             \/ i = Len(chan'[r]) /\ chan'[r][i] = FtFin /\ pc'[peer'[r]] \in Ended
    <2>1. CASE i \in 1 .. Len(chan[r])
        <3>1. chan'[r][i] = chan[r][i]
            BY <2>1, <1>1
        <3> QED
            BY <2>1, <3>1, <1>3 DEF ReadsWell
    <2>2. CASE i = Len(chan[r]) + 1
        <3>1. chan'[r][i] = p
            BY <2>2, <1>1
        <3>2. Taken(r)' + i = Given(r) + 1
            BY <2>2, <1>1, <1>2, <1>3, <1>4
        <3> QED
            BY <2>2, <3>1, <3>2, <1>3
    <2> QED
        BY <2>1, <2>2, <1>1, <1>3
<1> QED
    BY <1>5, <1>6, <1>7 DEF ReadsWell

\* Thread t sends packet p, unless its connection is gone.
LEMMA SendReads ==
    ASSUME TransferAssumption, PortInv, FileInv, Next, NEW t \in Thread,
           pc[t] \in MayTransfer, pc[t] \notin Ended, pc'[t] \notin Starting,
           \A u \in Thread \ {t} : pc'[u] = pc[u] /\ pos'[u] = pos[u],
           UNCHANGED <<rpc, peer, backlog, receivers>>,
           NEW p \in FtPackets, chan' = Sent(fd_file_transfer[t], p),
           \A r \in Reader(t) : HasSent(t, Given(r)) =>
               \/ p = Packet(t, Given(r) + 1) /\ Given(r) + 1 <= Blocks + 1
               \/ p = FtFin /\ pc'[t] \in Ended,
           fd_file_transfer[t] \in Fd /\ Reader(t) # {} =>
               \A n : HasSent(t, n) => HasSent(t, n + 1)',
           fd_file_transfer[t] \notin Fd => \A n : HasSent(t, n) => HasSent(t, n)'
    PROVE  Reads'
<1>1. FileOwned' /\ FileKept'
    BY FileStays DEF FileInv, receivers
<1>s. \A r \in Thread : chan'[r] = IF fd_file_transfer[t] \in Fd /\ r \in Reader(t)
                                   THEN Append(chan[r], p) ELSE chan[r]
    <2>1. chan' = [r \in Thread |-> IF fd_file_transfer[t] \in Fd /\ r \in Reader(t)
                                    THEN Append(chan[r], p) ELSE chan[r]]
        BY SentChannels
    <2> QED
        BY <2>1
<1>2. ASSUME NEW r \in Thread PROVE Waiting(r)' /\ Reading(r)'
    <2>1. Waiting(r) /\ Reading(r) /\ DataTypes
        BY DEF FileInv
    <2>2. /\ rpc'[r] = rpc[r] /\ last'[r] = last[r] /\ peer'[r] = peer[r]
          /\ my_hash'[r] = my_hash[r] /\ server_hash'[r] = server_hash[r]
          /\ rcv_file' = rcv_file
          /\ pc'[r] \in {"unborn", "socket", "bind", "listen", "setup"} =>
                 pc[r] \in {"unborn", "socket", "bind", "listen", "setup"}
        BY DEF receivers, Starting
    <2>3. Queued(r)' <=> Queued(r)
        BY DEF Queued
    <2>5. CASE r \notin Reader(t)
        <3>1. chan'[r] = chan[r]
            BY <2>5, <1>s
        <3>2. Active(r) /\ ~Queued(r) => peer[r] \in Thread \ {t}
            BY <2>1, <2>5, ReadersAre DEF Waiting
        <3>3. Active(r) /\ ~Queued(r) =>
                  /\ \A n : HasSent(peer[r], n) => HasSent(peer[r], n)'
                  /\ pc[peer[r]] \in Ended => pc'[peer[r]] \in Ended
            BY <3>2 DEF HasSent
        <3> QED
            BY <2>1, <2>2, <2>3, <3>1, <3>3, ReaderStays
    <2>6. CASE r \in Reader(t) /\ fd_file_transfer[t] \notin Fd
        <3>1. peer[r] = t /\ chan'[r] = chan[r]
            BY <2>6, <1>s, ReadersAre
        <3>2. /\ \A n : HasSent(peer[r], n) => HasSent(peer[r], n)'
              /\ pc[peer[r]] \in Ended => pc'[peer[r]] \in Ended
            BY <2>6, <3>1 DEF HasSent
        <3> QED
            BY <2>1, <2>2, <2>3, <3>1, <3>2, ReaderStays
    <2>7. CASE r \in Reader(t) /\ fd_file_transfer[t] \in Fd
        <3>1. peer[r] = t /\ Active(r) /\ ~Queued(r) /\ Connected(t)
            BY <2>7, ReadersAre, SentChannels
        <3>2. chan'[r] = Append(chan[r], p)
            BY <2>7, <1>s
        <3>3. ReadsWell(r)
            BY <2>1, <3>1 DEF Reading, Repeats, HangsUp
        <3>4. HasSent(t, Given(r))
            BY <3>1, <3>3 DEF ReadsWell
        <3>5. \A n : n = Given(r) + 1 => HasSent(t, n)'
            <4>1. \A n : HasSent(t, n) => HasSent(t, n + 1)'
                BY <2>7
            <4>2. \A m : m = Given(r) => HasSent(t, m + 1)'
                BY <3>4, <4>1 DEF HasSent
            <4> QED
                BY <4>2 DEF HasSent
        <3>6. \/ p = Packet(t, Given(r) + 1) /\ Given(r) + 1 <= Blocks + 1
              \/ p = FtFin /\ pc'[t] \in Ended
            BY <2>7, <3>4
        <3>7. PICK n : n = Given(r) + 1
            OBVIOUS
        <3>8. ReadsWell(r)'
            BY <2>1, <2>2, <3>1, <3>2, <3>3, <3>5, <3>6, <3>7, AppendReads
        <3>9. pc[t] \notin BeforeAccept /\ pc'[t] \notin BeforeAccept
            BY <3>1, HangsUpStays DEF MayTransfer, BeforeAccept
        <3>10. Waiting(r)'
            BY <2>1, <2>2, <2>3, <3>1, <3>9 DEF Waiting, Active, Unread
        <3> QED
            BY <3>8, <3>10 DEF Reading
    <2> QED
        BY <2>5, <2>6, <2>7
<1> QED
    BY <1>1, <1>2 DEF Reads

LEMMA ThreadSends ==
    ASSUME TransferAssumption, PortInv, FileInv, Next, NEW t \in Thread,
           Begin(t) \/ Data(t) \/ Terminate(t)
    PROVE  Reads'
<1>t. TypeOK /\ Sending(t) /\ DataTypes /\ Blocks \in Nat /\ pos[t] \in Nat
    BY DEF PortInv, FileInv, TransferAssumption, TypeOK
<1>1. /\ UNCHANGED <<rpc, peer, backlog, receivers>>
      /\ \A u \in Thread \ {t} : pc'[u] = pc[u] /\ pos'[u] = pos[u]
      /\ pc[t] \in {"begin", "data", "terminate"}
      /\ pc'[t] \in {"open", "data", "terminate", "close"}
    BY <1>t DEF Begin, Data, Terminate, Goto, GotoWritten, TypeOK
<1>2. /\ pc[t] \in MayTransfer /\ pc[t] \notin Ended /\ pc'[t] \notin Starting
      /\ \A u \in Thread : pc'[u] \in Starting => pc[u] \in Starting
    BY <1>1 DEF MayTransfer, Ended, Starting
<1>3. CASE chan' = chan /\ pc'[t] = "terminate"
    <2>1. \A u \in Thread :
             /\ \A n : HasSent(u, n) => HasSent(u, n)'
             /\ pc[u] \in Ended => pc'[u] \in Ended
        BY <1>1, <1>2, <1>3 DEF HasSent
    <2> QED
        BY <1>1, <1>2, <1>3, <2>1, QuietSteps DEF Reads
<1>4. CASE Begin(t) /\ ~(chan' = chan /\ pc'[t] = "terminate")
    <2>1. /\ pc[t] = "begin" /\ zipfile = Zipped(t) /\ fd_file_transfer[t] \in Fd
          /\ pos[t] = 0
        BY <1>4, <1>t DEF Begin, Sending
    <2>2. /\ chan' = Sent(fd_file_transfer[t], FtBegin(Zipped(t)))
          /\ pc'[t] = "open" \/ (Reader(t) = {} /\ pc'[t] = "terminate")
        BY <1>4, <1>t, <2>1 DEF Begin, Goto, GotoWritten, TypeOK
    <2>3. FtBegin(Zipped(t)) = Packet(t, 1) /\ FtBegin(Zipped(t)) \in FtPackets
        BY PacketTypes DEF Packet
    <2>4. \A n : HasSent(t, n) => n = 0
        BY <2>1 DEF HasSent
    <2>5. \A r \in Reader(t) : HasSent(t, Given(r)) =>
              FtBegin(Zipped(t)) = Packet(t, Given(r) + 1) /\ Given(r) + 1 <= Blocks + 1
        BY <1>t, <2>3, <2>4
    <2>6. Reader(t) # {} => \A n : HasSent(t, n) => HasSent(t, n + 1)'
        BY <2>2, <2>4 DEF HasSent
    <2> QED
        BY <1>1, <1>2, <2>1, <2>2, <2>3, <2>5, <2>6, SendReads
<1>5. CASE Data(t) /\ ~(chan' = chan /\ pc'[t] = "terminate")
    <2>1. /\ pc[t] = "data" /\ zipfile = Zipped(t) /\ fd_file_transfer[t] \in Fd
        BY <1>5, <1>t DEF Data, Sending
    <2>2. /\ ~(pos[t] >= Len(zipfile))
          /\ chan' = Sent(fd_file_transfer[t], FtData(zipfile[pos[t] + 1]))
          /\ pos'[t] = pos[t] + 1
          /\ pc'[t] = "data" \/ (Reader(t) = {} /\ pc'[t] = "terminate")
        BY <1>5, <1>t, <2>1 DEF Data, Goto, GotoWritten, TypeOK
    <2>3. pos[t] + 1 \in 1 .. Blocks
        BY <1>t, <2>1, <2>2, ZippedBlocks
    <2>4. zipfile[pos[t] + 1] = <<t, pos[t] + 1>> /\ <<t, pos[t] + 1>> \in Block
        BY <2>1, <2>3, ZippedBlocks
    <2>5. /\ FtData(zipfile[pos[t] + 1]) = Packet(t, pos[t] + 2)
          /\ FtData(zipfile[pos[t] + 1]) \in FtPackets
        BY <1>t, <2>4, PacketTypes DEF Packet
    <2>6. \A n : HasSent(t, n) => n = pos[t] + 1
        BY <2>1 DEF HasSent
    <2>7. \A r \in Reader(t) : HasSent(t, Given(r)) =>
              /\ FtData(zipfile[pos[t] + 1]) = Packet(t, Given(r) + 1)
              /\ Given(r) + 1 <= Blocks + 1
        BY <1>t, <2>3, <2>5, <2>6
    <2>8. Reader(t) # {} => \A n : HasSent(t, n) => HasSent(t, n + 1)'
        BY <1>t, <2>2, <2>6 DEF HasSent
    <2>9. \A r \in Reader(t) : HasSent(t, Given(r)) =>
              \/ /\ FtData(zipfile[pos[t] + 1]) = Packet(t, Given(r) + 1)
                 /\ Given(r) + 1 <= Blocks + 1
              \/ FtData(zipfile[pos[t] + 1]) = FtFin /\ pc'[t] \in Ended
        BY <2>7
    <2> QED
        BY <1>1, <1>2, <2>1, <2>2, <2>5, <2>8, <2>9, SendReads
<1>6. CASE Terminate(t)
    <2>1. chan' = Sent(fd_file_transfer[t], FtFin) /\ pc'[t] = "close"
        BY <1>6, <1>t DEF Terminate, Goto, TypeOK
    <2>2. FtFin \in FtPackets /\ pc'[t] \in Ended
        BY <2>1, PacketTypes DEF Ended
    <2>3. \A n : HasSent(t, n)'
        BY <2>1 DEF HasSent
    <2> QED
        BY <1>1, <1>2, <2>1, <2>2, <2>3, SendReads
<1> QED
    BY <1>3, <1>4, <1>5, <1>6

-----------------------------------------------------------------------------
(* The receivers.                                                          *)

\* The others' variables stay, and only the owner of the file writes to it.
LEMMA OthersRead ==
    ASSUME TransferAssumption, PortInv, FileInv, Next, NEW r \in Thread,
           UNCHANGED <<tables, threads>>,
           rcv_file' = rcv_file \/ rpc[r] = "recv",
           \A s \in Thread \ {r} :
             /\ rpc'[s] = rpc[s] /\ chan'[s] = chan[s] /\ last'[s] = last[s]
             /\ peer'[s] = peer[s] /\ my_hash'[s] = my_hash[s]
             /\ server_hash'[s] = server_hash[s]
             /\ Active(s) => (Queued(s)' <=> Queued(s))
    PROVE  \A s \in Thread \ {r} : Waiting(s)' /\ Reading(s)'
<1> SUFFICES ASSUME NEW s \in Thread \ {r} PROVE Waiting(s)' /\ Reading(s)'
    OBVIOUS
<1>1. Waiting(s) /\ Reading(s)
    BY DEF FileInv
<1>2. rcv_file' = rcv_file \/ rpc[s] # "recv"
    BY DEF FileInv, FileOwned
<1>3. UNCHANGED <<pc, pos>>
    BY DEF threads
<1>4. /\ \A n : HasSent(peer[s], n) => HasSent(peer[s], n)'
      /\ pc[peer[s]] \in Ended => pc'[peer[s]] \in Ended
    BY <1>3 DEF HasSent
<1> QED
    BY <1>1, <1>2, <1>3, <1>4, ReaderStays

LEMMA ConnectReads ==
    ASSUME TransferAssumption, PortInv, FileInv, Next, NEW r \in Thread, Connect(r)
    PROVE  Reads'
<1>t. TypeOK /\ Waiting(r)
    BY DEF PortInv, FileInv
<1>1. /\ UNCHANGED <<tables, threads, chan, receivers>> /\ rpc[r] = "setup"
      /\ \A s \in Thread \ {r} : rpc'[s] = rpc[s] /\ peer'[s] = peer[s]
      /\ \/ rpc'[r] = "done" /\ UNCHANGED <<peer, backlog>>
         \/ \E t \in Thread : /\ rpc'[r] = "connected" /\ peer'[r] = t
                              /\ backlog' = [backlog EXCEPT ![t] = Append(backlog[t], r)]
    BY <1>t DEF Connect, TypeOK
<1>2. Untouched(r) /\ pc'[r] \notin Starting
    BY <1>1, <1>t DEF Waiting, Starting, threads
<1>3. FileOwned' /\ FileKept'
    BY <1>1, FileStays DEF FileInv, receivers
<1>4. ASSUME NEW t \in Thread, backlog' = [backlog EXCEPT ![t] = Append(backlog[t], r)]
      PROVE  /\ \A u \in Thread : \A s \in Thread \ {r} :
                    s \in ToSet(backlog'[u]) <=> s \in ToSet(backlog[u])
             /\ r \in ToSet(backlog'[t])
    <2>1. backlog[t] \in Seq(Thread)
        BY <1>t DEF TypeOK
    <2>2. backlog'[t] = Append(backlog[t], r) /\ \A u \in Thread \ {t} : backlog'[u] = backlog[u]
        BY <1>t, <1>4 DEF TypeOK
    <2>3. ToSet(Append(backlog[t], r)) = ToSet(backlog[t]) \cup {r}
        BY <2>1 DEF ToSet
    <2> QED
        BY <2>2, <2>3
<1>5. ASSUME NEW s \in Thread \ {r}, Active(s) PROVE Queued(s)' <=> Queued(s)
    <2>1. peer[s] \in Thread /\ peer'[s] = peer[s]
        BY <1>1, <1>5 DEF FileInv, Waiting
    <2> QED
        BY <1>1, <1>4, <2>1 DEF Queued
<1>6. \A s \in Thread \ {r} : Waiting(s)' /\ Reading(s)'
    BY <1>1, <1>5, OthersRead DEF receivers
<1>7. Active(r)' => peer'[r] \in Thread /\ Queued(r)'
    BY <1>1, <1>4 DEF Active, Queued
<1>8. Untouched(r)'
    BY <1>1, <1>2 DEF Untouched, Unread, receivers
<1>9. Waiting(r)' /\ Reading(r)'
    BY <1>1, <1>2, <1>7, <1>8 DEF Waiting, Reading, Untouched, Starting
<1> QED
    BY <1>3, <1>6, <1>9 DEF Reads

LEMMA OpenFileReads ==
    ASSUME TransferAssumption, PortInv, FileInv, Next, NEW r \in Thread, OpenFile(r)
    PROVE  Reads'
<1>t. /\ TypeOK /\ Waiting(r) /\ Reading(r) /\ FileOwned /\ FileKept
      /\ Nobody \notin Thread /\ Blocks \in Nat
    BY DEF PortInv, FileInv, TransferAssumption
<1>1. /\ UNCHANGED <<tables, threads, backlog, peer, chan, last, server_hash, my_hash,
                     rcv_file, verdict>>
      /\ rpc[r] = "connected" /\ \A s \in Thread \ {r} : rpc'[s] = rpc[s]
      /\ \/ rcv_owner = Nobody /\ rcv_owner' = r /\ rpc'[r] = "recv"
         \/ UNCHANGED rcv_owner /\ rpc'[r] = "done"
    BY <1>t DEF OpenFile, TypeOK
<1>2. \A s \in Thread \ {r} : Waiting(s)' /\ Reading(s)'
    BY <1>1, OthersRead DEF Queued
<1>3. Waiting(r)'
    BY <1>1, <1>t DEF Waiting, Active, Untouched, Unread, Queued, threads
<1>4. Reading(r)'
    <2>1. ~Queued(r) => ReadsWell(r)
        BY <1>1, <1>t DEF Reading, Active
    <2>2. UNCHANGED <<pc, pos>>
        BY <1>1 DEF threads
    <2>3. ReadsWell(r) => ReadsWell(r)'
        BY <1>1, <2>2 DEF ReadsWell, Given, Taken, FileFrom, Packet, Zipped, FtBegin, FtData,
                          HasSent
    <2>4. Queued(r)' <=> Queued(r)
        BY <1>1 DEF Queued
    <2> QED
        BY <2>1, <2>3, <2>4 DEF Reading
<1>5. CASE UNCHANGED rcv_owner
    <2>1. FileOwned' /\ FileKept'
        BY <1>1, <1>5, <1>t, FileStays DEF TypeOK, FileOwned
    <2> QED
        BY <1>2, <1>3, <1>4, <2>1 DEF Reads
<1>6. CASE rcv_owner = Nobody /\ rcv_owner' = r /\ rpc'[r] = "recv"
    <2>1. rcv_file = <<>> /\ \A s \in Thread : verdict[s] = "none" /\ rpc[s] # "recv"
        BY <1>6, <1>t DEF FileOwned
    <2>2. FileOwned'
        BY <1>1, <1>6, <1>t, <2>1 DEF FileOwned
    <2>3. FileFrom(peer[r])'
        BY <1>1, <1>t, <2>1 DEF FileFrom
    <2>4. FileKept'
        BY <1>1, <1>6, <2>1, <2>3 DEF FileKept
    <2> QED
        BY <1>2, <1>3, <1>4, <2>2, <2>4 DEF Reads
<1> QED
    BY <1>1, <1>5, <1>6

LEMMA ReceiverLeaves ==
    ASSUME TransferAssumption, PortInv, FileInv, Next, NEW r \in Thread,
           RecvFails(r) \/ ClientDies(r)
    PROVE  Reads'
<1>t. TypeOK /\ Waiting(r)
    BY DEF PortInv, FileInv
<1>1. /\ UNCHANGED <<tables, threads, backlog, peer, chan, receivers>>
      /\ rpc[r] \in {"setup", "connected", "recv"} /\ rpc'[r] \in {"done", "dead"}
      /\ \A s \in Thread \ {r} : rpc'[s] = rpc[s]
    BY <1>t DEF RecvFails, ClientDies, TypeOK
<1>2. \A s \in Thread \ {r} : Waiting(s)' /\ Reading(s)'
    BY <1>1, OthersRead DEF Queued, receivers
<1>3. Waiting(r)' /\ Reading(r)'
    BY <1>1, <1>t DEF Waiting, Reading, Active, threads
<1>4. FileOwned' /\ FileKept'
    BY <1>1, FileStays DEF FileInv, receivers
<1> QED
    BY <1>2, <1>3, <1>4 DEF Reads

\* What recv returns: the next packet of the transfer, or the last one again when
\* the connection is over.
LEMMA Reception ==
    ASSUME TransferAssumption, PortInv, FileInv, NEW r \in Thread, NEW p, Received(r, p)
    PROVE  /\ rpc[r] = "recv" /\ rcv_owner = r /\ peer[r] \in Thread /\ ~Queued(r)
           /\ pc[peer[r]] \notin BeforeAccept /\ Taken(r) \in Nat
           /\ last' = [last EXCEPT ![r] = p]
           /\ \/ /\ ReadsWell(r) /\ chan[r] # <<>>
                 /\ chan' = [chan EXCEPT ![r] = Tail(chan[r])]
                 /\ \/ p = Packet(peer[r], Taken(r) + 1) /\ Taken(r) + 1 <= Blocks + 1
                    \/ p = FtFin
              \/ /\ chan[r] = <<>> /\ chan' = chan /\ p = last[r] /\ HangsUp(peer[r])
                 /\ \/ ReadsWell(r) /\ last[r] = NoPacket
                    \/ /\ ReadsWell(r) /\ Taken(r) # 0
                       /\ last[r] = Packet(peer[r], Taken(r))
                    \/ Repeats(r)
<1>1. /\ rpc[r] = "recv" /\ rcv_owner = r /\ Waiting(r) /\ Reading(r) /\ Active(r)
      /\ DataTypes
    BY DEF Received, FileInv, FileOwned, Active
<1>2. peer[r] \in Thread
    BY <1>1 DEF Waiting
<1>3. ~Queued(r)
    BY <1>1 DEF Waiting, Untouched, Received, Queued
<1>4. pc[peer[r]] \notin BeforeAccept
    BY <1>1, <1>3 DEF Waiting
<1>5. ReadsWell(r) \/ Repeats(r)
    BY <1>1, <1>3 DEF Reading
<1>6. /\ Taken(r) \in Nat /\ (last[r] # NoPacket => Taken(r) # 0)
      /\ chan[r] \in Seq(FtPackets)
    BY <1>1 DEF Taken, DataTypes
<1>7. last' = [last EXCEPT ![r] = p]
    BY DEF Received
<1>8. CASE chan[r] # <<>>
    <2>1. ReadsWell(r) /\ p = Head(chan[r]) /\ chan' = [chan EXCEPT ![r] = Tail(chan[r])]
        BY <1>5, <1>8 DEF Received, Repeats
    <2>2. p = chan[r][1] /\ 1 \in 1 .. Len(chan[r])
        BY <1>6, <1>8, <2>1
    <2>3. \/ p = Packet(peer[r], Taken(r) + 1) /\ Taken(r) + 1 <= Blocks + 1
          \/ p = FtFin
        BY <2>1, <2>2 DEF ReadsWell
    <2> QED
        BY <1>1, <1>2, <1>3, <1>4, <1>6, <1>7, <1>8, <2>1, <2>3
<1>9. CASE chan[r] = <<>>
    <2>1. p = last[r] /\ ~Connected(peer[r])
        BY <1>9 DEF Received
    <2>2. chan' = chan
        BY <1>1, <1>9 DEF Received, DataTypes
    <2>3. HangsUp(peer[r])
        BY <1>2, <1>4, <2>1 DEF HangsUp
    <2>4. ReadsWell(r) /\ last[r] # NoPacket => last[r] = Packet(peer[r], Taken(r))
        BY DEF ReadsWell
    <2> QED
        BY <1>1, <1>2, <1>3, <1>4, <1>5, <1>6, <1>7, <1>9, <2>1, <2>2, <2>3, <2>4
<1> QED
    BY <1>8, <1>9

\* The packets behind the one that was read, or behind the one read again.
LEMMA TailReads ==
    ASSUME TransferAssumption, PortInv, FileInv, Next, NEW r \in Thread, NEW p, Received(r, p),
           ReadsWell(r), rpc'[r] = "recv",
           \/ chan[r] # <<>> /\ Taken(r)' = Taken(r) + 1
           \/ chan[r] = <<>> /\ Taken(r)' = Taken(r),
           last'[r] # NoPacket => /\ my_hash'[r] = rcv_file'
                                  /\ server_hash'[r] = Zipped(peer[r])
                                  /\ FileFrom(peer[r])'
                                  /\ last'[r] = Packet(peer[r], Taken(r)')
    PROVE  Waiting(r)' /\ Reading(r)'
<1>t. /\ DataTypes /\ Waiting(r) /\ UNCHANGED <<tables, threads, backlog, peer>>
      /\ chan[r] \in Seq(FtPackets)
    BY DEF FileInv, Received, DataTypes
<1>1. /\ rpc[r] = "recv" /\ ~Queued(r) /\ Taken(r) \in Nat /\ peer[r] \in Thread
    BY Reception
<1>2. UNCHANGED <<pc, pos>> /\ ~Queued(r)'
    BY <1>1, <1>t DEF threads, Queued
<1>3. Waiting(r)'
    BY <1>1, <1>2, <1>t DEF Waiting, Active
<1>4. Given(r)' = Given(r)
    <2>1. CASE chan[r] # <<>>
        <3>1. chan'[r] = Tail(chan[r])
            BY <2>1, <1>t, Reception DEF DataTypes
        <3> QED
            BY <1>1, <1>t, <2>1, <3>1 DEF Given
    <2>2. CASE chan[r] = <<>>
        BY <2>2, Reception DEF Given
    <2> QED
        BY <2>1, <2>2
<1>5. HasSent(peer[r], Given(r))'
    BY <1>2, <1>4, <1>t DEF ReadsWell, HasSent
<1>6. \A i \in 1 .. Len(chan'[r]) :
         \/ chan'[r][i] = Packet(peer[r], Taken(r)' + i) /\ Taken(r)' + i <= Blocks + 1
         \/ i = Len(chan'[r]) /\ chan'[r][i] = FtFin /\ pc[peer[r]] \in Ended
    <2>1. CASE chan[r] # <<>>
        <3>1. chan'[r] = Tail(chan[r])
            BY <2>1, <1>t, Reception DEF DataTypes
        <3>2. /\ Len(chan'[r]) = Len(chan[r]) - 1 /\ Len(chan[r]) \in Nat
              /\ \A i \in 1 .. Len(chan'[r]) : chan'[r][i] = chan[r][i + 1]
            BY <1>t, <2>1, <3>1
        <3>3. ASSUME NEW i \in 1 .. Len(chan'[r])
              PROVE  /\ i + 1 \in 1 .. Len(chan[r])
                     /\ Taken(r) + (i + 1) = Taken(r)' + i
                     /\ i + 1 = Len(chan[r]) => i = Len(chan'[r])
            BY <1>1, <2>1, <3>2
        <3> QED
            BY <3>2, <3>3 DEF ReadsWell
    <2>2. CASE chan[r] = <<>>
        BY <2>2, <1>t, Reception
    <2> QED
        BY <2>1, <2>2
<1>7. \A i \in 1 .. Len(chan'[r]) :
         \/ chan'[r][i] = Packet(peer'[r], Taken(r)' + i) /\ Taken(r)' + i <= Blocks + 1
         \/ i = Len(chan'[r]) /\ chan'[r][i] = FtFin /\ pc'[peer'[r]] \in Ended
    BY <1>6, <1>t, <1>2
<1>8. last'[r] # NoPacket => /\ my_hash'[r] = rcv_file'
                             /\ server_hash'[r] = Zipped(peer'[r])
                             /\ FileFrom(peer[r])'
                             /\ last'[r] = Packet(peer'[r], Taken(r)')
    BY <1>t
<1>9. ReadsWell(r)'
    BY <1>5, <1>7, <1>8 DEF ReadsWell
<1> QED
    BY <1>3, <1>9 DEF Reading

LEMMA RecvOthers ==
    ASSUME TransferAssumption, PortInv, FileInv, Next, NEW r \in Thread, NEW p,
           Received(r, p),
           \A s \in Thread \ {r} : rpc'[s] = rpc[s] /\ my_hash'[s] = my_hash[s]
                                   /\ server_hash'[s] = server_hash[s]
    PROVE  \A s \in Thread \ {r} : Waiting(s)' /\ Reading(s)'
<1>1. /\ UNCHANGED <<tables, threads, backlog, peer>> /\ rpc[r] = "recv"
      /\ \A s \in Thread \ {r} : chan'[s] = chan[s] /\ last'[s] = last[s]
    BY DEF Received, FileInv, DataTypes
<1> QED
    BY <1>1, OthersRead DEF Queued

LEMMA RecvBeginReads ==
    ASSUME TransferAssumption, PortInv, FileInv, Next, NEW r \in Thread, RecvBegin(r)
    PROVE  Reads'
<1>1. PICK p : /\ p.mtype = "FT_BEGIN" /\ Received(r, p)
               /\ server_hash' = [server_hash EXCEPT ![r] = p.hash]
               /\ my_hash' = [my_hash EXCEPT ![r] = <<>>]
               /\ UNCHANGED <<rpc, rcv_file, verdict>>
    BY DEF RecvBegin
<1>t. /\ DataTypes /\ FileOwned /\ FileKept /\ UNCHANGED <<rcv_owner, peer>>
      /\ p # NoPacket /\ p # FtFin /\ rcv_file \in Seq(Block)
    BY <1>1, PacketParts DEF FileInv, Received, DataTypes
<1>r. /\ rpc[r] = "recv" /\ peer[r] \in Thread /\ Taken(r) \in Nat
      /\ last' = [last EXCEPT ![r] = p]
    BY <1>1, Reception
<1>2. ReadsWell(r) /\ rcv_file = <<>> /\ p = Packet(peer[r], 1)
          /\ \/ chan[r] # <<>> /\ Taken(r) = 0
             \/ chan[r] = <<>> /\ Taken(r) = 1
    <2>1. \/ ReadsWell(r) /\ chan[r] # <<>> /\ p = Packet(peer[r], Taken(r) + 1)
          \/ /\ ReadsWell(r) /\ chan[r] = <<>> /\ Taken(r) # 0 /\ p = last[r]
             /\ p = Packet(peer[r], Taken(r))
        BY <1>1, <1>t, Reception, PacketParts DEF Repeats
    <2>2. CASE ReadsWell(r) /\ chan[r] # <<>> /\ p = Packet(peer[r], Taken(r) + 1)
        <3>1. Taken(r) + 1 = 1
            BY <1>1, <1>r, <2>2, PacketKinds
        <3>2. Taken(r) = 0
            BY <1>r, <3>1
        <3>3. last[r] = NoPacket
            BY <1>t, <3>2 DEF Taken
        <3>4. rcv_file = <<>>
            BY <1>r, <1>t, <3>3 DEF FileOwned
        <3> QED
            BY <2>2, <3>1, <3>2, <3>4
    <2>3. CASE /\ ReadsWell(r) /\ chan[r] = <<>> /\ Taken(r) # 0 /\ p = last[r]
               /\ p = Packet(peer[r], Taken(r))
        <3>1. Taken(r) = 1
            BY <1>1, <1>r, <2>3, PacketKinds
        <3>2. Len(rcv_file) = 0
            BY <1>t, <2>3, <3>1 DEF Taken
        <3> QED
            BY <1>t, <2>3, <3>1, <3>2
    <2> QED
        BY <2>1, <2>2, <2>3
<1>3. last'[r] = p /\ my_hash'[r] = <<>> /\ server_hash'[r] = Zipped(peer[r])
    <2>1. p.hash = Zipped(peer[r])
        BY <1>2, <1>r, PacketKinds
    <2> QED
        BY <1>1, <1>r, <1>t, <2>1 DEF DataTypes
<1>4. Taken(r)' = 1
    BY <1>1, <1>2, <1>3, <1>t DEF Taken
<1>5. FileFrom(peer[r])'
    BY <1>1, <1>2, <1>t, TransferAssumption DEF FileFrom, TransferAssumption
<1>6. Waiting(r)' /\ Reading(r)'
    <2>1. \/ chan[r] # <<>> /\ Taken(r)' = Taken(r) + 1
          \/ chan[r] = <<>> /\ Taken(r)' = Taken(r)
        BY <1>2, <1>4
    <2>2. last'[r] # NoPacket => /\ my_hash'[r] = rcv_file'
                                 /\ server_hash'[r] = Zipped(peer[r])
                                 /\ FileFrom(peer[r])'
                                 /\ last'[r] = Packet(peer[r], Taken(r)')
        BY <1>1, <1>2, <1>3, <1>4, <1>5
    <2>3. rpc'[r] = "recv"
        BY <1>1, <1>r
    <2> QED
        BY <1>1, <1>2, <2>1, <2>2, <2>3, TailReads
<1>7. \A s \in Thread \ {r} : Waiting(s)' /\ Reading(s)'
    BY <1>1, <1>t, RecvOthers DEF DataTypes
<1>8. FileOwned' /\ FileKept'
    BY <1>1, <1>3, <1>r, <1>t, FileStays DEF DataTypes
<1> QED
    BY <1>6, <1>7, <1>8 DEF Reads

LEMMA RecvDataReads ==
    ASSUME TransferAssumption, PortInv, FileInv, Next, NEW r \in Thread, RecvData(r)
    PROVE  Reads'
<1>1. PICK p : /\ p.mtype = "FT_DATA" /\ Received(r, p)
               /\ rcv_file' = rcv_file \o p.hash
               /\ my_hash' = [my_hash EXCEPT ![r] = my_hash[r] \o p.hash]
               /\ UNCHANGED <<rpc, server_hash, verdict>>
    BY DEF RecvData
<1>t. /\ DataTypes /\ FileOwned /\ FileKept /\ UNCHANGED <<rcv_owner, peer, tables, threads>>
      /\ UNCHANGED backlog
      /\ p # NoPacket /\ p # FtFin /\ rcv_file \in Seq(Block) /\ Blocks \in Nat
    BY <1>1, PacketParts DEF FileInv, Received, DataTypes, TransferAssumption
<1>r. /\ rpc[r] = "recv" /\ rcv_owner = r /\ peer[r] \in Thread /\ Taken(r) \in Nat
      /\ last' = [last EXCEPT ![r] = p] /\ ~Queued(r) /\ pc[peer[r]] \notin BeforeAccept
    BY <1>1, Reception
<1>2. last'[r] = p
    BY <1>r, <1>t DEF DataTypes
<1>3. \A s \in Thread \ {r} : Waiting(s)' /\ Reading(s)'
    BY <1>1, <1>t, RecvOthers DEF DataTypes
<1>4. \A s \in Thread : verdict[s] = "none"
    BY <1>r, <1>t DEF FileOwned
<1>5. FileOwned'
    BY <1>1, <1>2, <1>r, <1>t, <1>4 DEF FileOwned, DataTypes
<1>6. \/ ReadsWell(r) /\ chan[r] # <<>> /\ p = Packet(peer[r], Taken(r) + 1)
          /\ Taken(r) + 1 <= Blocks + 1
      \/ chan[r] = <<>> /\ chan' = chan /\ HangsUp(peer[r])
    BY <1>1, <1>t, Reception
<1>7. CASE /\ ReadsWell(r) /\ chan[r] # <<>> /\ p = Packet(peer[r], Taken(r) + 1)
           /\ Taken(r) + 1 <= Blocks + 1
    <2>1. Taken(r) + 1 # 1
        BY <1>1, <1>7, <1>r, PacketKinds
    <2>2. last[r] # NoPacket /\ Taken(r) = Len(rcv_file) + 1
        BY <1>r, <2>1 DEF Taken
    <2>3. p.hash = << <<peer[r], Len(rcv_file) + 1>> >>
        <3>1. p.hash = << <<peer[r], Taken(r) + 1 - 1>> >>
            BY <1>7, <1>r, <2>1, PacketKinds
        <3> QED
            BY <1>r, <1>t, <2>2, <3>1
    <2>4. /\ my_hash[r] = rcv_file /\ server_hash[r] = Zipped(peer[r]) /\ FileFrom(peer[r])
        BY <1>7, <2>2 DEF ReadsWell
    <2>5. /\ rcv_file' = Append(rcv_file, <<peer[r], Len(rcv_file) + 1>>)
          /\ Len(rcv_file') = Len(rcv_file) + 1
          /\ \A i \in 1 .. Len(rcv_file) : rcv_file'[i] = rcv_file[i]
          /\ rcv_file'[Len(rcv_file) + 1] = <<peer[r], Len(rcv_file) + 1>>
        BY <1>1, <1>t, <2>3
    <2>6. FileFrom(peer[r])'
        <3>1. Len(rcv_file') <= Blocks
            BY <1>7, <1>t, <2>2, <2>5
        <3>2. \A i \in 1 .. Len(rcv_file') : rcv_file'[i] = <<peer[r], i>>
            BY <1>t, <2>4, <2>5 DEF FileFrom
        <3> QED
            BY <3>1, <3>2, <1>t DEF FileFrom
    <2>7. Taken(r)' = Taken(r) + 1
        BY <1>2, <1>t, <2>2, <2>5 DEF Taken
    <2>8. /\ my_hash'[r] = rcv_file' /\ server_hash'[r] = Zipped(peer[r])
          /\ last'[r] = Packet(peer[r], Taken(r)')
        BY <1>1, <1>2, <1>7, <1>t, <2>4, <2>7 DEF DataTypes
    <2>9. Waiting(r)' /\ Reading(r)'
        BY <1>1, <1>7, <1>r, <2>6, <2>7, <2>8, TailReads
    <2>10. FileKept'
        BY <1>1, <1>4, <1>r, <1>t, <2>6 DEF FileKept
    <2> QED
        BY <1>3, <1>5, <2>9, <2>10 DEF Reads
<1>8. CASE chan[r] = <<>> /\ chan' = chan /\ HangsUp(peer[r])
    <2>1. HangsUp(peer[r])'
        BY <1>8, <1>t, HangsUpStays DEF HangsUp
    <2>2. ~Queued(r)' /\ pc' = pc
        BY <1>r, <1>t DEF Queued, threads
    <2>3. Repeats(r)'
        BY <1>1, <1>2, <1>8, <2>1 DEF Repeats
    <2>4. Waiting(r)' /\ Reading(r)'
        BY <1>1, <1>r, <1>t, <2>2, <2>3 DEF Waiting, Reading, FileInv, Active
    <2>5. FileKept'
        BY <1>1, <1>4, <1>r, <1>t, <2>1 DEF FileKept
    <2> QED
        BY <1>3, <1>5, <2>4, <2>5 DEF Reads
<1> QED
    BY <1>6, <1>7, <1>8

LEMMA RecvFinReads ==
    ASSUME TransferAssumption, PortInv, FileInv, Next, NEW r \in Thread, RecvFin(r)
    PROVE  Reads'
<1>1. PICK p : /\ p.mtype = "FT_FIN" /\ Received(r, p)
               /\ verdict' = [verdict EXCEPT ![r] =
                      IF my_hash[r] = server_hash[r] /\ last[r].mtype # "none"
                      THEN "intact" ELSE "damaged"]
               /\ rpc' = [rpc EXCEPT ![r] = "done"]
               /\ UNCHANGED <<server_hash, my_hash, rcv_file>>
    BY DEF RecvFin
<1>t. /\ DataTypes /\ FileOwned /\ FileKept /\ Waiting(r) /\ TypeOK
      /\ UNCHANGED <<rcv_owner, peer, tables, threads>>
      /\ p # NoPacket /\ rcv_file \in Seq(Block) /\ Blocks \in Nat
    BY <1>1, PacketParts DEF FileInv, Received, DataTypes, TransferAssumption, PortInv
<1>r. /\ rpc[r] = "recv" /\ rcv_owner = r /\ peer[r] \in Thread /\ Taken(r) \in Nat
      /\ last' = [last EXCEPT ![r] = p]
    BY <1>1, Reception
<1>2. ReadsWell(r)
    <2>1. ASSUME last[r] = Packet(peer[r], Taken(r)), Taken(r) # 0, p = last[r] PROVE FALSE
        BY <1>1, <1>r, <2>1, PacketKinds
    <2>2. ASSUME last[r].mtype = "FT_DATA", p = last[r] PROVE FALSE
        BY <1>1, <2>2
    <2> QED
        BY <1>1, <2>1, <2>2, Reception DEF Repeats
<1>3. last[r] # NoPacket => rcv_file = my_hash[r] /\ server_hash[r] = Zipped(peer[r])
                            /\ FileFrom(peer[r])
    BY <1>2 DEF ReadsWell
<1>4. last[r] = NoPacket => rcv_file = <<>> /\ last[r].mtype = "none"
    BY <1>r, <1>t, PacketParts DEF FileOwned
<1>5. FileFrom(peer[r])
    BY <1>3, <1>4, <1>t DEF FileFrom
<1>6. /\ rpc'[r] = "done" /\ \A s \in Thread \ {r} : rpc'[s] = rpc[s]
      /\ \A s \in Thread \ {r} : verdict'[s] = verdict[s] /\ verdict[s] = "none"
      /\ verdict'[r] = "intact" => rcv_file = Zipped(peer[r])
      /\ last'[r] = p
    BY <1>1, <1>r, <1>t, <1>3, <1>4 DEF TypeOK, FileOwned, DataTypes
<1>7. \A s \in Thread \ {r} : Waiting(s)' /\ Reading(s)'
    BY <1>1, <1>6, <1>t, RecvOthers
<1>8. Waiting(r)' /\ Reading(r)'
    BY <1>6, <1>r, <1>t DEF Waiting, Reading, Active, threads
<1>9. FileOwned'
    BY <1>1, <1>6, <1>r, <1>t DEF FileOwned
<1>10. FileFrom(peer[r])'
    BY <1>1, <1>5, <1>t DEF FileFrom
<1>11. FileKept'
    BY <1>1, <1>6, <1>10, <1>r, <1>t DEF FileKept, Zipped
<1> QED
    BY <1>7, <1>8, <1>9, <1>11 DEF Reads

-----------------------------------------------------------------------------
(* The invariant about the file and what follows from it.                  *)

LEMMA FileInvInitially ==
    ASSUME TransferAssumption, Init
    PROVE  FileInv
<1>1. \A t \in Thread : NoPacket \in FtPackets
    BY PacketTypes
<1>2. <<>> \in Seq(Block) /\ <<>> \in Seq(FtPackets) /\ Nobody \notin Thread
    BY DEF TransferAssumption
<1>3. DataTypes
    BY <1>1, <1>2 DEF Init, DataTypes
<1>4. FileOwned /\ FileKept
    BY <1>2 DEF Init, FileOwned, FileKept
<1>5. \A r \in Thread : Waiting(r) /\ Reading(r)
    BY DEF Init, Waiting, Reading, Active, Untouched, Unread
<1>6. \A t \in Thread : Sending(t)
    BY DEF Init, Sending
<1> QED
    BY <1>3, <1>4, <1>5, <1>6 DEF FileInv

LEMMA FileInvKept ==
    ASSUME TransferAssumption, PortInv, FileInv, [Next]_vars
    PROVE  FileInv'
<1>1. DataTypes' /\ \A t \in Thread : Sending(t)'
    BY DataTypesKept, SendingKept DEF FileInv
<1>2. ASSUME Next PROVE Reads'
    <2>1. ASSUME NEW t \in Thread, ThreadStep(t) PROVE Reads'
        BY <1>2, <2>1, QuietThreadReads, SetupReads, AcceptReads, ThreadSends DEF ThreadStep
    <2>2. ASSUME NEW r \in Thread, ReceiverStep(r) \/ ClientDies(r) PROVE Reads'
        BY <1>2, <2>2, ConnectReads, OpenFileReads, RecvBeginReads, RecvDataReads,
           RecvFinReads, ReceiverLeaves DEF ReceiverStep
    <2> QED
        BY <1>2, <2>1, <2>2, MainLoopReads, ServerDiesReads DEF Next
<1>3. Reads'
    BY <1>2, StutterReads
<1> QED
    BY <1>1, <1>3 DEF FileInv, Reads

LEMMA FileInvHolds ==
    ASSUME Leftover \cap Fd = {}
    PROVE  Spec => []FileInv
<1>1. Init => FileInv
    BY FileInvInitially, TransferAssumption
<1>2. PortInv /\ FileInv /\ [Next]_vars => FileInv'
    BY FileInvKept, TransferAssumption
<1> QED
    BY <1>1, <1>2, PortInvHolds, PTL DEF Spec

\* A sequence that agrees with a longer one is a prefix of it.
LEMMA PrefixOf ==
    ASSUME NEW S, NEW T, NEW s \in Seq(S), NEW z \in Seq(T), Len(s) <= Len(z),
           \A i \in 1 .. Len(s) : s[i] = z[i]
    PROVE  IsPrefix(s, z)
<1> DEFINE n == Len(s)
<1>1. n \in Nat /\ Len(z) \in Nat /\ n <= Len(z)
    OBVIOUS
<1>2. s \in Seq(S \cup T) /\ z \in Seq(S \cup T)
    OBVIOUS
<1> HIDE DEF n
<1>3. \A i \in 1 .. n : i \in 1 .. Len(s) /\ i \in 1 .. Len(z) /\ s[i] = z[i]
    BY <1>1 DEF n
<1>4. SubSeq(s, 1, n) = [i \in 1 .. n |-> s[i]]
    BY <1>1, <1>2, <1>3
<1>5. SubSeq(z, 1, n) = [i \in 1 .. n |-> z[i]]
    BY <1>1, <1>2, <1>3
<1>6. SubSeq(s, 1, n) = SubSeq(z, 1, n)
    BY <1>3, <1>4, <1>5
<1> QED
    BY <1>1, <1>6 DEF IsPrefix, n

\* rcv_file.zip is the beginning of the file of the one transfer its receiver reads
\* from (cliente.c, recv_file), as long as that transfer goes on and whenever it
\* ended with FT_FIN: whichever thread accepts the receiver, whatever the others
\* send meanwhile and whoever dies, no block is lost, repeated or foreign.
THEOREM FileIsTheTransfer ==
    ASSUME Leftover \cap Fd = {}
    PROVE  Spec => []FileOfTransfer
<1>1. PortInv /\ FileInv => FileOfTransfer
    <2> SUFFICES ASSUME PortInv, FileInv, rcv_owner # Nobody,
                        Connected(peer[rcv_owner]) \/ verdict[rcv_owner] # "none"
                 PROVE  IsPrefix(rcv_file, Zipped(peer[rcv_owner]))
        BY DEF FileOfTransfer
    <2>1. rcv_owner \in Thread
        BY DEF PortInv, TypeOK
    <2>2. FileFrom(peer[rcv_owner])
        BY <2>1 DEF FileInv, FileKept, HangsUp
    <2>3. rcv_file \in Seq(Block) /\ Blocks \in Nat
        BY TransferAssumption DEF FileInv, DataTypes, TransferAssumption
    <2> DEFINE zip == Zipped(peer[rcv_owner])
    <2>p. peer[rcv_owner] \in Thread \cup {Nobody}
        BY <2>1 DEF PortInv, TypeOK
    <2> DEFINE Pairs == (Thread \cup {Nobody}) \X (1 .. Blocks)
    <2>4. zip \in Seq(Pairs) /\ Len(zip) = Blocks /\ Len(rcv_file) <= Len(zip)
        BY <2>2, <2>3, <2>p DEF FileFrom, Zipped
    <2>5. \A i \in 1 .. Len(rcv_file) : rcv_file[i] = zip[i]
        <3>1. \A i \in 1 .. Len(rcv_file) : i \in 1 .. Blocks /\ rcv_file[i] = <<peer[rcv_owner], i>>
            BY <2>2, <2>3 DEF FileFrom
        <3>2. \A i \in 1 .. Blocks : zip[i] = <<peer[rcv_owner], i>>
            BY DEF Zipped
        <3> QED
            BY <3>1, <3>2
    <2> HIDE DEF zip, Pairs
    <2>6. IsPrefix(rcv_file, zip)
        BY ONLY <2>3, <2>4, <2>5, PrefixOf
    <2> QED
        BY <2>6 DEF zip
<1> QED
    BY <1>1, PortInvHolds, FileInvHolds, PTL

\* A receiver says that the file arrived intact only over the whole file (cliente.c,
\* recv_file): a transfer that was cut short at any point, by a failure of the thread
\* or by the death of the server, never passes the comparison of the hashes.
THEOREM VerdictsRight ==
    ASSUME Leftover \cap Fd = {}
    PROVE  Spec => []VerdictRight
<1>1. PortInv /\ FileInv => VerdictRight
    BY DEF PortInv, FileInv, FileOwned, FileKept, VerdictRight
<1> QED
    BY <1>1, PortInvHolds, FileInvHolds, PTL
=============================================================================
