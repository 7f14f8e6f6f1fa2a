------------------------------- MODULE System -------------------------------
(***************************************************************************)
(* The Delivery Manager with its clients, its producers and its operator.  *)
(***************************************************************************)
EXTENDS Cliente, Productor, DeliveryManager

CONSTANTS
    MaxCmds,         \* bound on the operator's commands
    Commands,        \* kinds of commands the operator uses
    OperatorWaits    \* TRUE: the operator only names sessions of clients that
                     \* were not started to recover another session

ASSUME SystemAssumption ==
    /\ MaxCmds \in Nat
    /\ Commands \subseteq {"add", "delete", "log"}
    /\ OperatorWaits \in BOOLEAN

VARIABLE cmds    \* commands given so far

vars == <<ipc, cliente, productor, server, cmds>>

TypeOK ==
    /\ IpcTypeOK /\ ClienteTypeOK /\ ProductorTypeOK /\ ServerTypeOK
    /\ cmds \in Nat

Init ==
    /\ IpcInit /\ ClienteInit /\ ProductorInit /\ ServerInit
    /\ cmds = 0

\* t was issued to a client that recovers another session: t goes away with
\* the AUTH of that client.
Transient(t) == t \in DOMAIN owner /\ owner[t] \in Client /\ old[owner[t]] # 0

\* cli.c sends a command it could parse.  The operator finds the tokens in the
\* log of the server; 0 stands for one that was never issued.
Operator(type, t, r) ==
    /\ pc # "crashed"
    /\ cmds < MaxCmds /\ Len(fifo) < FifoCap
    /\ OperatorWaits => ~Transient(t)
    /\ fifo' = Append(fifo, [type |-> type, socket |-> t, productor |-> r])
    /\ cmds' = cmds + 1
    /\ UNCHANGED <<tcp, mq, now, cliente, productor, server>>

\* time_actual is read once per collection, so the clock stands still in it.
Tick ==
    /\ now < MaxTime
    /\ pc \notin {"gc_conn_loop", "gc_pkt_loop"}
    /\ now' = now + 1
    /\ UNCHANGED <<tcp, fifo, mq, cliente, productor, server, cmds>>

Clients ==
    \/ /\ pc # "crashed"
       /\ \E c \in Client, t \in PrintedTokens : Start(c, t)
       /\ UNCHANGED <<productor, server, cmds>>
    \/ /\ \E c \in Client : ClientStep(c) \/ Kill(c)
       /\ UNCHANGED <<productor, server, cmds>>

Producers ==
    /\ \E r \in Room : Stamp(r) \/ MqSend(r) \/ GiveUp(r)
    /\ UNCHANGED <<cliente, server, cmds>>

\* A producer the operator may name and that does not exist.
NoRoom == CHOOSE r \in 0 .. Cardinality(Room) : r \notin Room

Operators ==
    \E type \in Commands, t \in 0 .. Len(owner), r \in Room \cup {NoRoom} :
        Operator(type, t, r)

Server ==
    /\ ServerStep
    /\ UNCHANGED <<cliente, productor, cmds>>

Thread ==
    /\ FtSetup
    /\ UNCHANGED <<cliente, productor, cmds>>

Kernel ==
    /\ \E c \in Client : KernelReset(c)
    /\ UNCHANGED <<cliente, productor, server, cmds>>

Next == Clients \/ Producers \/ Operators \/ Server \/ Thread \/ Kernel \/ Tick

Spec == Init /\ [][Next]_vars

\* The server's loop runs on its own and never blocks: every epoll_wait has a
\* time limit and the queues are read without blocking.
FairSpec == Spec /\ WF_vars(Server)
=============================================================================
