----------------------------- MODULE Productor -----------------------------
(***************************************************************************)
(* The three producers (productores/src): each reads the clock, gathers    *)
(* its data and only then sends both through the message queue.  The data  *)
(* of a message is abstracted to its sequence number in its producer.      *)
(***************************************************************************)
EXTENDS Ipc

CONSTANT MaxMsgs    \* bound on the messages of one producer
ASSUME ProductorAssumption == MaxMsgs \in Nat

VARIABLES
    msg,      \* the message a producer is filling in: its timestamp, or -1
    count     \* messages a producer has begun

productor == <<msg, count>>

ProductorTypeOK ==
    /\ msg \in [Room -> Nat \cup {-1}]
    /\ count \in [Room -> Nat]

ProductorInit ==
    /\ msg = [r \in Room |-> -1]
    /\ count = [r \in Room |-> 0]

\* sleep, memset, time(&msg.timestamp); the data is read after this.
Stamp(r) ==
    /\ msg[r] = -1 /\ count[r] < MaxMsgs
    /\ msg' = [msg EXCEPT ![r] = now]
    /\ count' = [count EXCEPT ![r] = @ + 1]
    /\ UNCHANGED ipc

\* mq_send on a blocking descriptor: it waits while the queue is full.
MqSend(r) ==
    /\ msg[r] # -1
    /\ Len(mq) < QUEUE_MAXMSG
    /\ mq' = Append(mq, [id |-> r, timestamp |-> msg[r], n |-> count[r]])
    /\ msg' = [msg EXCEPT ![r] = -1]
    /\ UNCHANGED <<tcp, fifo, now, count>>

\* The data cannot be read (get_free_mem, get_sys_load) and the producer
\* starts over without sending.
GiveUp(r) ==
    /\ msg[r] # -1
    /\ msg' = [msg EXCEPT ![r] = -1]
    /\ UNCHANGED <<ipc, count>>
=============================================================================
