------------------------------- MODULE PubSub -------------------------------
(***************************************************************************)
(* What the Delivery Manager promises about subscriptions, without         *)
(* descriptors, lists, events or packets: sessions are opened, subscribed  *)
(* to producers, handed over from one client to another with all their     *)
(* subscriptions, and closed.                                              *)
(***************************************************************************)
CONSTANTS Token, Client, Room

VARIABLES
    endpoint,   \* open session -> the client that holds it
    subs        \* pairs <<session, producer>>

Open(t, c) ==
    /\ t \notin DOMAIN endpoint
    /\ endpoint' = [u \in DOMAIN endpoint \cup {t} |->
                        IF u = t THEN c ELSE endpoint[u]]
    /\ UNCHANGED subs

Subscribe(t, r) ==
    /\ t \in DOMAIN endpoint /\ <<t, r>> \notin subs
    /\ subs' = subs \cup {<<t, r>>}
    /\ UNCHANGED endpoint

Unsubscribe(t, r) ==
    /\ <<t, r>> \in subs
    /\ subs' = subs \ {<<t, r>>}
    /\ UNCHANGED endpoint

SubsOf(t) == {s \in subs : s[1] = t}

Without(t) == [u \in DOMAIN endpoint \ {t} |-> endpoint[u]]

\* The client of session u, new and without subscriptions, takes over session
\* t; t keeps its subscriptions and u is no more.
Resume(t, u) ==
    /\ {t, u} \subseteq DOMAIN endpoint /\ t # u
    /\ SubsOf(u) = {}
    /\ endpoint' = [Without(u) EXCEPT ![t] = endpoint[u]]
    /\ UNCHANGED subs

\* The client of u asked for a session that is gone.
Reject(u) ==
    /\ u \in DOMAIN endpoint
    /\ SubsOf(u) = {}
    /\ endpoint' = Without(u)
    /\ UNCHANGED subs

\* A silent session is closed.  It is never one without subscriptions: its
\* client has nothing to answer.
Expire(t) ==
    /\ t \in DOMAIN endpoint
    /\ SubsOf(t) # {}
    /\ endpoint' = Without(t)
    /\ subs' = subs \ SubsOf(t)

Init == endpoint = <<>> /\ subs = {}

Next ==
    \/ \E t \in Token, c \in Client : Open(t, c)
    \/ \E t \in Token, r \in Room : Subscribe(t, r) \/ Unsubscribe(t, r)
    \/ \E t, u \in Token : Resume(t, u)
    \/ \E t \in Token : Reject(t) \/ Expire(t)

Spec == Init /\ [][Next]_<<endpoint, subs>>
=============================================================================
