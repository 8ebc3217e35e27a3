------------------------- MODULE ExclusiveConsumer -------------------------
(***************************************************************************)
(* What a broker worker of candi-plugin promises about the jobs it runs,   *)
(* whatever broker it consumes from.  A pod (one running instance of the   *)
(* service) holds a message while its handlers may be running.  Two jobs   *)
(* never run side by side when they conflict: the same pod and the same    *)
(* topic, or two pods and one event of the shared locker.  The broker is   *)
(* told that a message is done only if somebody has worked on it.          *)
(***************************************************************************)
EXTENDS FiniteSets

CONSTANTS
    Pods,      \* the instances of the service
    Msgs,      \* the messages of the broker
    TopicOf,   \* the topic of each message
    KeyOf      \* the lock keys of each message: none, or its event

VARIABLES
    holding,   \* pairs <<p, m>>: p is working on m
    begun,     \* messages whose handlers were started
    handled,   \* messages whose handlers returned
    acked      \* messages the broker will not deliver again

vars == <<holding, begun, handled, acked>>

Conflict(p, m, q, n) ==
    \/ p = q /\ TopicOf[m] = TopicOf[n]
    \/ KeyOf[m] \cap KeyOf[n] # {}

\* Somebody worked on m: its handlers returned, or those of a message with
\* the same event were started (m was then skipped as a duplicate).
Worked(m) ==
    \/ m \in handled
    \/ \E n \in begun : KeyOf[m] \cap KeyOf[n] # {}

Init ==
    /\ holding = {}
    /\ begun = {}
    /\ handled = {}
    /\ acked = {}

Take(p, m) ==
    /\ \A h \in holding : ~ Conflict(p, m, h[1], h[2])
    /\ holding' = holding \cup {<<p, m>>}
    /\ begun' = begun \cup {m}
    /\ UNCHANGED <<handled, acked>>

Finish(p, m) ==
    /\ <<p, m>> \in holding
    /\ handled' = handled \cup {m}
    /\ UNCHANGED <<holding, begun, acked>>

\* Acknowledgements are cumulative: one may settle several messages.
Settle(p, m) ==
    /\ <<p, m>> \in holding
    /\ \E S \in SUBSET {n \in Msgs : Worked(n)} : acked' = acked \cup S
    /\ UNCHANGED <<holding, begun, handled>>

Release(p, m) ==
    /\ <<p, m>> \in holding
    /\ holding' = holding \ {<<p, m>>}
    /\ UNCHANGED <<begun, handled, acked>>

\* The process of p ends, and its jobs with it.
Die(p) ==
    /\ holding' = {h \in holding : h[1] # p}
    /\ UNCHANGED <<begun, handled, acked>>

Next ==
    \/ \E p \in Pods, m \in Msgs :
          Take(p, m) \/ Finish(p, m) \/ Settle(p, m) \/ Release(p, m)
    \/ \E p \in Pods : Die(p)

Spec == Init /\ [][Next]_vars
=============================================================================
