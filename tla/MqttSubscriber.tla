--------------------------- MODULE MqttSubscriber ---------------------------
(***************************************************************************)
(* The MQTT subscriber (mqtt-broker/subscriber.go) on the connection its   *)
(* broker opened (broker.go) and shares with its publisher (publisher.go). *)
(* The router of MqttRouter is a part of it: the constructor mounts the    *)
(* patterns, processMessage asks match.                                    *)
(*                                                                         *)
(* External, modelled from how the code uses them: the MQTT broker, which  *)
(* may deliver a copy per overlapping subscription, and the paho client.   *)
(* The client calls the callbacks one after the other, one call per        *)
(* subscription that fits, and acknowledges when a callback has returned,  *)
(* unless its option AutoAckDisabled is set.  A message no subscription of *)
(* this process fits is dropped without an acknowledgement.                *)
(***************************************************************************)
EXTENDS Naturals, Sequences, FiniteSets

CONSTANTS
    Tokens, Names, Plus, Hash, Empty, Param, None, Patterns, Topics, MaxRoutes,  \* of the router
    Msgs,          \* published messages
    TopicOf,       \* the topic of each message
    AutoACK,       \* WorkerHandler.AutoACK of each pattern
    Publishing,    \* messages whose handler publishes with the broker's publisher
    PubAck,        \* the answer to such a publication
    ClientBuffer,  \* messages the client takes in while a callback runs
    Options,       \* client options considered: <<cleanSession, autoAckDisabled>>
    MaxFaults      \* bound: lost connections

ASSUME MqttSubscriberAssumption ==
    /\ IsFiniteSet(Patterns)
    /\ IsFiniteSet(Msgs) /\ None \notin Msgs /\ PubAck \notin Msgs
    /\ TopicOf \in [Msgs -> Topics] /\ AutoACK \in [Patterns -> BOOLEAN]
    /\ Publishing \subseteq Msgs /\ ClientBuffer \in Nat /\ MaxFaults \in Nat
    /\ Options \subseteq BOOLEAN \X BOOLEAN

VARIABLES
    nodes, paramName, handler, mounted, panicked,  \* of the router
    cleanSession,     \* client option: the broker forgets the session
    autoAckDisabled,  \* client option
    serve,      \* where the constructor and Serve are
    tried,      \* patterns Serve has called Subscribe for
    routes,     \* those the client has registered processMessage for
    conn,       \* the connection is up
    subs,       \* subscriptions in the broker's session
    stored,     \* messages the session holds
    sent,       \* those sent on this connection and not acknowledged
    inbox,      \* what the client has still to read
    cur,        \* the message of the running callback
    left,       \* callbacks still to return for it, the running one included
    at,         \* where processMessage is
    wg,         \* counter of the WaitGroup
    cancelled,  \* the root context was cancelled
    stop,       \* where Shutdown is
    past,       \* history: handlers started after the cancellation
    handled,    \* history: messages whose handlers ended
    acked,      \* messages acknowledged
    early,      \* history: messages dropped before Serve had subscribed
    faults      \* lost connections so far

routerVars  == <<nodes, paramName, handler, mounted, panicked>>
optionVars  == <<cleanSession, autoAckDisabled>>
serveVars   == <<serve, tried, routes>>
sessionVars == <<subs, stored, sent>>
callVars    == <<cur, left, at>>
stopVars    == <<cancelled, stop>>
histories   == <<past, handled, early>>
vars == <<routerVars, optionVars, serveVars, conn, sessionVars, inbox, callVars, wg,
          stopVars, histories, acked, faults>>

Router == INSTANCE MqttRouter

StopOver == {"returned", "panicked"}

Selected(m) == Router!match(TopicOf[m])

\* What Serve subscribes to for each pattern, and which of them a message is delivered for.
Filters == [p \in Patterns |-> Router!Filter(p)]
Fitting(patterns, m) == {f \in {Filters[p] : p \in patterns} : Router!Fits(f, TopicOf[m])}

TypeOK ==
    /\ <<cleanSession, autoAckDisabled>> \in Options
    /\ serve \in {"mount", "subscribe", "waiting", "returned", "ended"}
    /\ routes \subseteq tried /\ tried \subseteq mounted
    /\ conn \in BOOLEAN
    /\ subs \subseteq Patterns /\ sent \subseteq stored /\ stored \subseteq Msgs
    /\ inbox \in Seq(Msgs \cup {PubAck})
    /\ cur \in Msgs \cup {None} /\ left \in 0..Cardinality(Patterns)
    /\ at \in {"idle", "check", "add", "handle", "token", "finish", "return"}
    /\ wg \in 0..1
    /\ cancelled \in BOOLEAN
    /\ stop \in {"idle", "waiting", "asleep", "woken", "waited", "cancelled", "met",
                "returned", "panicked"}
    /\ past \in Nat /\ handled \subseteq Msgs /\ acked \subseteq Msgs /\ early \subseteq Msgs
    /\ faults \in 0..MaxFaults

\* NewMQTTBroker has connected before the constructor of the worker runs.  A session
\* that is kept may hold the subscriptions of an earlier process.
Init ==
    /\ Router!Init
    /\ \E o \in Options : cleanSession = o[1] /\ autoAckDisabled = o[2]
    /\ serve = "mount" /\ tried = {} /\ routes = {}
    /\ conn = TRUE
    /\ subs \in {{}} \cup {Patterns : k \in {cleanSession} \ {TRUE}}
    /\ stored = {} /\ sent = {} /\ inbox = <<>>
    /\ cur = None /\ left = 0 /\ at = "idle"
    /\ wg = 0
    /\ cancelled = FALSE /\ stop = "idle"
    /\ past = 0 /\ handled = {} /\ acked = {} /\ early = {}
    /\ faults = 0

-----------------------------------------------------------------------------
(* The broker and the connection *)

\* The session keeps what fits one of its subscriptions.
Publish(m) ==
    /\ m \notin stored \cup acked /\ Fitting(subs, m) # {}
    /\ stored' = stored \cup {m}
    /\ UNCHANGED <<routerVars, optionVars, serveVars, conn, subs, sent, inbox,
                   callVars, wg, stopVars, histories, acked, faults>>

\* One copy, or one per subscription.
Send(m) ==
    /\ conn /\ m \in stored \ sent
    /\ sent' = sent \cup {m}
    /\ \E n \in {1, Cardinality(Fitting(subs, m))} \ {0} :
          inbox' = inbox \o [i \in 1..n |-> m]
    /\ UNCHANGED <<routerVars, optionVars, serveVars, conn, subs, stored, callVars, wg,
                   stopVars, histories, acked, faults>>

\* What was sent and not acknowledged will be sent again.
Lose ==
    /\ conn /\ stop \notin StopOver /\ faults < MaxFaults
    /\ faults' = faults + 1
    /\ conn' = FALSE
    /\ inbox' = <<>> /\ sent' = {}
    /\ IF cleanSession THEN subs' = {} /\ stored' = {}
       ELSE UNCHANGED <<subs, stored>>
    /\ UNCHANGED <<routerVars, optionVars, serveVars, callVars, wg, stopVars,
                   histories, acked>>

\* The client reconnects and repeats a publication.  onConnect, which would subscribe
\* again, is registered nowhere.
Reconnect ==
    /\ ~ conn /\ stop \notin StopOver
    /\ conn' = TRUE
    /\ inbox' = IF at = "token" THEN <<PubAck>> ELSE <<>>
    /\ UNCHANGED <<routerVars, optionVars, serveVars, sessionVars, callVars, wg,
                   stopVars, histories, acked, faults>>

\* An acknowledgement reaches the broker on the connection the message came from.
Settle(m) ==
    IF m \in sent THEN /\ acked' = acked \cup {m}
                       /\ stored' = stored \ {m} /\ sent' = sent \ {m}
    ELSE UNCHANGED <<acked, stored, sent>>

-----------------------------------------------------------------------------
(* NewMQTTSubscriber and Serve *)

Mount ==
    /\ serve = "mount"
    /\ Router!Next
    /\ UNCHANGED <<optionVars, serveVars, conn, sessionVars, inbox, callVars, wg,
                   stopVars, histories, acked, faults>>

Serve ==
    /\ serve = "mount" /\ ~ panicked
    /\ serve' = "subscribe"
    /\ UNCHANGED <<routerVars, optionVars, tried, routes, conn, sessionVars, inbox,
                   callVars, wg, stopVars, histories, acked, faults>>

\* Variant: the callback is left to a default handler that nobody sets.
SubscribeNoCallback(p) ==
    /\ serve = "subscribe" /\ p \in mounted \ tried
    /\ tried' = tried \cup {p}
    /\ subs' = IF conn THEN subs \cup {p} ELSE subs
    /\ UNCHANGED <<routerVars, optionVars, serve, routes, conn, stored, sent, inbox,
                   callVars, wg, stopVars, histories, acked, faults>>

\* The token of Subscribe is ignored: without a connection it fails and nothing tells.
Subscribe(p) ==
    /\ serve = "subscribe" /\ p \in mounted \ tried
    /\ tried' = tried \cup {p}
    /\ IF conn THEN routes' = routes \cup {p} /\ subs' = subs \cup {p}
       ELSE UNCHANGED <<routes, subs>>
    /\ UNCHANGED <<routerVars, optionVars, serve, conn, stored, sent, inbox, callVars,
                   wg, stopVars, histories, acked, faults>>

Subscribed ==
    /\ serve = "subscribe" /\ tried = mounted
    /\ serve' = "waiting"
    /\ UNCHANGED <<routerVars, optionVars, tried, routes, conn, sessionVars, inbox,
                   callVars, wg, stopVars, histories, acked, faults>>

-----------------------------------------------------------------------------
(* processMessage, called by the client *)

Receive ==
    /\ at = "idle" /\ inbox # <<>> /\ Head(inbox) \in Msgs
    /\ inbox' = Tail(inbox)
    /\ LET m == Head(inbox)
           n == Cardinality(Fitting(routes, m))
       IN  IF n > 0 THEN /\ cur' = m /\ left' = n /\ at' = "check"
                         /\ UNCHANGED early
           ELSE /\ early' = IF tried = mounted /\ serve # "mount" THEN early
                            ELSE early \cup {m}
                /\ UNCHANGED callVars
    /\ UNCHANGED <<routerVars, optionVars, serveVars, conn, sessionVars, wg, stopVars,
                   past, handled, acked, faults>>

Goto(from, to) == at = from /\ at' = to /\ UNCHANGED <<cur, left>>

\* Variant: the context is not looked at.
CheckBlind ==
    /\ Goto("check", "add")
    /\ UNCHANGED <<routerVars, optionVars, serveVars, conn, sessionVars, inbox, wg,
                   stopVars, histories, acked, faults>>

Check ==
    /\ Goto("check", IF cancelled THEN "return" ELSE "add")
    /\ UNCHANGED <<routerVars, optionVars, serveVars, conn, sessionVars, inbox, wg,
                   stopVars, histories, acked, faults>>

\* Variant: the message is acknowledged when its handlers are started.
AddAcking ==
    /\ Goto("add", "handle")
    /\ wg' = wg + 1
    /\ Settle(cur)
    /\ past' = IF cancelled THEN past + 1 ELSE past
    /\ UNCHANGED <<routerVars, optionVars, serveVars, conn, subs, inbox, stopVars,
                   handled, early, faults>>

\* match, wg.Add, and the handlers start.
Add ==
    /\ Goto("add", "handle")
    /\ wg' = wg + 1
    /\ past' = IF cancelled THEN past + 1 ELSE past
    /\ UNCHANGED <<routerVars, optionVars, serveVars, conn, sessionVars, inbox,
                   stopVars, handled, early, acked, faults>>

\* The handlers return, or one panics and the deferred function recovers.
HandlersEnd ==
    /\ Goto("handle", "finish")
    /\ handled' = IF Selected(cur) # None THEN handled \cup {cur} ELSE handled
    /\ UNCHANGED <<routerVars, optionVars, serveVars, conn, sessionVars, inbox, wg,
                   stopVars, past, early, acked, faults>>

\* PublishMessage of a handler: the broker's answer queues up behind the messages.
PublishMessage ==
    /\ cur \in Publishing /\ Selected(cur) # None
    /\ Goto("handle", "token")
    /\ inbox' = IF conn THEN Append(inbox, PubAck) ELSE inbox
    /\ UNCHANGED <<routerVars, optionVars, serveVars, conn, sessionVars, wg, stopVars,
                   histories, acked, faults>>

\* The client reads the answer once no more messages than it takes in are before it;
\* a client that has disconnected ends the wait with an error.
TokenDone ==
    /\ Goto("token", "finish")
    /\ \/ /\ stop = "returned"
          /\ UNCHANGED inbox
       \/ \E i \in 1..Len(inbox) :
             /\ inbox[i] = PubAck /\ i <= ClientBuffer + 1
             /\ inbox' = SubSeq(inbox, 1, i - 1) \o SubSeq(inbox, i + 1, Len(inbox))
    /\ handled' = handled \cup {cur}
    /\ UNCHANGED <<routerVars, optionVars, serveVars, conn, sessionVars, wg, stopVars,
                   past, early, acked, faults>>

\* wg.Done wakes a Wait that sleeps when the counter reaches zero.
Awaken == stop' = IF stop = "asleep" /\ wg' = 0 THEN "woken" ELSE stop

\* Variant: wg.Done is the last statement, which a panic skips.
FinishUnlessPanic ==
    /\ Goto("finish", "return")
    /\ wg' \in {wg, wg - 1} /\ Awaken
    /\ IF Selected(cur) # None /\ AutoACK[Selected(cur)] THEN Settle(cur)
       ELSE UNCHANGED <<acked, stored, sent>>
    /\ UNCHANGED <<routerVars, optionVars, serveVars, conn, subs, inbox, cancelled,
                   histories, faults>>

\* The deferred acknowledgement and wg.Done.
Finish ==
    /\ Goto("finish", "return")
    /\ wg' = wg - 1 /\ Awaken
    /\ IF Selected(cur) # None /\ AutoACK[Selected(cur)] THEN Settle(cur)
       ELSE UNCHANGED <<acked, stored, sent>>
    /\ UNCHANGED <<routerVars, optionVars, serveVars, conn, subs, inbox, cancelled,
                   histories, faults>>

\* The client goes on with the next subscription the message fits, or with the next
\* message.
Return ==
    /\ at = "return"
    /\ IF autoAckDisabled THEN UNCHANGED <<acked, stored, sent>> ELSE Settle(cur)
    /\ left' = left - 1
    /\ IF left = 1 THEN at' = "idle" /\ cur' = None
                   ELSE at' = "check" /\ UNCHANGED cur
    /\ UNCHANGED <<routerVars, optionVars, serveVars, conn, subs, inbox, wg, stopVars,
                   histories, faults>>

-----------------------------------------------------------------------------
(* Shutdown *)

CallShutdown ==
    /\ serve \in {"subscribe", "waiting"} /\ stop = "idle"
    /\ stop' = "waiting"
    /\ UNCHANGED <<routerVars, optionVars, serveVars, conn, sessionVars, inbox,
                   callVars, wg, cancelled, histories, acked, faults>>

\* wg.Wait returns at once or sleeps.
Wait ==
    /\ stop = "waiting"
    /\ stop' = IF wg = 0 THEN "waited" ELSE "asleep"
    /\ UNCHANGED <<routerVars, optionVars, serveVars, conn, sessionVars, inbox,
                   callVars, wg, cancelled, histories, acked, faults>>

Wake ==
    /\ stop = "woken" /\ wg = 0
    /\ stop' = "waited"
    /\ UNCHANGED <<routerVars, optionVars, serveVars, conn, sessionVars, inbox,
                   callVars, wg, cancelled, histories, acked, faults>>

\* "WaitGroup is reused before previous Wait has returned": the next message came before
\* Wait had looked at the counter again.  The panic of Shutdown ends the process.
WakePanics ==
    /\ stop = "woken" /\ wg # 0
    /\ stop' = "panicked" /\ serve' = "ended"
    /\ at' = "idle" /\ cur' = None /\ left' = 0 /\ wg' = 0
    /\ conn' = FALSE /\ inbox' = <<>> /\ sent' = {}
    /\ UNCHANGED <<routerVars, optionVars, tried, routes, subs, stored, cancelled,
                   histories, acked, faults>>

Cancel ==
    /\ stop = "waited"
    /\ stop' = "cancelled" /\ cancelled' = TRUE
    /\ UNCHANGED <<routerVars, optionVars, serveVars, conn, sessionVars, inbox,
                   callVars, wg, histories, acked, faults>>

\* The unbuffered shutdown channel.
Meet ==
    /\ stop = "cancelled" /\ serve = "waiting"
    /\ stop' = "met" /\ serve' = "returned"
    /\ UNCHANGED <<routerVars, optionVars, tried, routes, conn, sessionVars, inbox,
                   callVars, wg, cancelled, histories, acked, faults>>

Disconnect ==
    /\ stop = "met"
    /\ stop' = "returned"
    /\ conn' = FALSE /\ inbox' = <<>> /\ sent' = {}
    /\ UNCHANGED <<routerVars, optionVars, serveVars, subs, stored, callVars, wg,
                   cancelled, histories, acked, faults>>

-----------------------------------------------------------------------------
ServeNext  == Serve \/ Subscribed \/ \E p \in Patterns : Subscribe(p)
ClientNext == \/ Receive \/ Check \/ Add \/ HandlersEnd \/ PublishMessage \/ TokenDone
              \/ Finish \/ Return
StopNext   == Wait \/ Wake \/ WakePanics \/ Cancel \/ Meet \/ Disconnect
SendNext   == \E m \in Msgs : Send(m)

Next ==
    \/ Mount \/ ServeNext \/ ClientNext
    \/ CallShutdown \/ StopNext
    \/ Lose \/ Reconnect
    \/ SendNext \/ \E m \in Msgs : Publish(m)

Spec == Init /\ [][Next]_vars

\* Goroutines that can run do, handlers end, the broker sends and the client
\* reconnects.
Fairness ==
    /\ WF_vars(ServeNext) /\ WF_vars(ClientNext) /\ WF_vars(StopNext)
    /\ WF_vars(Reconnect) /\ WF_vars(SendNext)

FairSpec == Spec /\ Fairness

-----------------------------------------------------------------------------
(* Properties *)

\* A handler that publishes waits for an answer the client does not come to read,
\* because it waits for this handler with the messages before the answer.
Stuck ==
    /\ at = "token"
    /\ \E i \in 1..Len(inbox) : inbox[i] = PubAck /\ i > ClientBuffer + 1

\* Callbacks run one after the other, so that at most one of them has passed the
\* check of the context when Shutdown cancels it: no more than one run of handlers
\* starts after the cancellation, although wg.Wait comes before it.
OneRunPastCancel == past <= 1

\* When the application acknowledges (AutoAckDisabled), only messages of AutoACK
\* patterns are, and after their handlers; when the client does, a message nobody
\* worked on is acknowledged only if no pattern matches it or Shutdown has cancelled.
AckedAsAsked ==
    \A m \in acked :
        IF autoAckDisabled
        THEN m \in handled /\ Selected(m) # None /\ AutoACK[Selected(m)]
        ELSE m \in handled \/ Selected(m) = None \/ cancelled

\* Shutdown comes to its end in spite of messages that keep coming, unless a handler is
\* stuck: it returns, or a message that comes when the counter had reached zero makes
\* wg.Wait panic; it neither sleeps on nor waits for a Serve that has gone.
ShutdownReturns == stop = "waiting" ~> stop \in StopOver \/ Stuck

\* A message in the session is worked on in the end, a kept session surviving lost
\* connections: not so if it came before Serve had subscribed, if a Subscribe failed,
\* if the session was not kept, if no pattern matches, or when a handler is stuck.
EventuallyHandled ==
    \A m \in Msgs :
        m \in stored /\ serve = "waiting"
            ~> \/ m \in handled \cup early \/ stop # "idle" \/ Stuck
               \/ faults > 0 /\ (cleanSession \/ routes # mounted)
               \/ Selected(m) = None
=============================================================================
