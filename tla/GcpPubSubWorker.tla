-------------------------- MODULE GcpPubSubWorker --------------------------
(***************************************************************************)
(* The Google Cloud Pub/Sub worker (gcppubsub/consumer.go).  The           *)
(* constructor creates the topics and subscriptions that are missing, in a *)
(* race with other pods of the service that do the same.  One Receive loop *)
(* per topic calls processMessage for every delivery; the call checks      *)
(* the root context, waits for the slot of its topic and hands the message *)
(* to a goroutine.  Shutdown cancels the context, meets Serve at an        *)
(* unbuffered channel and closes the client without waiting for jobs.      *)
(*                                                                         *)
(* The acknowledgement and the recovery of a panic are options the job     *)
(* passes to trace.Finish.  candi's own tracers run them, sentrytracer     *)
(* ignores them (tracer/sentrytracer/sentry_tracer.go).                    *)
(*                                                                         *)
(* External, modelled from how the code uses them: the service, which      *)
(* redelivers what is not acknowledged, the client library and the tracer. *)
(***************************************************************************)
EXTENDS Integers, FiniteSets

CONSTANTS
    Topics,         \* mounted patterns, one subscription each
    Msgs,           \* published messages
    TopicOf,        \* the topic of each message
    AutoACK,        \* WorkerHandler.AutoACK of each topic
    Panicking,      \* messages whose handler panics
    Tracers,        \* tracers the application may use: "candi", "sentry"
    MaxDeliveries,  \* bound: deliveries of each message
    MaxFaults       \* bound: requests of the constructor and Receive loops that fail

ASSUME GcpTopicAssumption == TopicOf \in [Msgs -> Topics] /\ Panicking \subseteq Msgs
ASSUME GcpOptionAssumption ==
    AutoACK \in [Topics -> BOOLEAN] /\ Tracers \subseteq {"candi", "sentry"}
ASSUME GcpBoundAssumption ==
    /\ IsFiniteSet(Msgs)
    /\ MaxDeliveries \in [Msgs -> Nat \ {0}]
    /\ MaxFaults \in Nat

VARIABLES
    tracer,     \* the tracer of this application, "sentry" after InitSentryTracer
    remote,     \* topics and subscriptions that exist, whoever created them
    ready,      \* those the constructor has found or created
    creating,   \* the one it has been told does not exist, if any
    serve,      \* where the constructor and Serve are
    receiving,  \* topics whose Receive loop runs
    cancelled,  \* the root context was cancelled
    stop,       \* where Shutdown is
    sem,        \* slots in use of the semaphore of each topic
    call,       \* where each delivery is
    begun,      \* history: deliveries whose handlers were started
    handled,    \* history: deliveries whose handlers returned or panicked
    acked,      \* deliveries whose acknowledgement has reached the service
    faults      \* failed requests and Receive loops so far

setupVars == <<remote, ready, creating>>
vars == <<setupVars, tracer, serve, receiving, cancelled, stop, sem, call, begun, handled,
          acked, faults>>
histories == <<begun, handled, acked>>

Deliveries == UNION {{m} \X (1..MaxDeliveries[m]) : m \in Msgs}
CallStates == {"none", "check", "acquire", "handle", "finish", "release", "over"}

Resources == {"topic", "subscription"} \X Topics

Topic(d) == TopicOf[d[1]]
Jobs(t)  == {d \in Deliveries : Topic(d) = t /\ call[d] \in {"handle", "finish", "release"}}
Calls(t) == {d \in Deliveries : Topic(d) = t /\ call[d] \in {"check", "acquire"}}

\* The service does not deliver a message again once a delivery of it is acknowledged.
Settled(m) == \E d \in acked : d[1] = m

TypeOK ==
    /\ remote \subseteq Resources /\ ready \subseteq remote
    /\ creating \in {{}} \cup {{r} : r \in Resources \ ready}
    /\ tracer \in Tracers
    /\ serve \in {"down", "waiting", "returned", "exited"}
    /\ receiving \in SUBSET Topics
    /\ cancelled \in BOOLEAN
    /\ stop \in {"idle", "cancelled", "met", "returned"}
    /\ sem \in [Topics -> 0..1]
    /\ call \in [Deliveries -> CallStates]
    /\ begun \subseteq Deliveries /\ handled \subseteq Deliveries /\ acked \subseteq Deliveries
    /\ faults \in 0..MaxFaults

Init ==
    /\ remote = {} /\ ready = {} /\ creating = {}
    /\ tracer \in Tracers
    /\ serve = "down"
    /\ receiving = {}
    /\ cancelled = FALSE
    /\ stop = "idle"
    /\ sem = [t \in Topics |-> 0]
    /\ call = [d \in Deliveries |-> "none"]
    /\ begun = {} /\ handled = {} /\ acked = {}
    /\ faults = 0

-----------------------------------------------------------------------------
(* NewPubSubWorker: createTopic and createSubscription for one pattern after *)
(* the other                                                                 *)

\* A subscription is dealt with after its topic, a topic after the pattern before.
Due(r) ==
    /\ r \notin ready
    /\ IF r[1] = "subscription" THEN <<"topic", r[2]>> \in ready
       ELSE \A t \in Topics : <<"topic", t>> \in ready => <<"subscription", t>> \in ready

\* Variant: what is to be used is created without a look whether it exists.
NeverExists(r) ==
    /\ serve = "down" /\ creating = {} /\ Due(r)
    /\ creating' = {r}
    /\ UNCHANGED <<remote, ready, tracer, serve, receiving, cancelled, stop, sem,
                   call, histories, faults>>

Exists(r) ==
    /\ serve = "down" /\ creating = {} /\ Due(r)
    /\ IF r \in remote THEN ready' = ready \cup {r} /\ creating' = {}
                        ELSE ready' = ready /\ creating' = {r}
    /\ UNCHANGED <<remote, tracer, serve, receiving, cancelled, stop, sem, call,
                   histories, faults>>

\* What another pod has created in the meantime cannot be created: the constructor
\* panics, and the process is started again.
Create(r) ==
    /\ serve = "down" /\ creating = {r}
    /\ remote' = remote \cup {r}
    /\ ready' = IF r \in remote THEN {} ELSE ready \cup {r}
    /\ creating' = {}
    /\ UNCHANGED <<tracer, serve, receiving, cancelled, stop, sem, call, histories,
                   faults>>

\* A request fails for another reason, and the constructor panics.
SetupPanics ==
    /\ serve = "down" /\ ready # Resources
    /\ faults < MaxFaults
    /\ faults' = faults + 1
    /\ ready' = {} /\ creating' = {}
    /\ UNCHANGED <<remote, tracer, serve, receiving, cancelled, stop, sem, call,
                   histories>>

\* Another pod creates it.
OtherPodCreates(r) ==
    /\ r \notin remote
    /\ r[1] = "subscription" => <<"topic", r[2]>> \in remote
    /\ remote' = remote \cup {r}
    /\ UNCHANGED <<ready, creating, tracer, serve, receiving, cancelled, stop, sem,
                   call, histories, faults>>

-----------------------------------------------------------------------------
(* Serve, the Receive loops and processMessage *)

\* Serve starts a Receive loop per subscription, up to the receive from the
\* shutdown channel.  Started with a cancelled context the loops deliver nothing.
Serve ==
    /\ serve = "down" /\ ready = Resources
    /\ serve' = "waiting"
    /\ receiving' = Topics
    /\ UNCHANGED <<setupVars, tracer, cancelled, stop, sem, call, histories, faults>>

\* The service delivers a message, for the first time or again: an expired lease
\* does not wait for the call or the job of the earlier delivery.
Deliver(d) ==
    /\ Topic(d) \in receiving
    /\ ~ cancelled
    /\ ~ Settled(d[1])
    /\ call[d] = "none"
    /\ \A n \in 1..(d[2] - 1) : call[<<d[1], n>>] # "none"
    /\ call' = [call EXCEPT ![d] = "check"]
    /\ UNCHANGED <<setupVars, tracer, serve, receiving, cancelled, stop, sem, histories, faults>>

\* The context is looked at before the wait for the slot, not after it.
CheckContext(d) ==
    /\ call[d] = "check"
    /\ call' = [call EXCEPT ![d] = IF cancelled THEN "over" ELSE "acquire"]
    /\ UNCHANGED <<setupVars, tracer, serve, receiving, cancelled, stop, sem, histories, faults>>

\* Variant: semaphores with room for two.
SlotFreeTwo(t) == sem[t] < 2

SlotFree(t) == sem[t] < 1

\* The send on the semaphore; the call returns to the client library and its
\* goroutine starts the handlers.
Acquire(d) ==
    /\ call[d] = "acquire"
    /\ SlotFree(Topic(d))
    /\ sem' = [sem EXCEPT ![Topic(d)] = @ + 1]
    /\ call' = [call EXCEPT ![d] = "handle"]
    /\ begun' = begun \cup {d}
    /\ UNCHANGED <<setupVars, tracer, serve, receiving, cancelled, stop, handled, acked, faults>>

\* The handlers returned, with errors or without, or one panicked and the options
\* of trace.Finish recover.
HandlersEnd(d) ==
    /\ call[d] = "handle"
    /\ d[1] \in Panicking => tracer # "sentry"
    /\ call' = [call EXCEPT ![d] = "finish"]
    /\ handled' = handled \cup {d}
    /\ UNCHANGED <<setupVars, tracer, serve, receiving, cancelled, stop, sem, begun, acked,
                   faults>>

\* Variant: the acknowledgement is sent when the handlers are started.
FinishEarly(d) ==
    /\ call[d] \in {"handle", "finish"}
    /\ call' = [call EXCEPT ![d] = IF @ = "finish" THEN "release" ELSE @]
    /\ acked' = IF AutoACK[Topic(d)] /\ tracer # "sentry" /\ Topic(d) \in receiving
                THEN acked \cup {d} ELSE acked
    /\ UNCHANGED <<setupVars, tracer, serve, receiving, cancelled, stop, sem, begun, handled,
                   faults>>

\* trace.Finish.  An acknowledgement after the Receive loop has ended is lost.
Finish(d) ==
    /\ call[d] = "finish"
    /\ call' = [call EXCEPT ![d] = "release"]
    /\ acked' = IF AutoACK[Topic(d)] /\ tracer # "sentry" /\ Topic(d) \in receiving
                THEN acked \cup {d} ELSE acked
    /\ UNCHANGED <<setupVars, tracer, serve, receiving, cancelled, stop, sem, begun, handled,
                   faults>>

\* Variant: the slot is given back only when the handlers returned no error.
ReleaseUnlessError(d) ==
    /\ call[d] = "release"
    /\ call' = [call EXCEPT ![d] = "over"]
    /\ sem' \in {sem, [sem EXCEPT ![Topic(d)] = @ - 1]}
    /\ UNCHANGED <<setupVars, tracer, serve, receiving, cancelled, stop, histories, faults>>

\* The deferred receive that frees the slot.
Release(d) ==
    /\ call[d] = "release"
    /\ call' = [call EXCEPT ![d] = "over"]
    /\ sem' = [sem EXCEPT ![Topic(d)] = @ - 1]
    /\ UNCHANGED <<setupVars, tracer, serve, receiving, cancelled, stop, histories, faults>>

-----------------------------------------------------------------------------
(* Shutdown, and the end of the Receive loops and of the process *)

\* Serve ignores the error of Receive: the topic is not consumed any more.
ReceiveFails(t) ==
    /\ t \in receiving
    /\ faults < MaxFaults
    /\ faults' = faults + 1
    /\ Calls(t) = {}
    /\ receiving' = receiving \ {t}
    /\ UNCHANGED <<setupVars, tracer, serve, cancelled, stop, sem, call, histories>>

\* Receive returns once the context is cancelled and its calls have returned; the
\* goroutines they started do not count.
ReceiveEnds(t) ==
    /\ t \in receiving
    /\ cancelled
    /\ Calls(t) = {}
    /\ receiving' = receiving \ {t}
    /\ UNCHANGED <<setupVars, tracer, serve, cancelled, stop, sem, call, histories, faults>>

\* Variant: Serve returns on the cancelled context, not on the shutdown channel.
CancelServe ==
    /\ serve = "waiting" /\ serve' = "returned"
    /\ stop = "idle"
    /\ stop' = "cancelled"
    /\ cancelled' = TRUE
    /\ UNCHANGED <<setupVars, tracer, receiving, sem, call, histories, faults>>

\* Shutdown, which may come as soon as there is a worker: before Serve has been called
\* as well as after it.
Cancel ==
    /\ serve = "waiting" \/ (serve = "down" /\ ready = Resources)
    /\ stop = "idle"
    /\ stop' = "cancelled"
    /\ cancelled' = TRUE
    /\ UNCHANGED <<setupVars, tracer, serve, receiving, sem, call, histories, faults>>

\* The unbuffered shutdown channel: Shutdown waits until Serve receives.
Meet ==
    /\ stop = "cancelled" /\ serve = "waiting"
    /\ stop' = "met" /\ serve' = "returned"
    /\ UNCHANGED <<setupVars, tracer, receiving, cancelled, sem, call, histories, faults>>

\* Client.Close, and Shutdown returns.
Close ==
    /\ stop = "met"
    /\ stop' = "returned"
    /\ receiving' = {}
    /\ UNCHANGED <<setupVars, tracer, serve, cancelled, sem, call, histories, faults>>

\* The process ends with every call and job in it.
Die ==
    /\ receiving' = {}
    /\ sem' = [t \in Topics |-> 0]
    /\ call' = [d \in Deliveries |-> IF call[d] = "none" THEN "none" ELSE "over"]
    /\ ready' = {} /\ creating' = {}
    /\ UNCHANGED <<remote, tracer, cancelled, stop, histories, faults>>

Exit ==
    /\ serve = "returned" /\ stop = "returned"
    /\ serve' = "exited"
    /\ Die

\* sentrytracer's Finish calls no recover: the panic ends the process, which is
\* started again and receives the message again.
PanicEnds(d) ==
    /\ call[d] = "handle"
    /\ d[1] \in Panicking /\ tracer = "sentry"
    /\ serve' = IF stop = "idle" THEN "down" ELSE "exited"
    /\ Die

-----------------------------------------------------------------------------
CallNext(d) == CheckContext(d) \/ Acquire(d) \/ HandlersEnd(d) \/ Finish(d)
               \/ Release(d) \/ PanicEnds(d)
StopNext == Meet \/ Close

Next ==
    \/ \E r \in Resources : Exists(r) \/ Create(r) \/ OtherPodCreates(r)
    \/ SetupPanics
    \/ Serve \/ Cancel \/ StopNext \/ Exit
    \/ \E d \in Deliveries : Deliver(d) \/ CallNext(d)
    \/ \E t \in Topics : ReceiveFails(t) \/ ReceiveEnds(t)

Spec == Init /\ [][Next]_vars

\* Goroutines that can run do, handlers terminate, and the service keeps trying to
\* deliver.  A channel serves its blocked senders in order, so that a delivery
\* waiting for a slot that is freed again and again gets it: strong fairness.
Fairness ==
    /\ WF_vars(Serve \/ \E r \in Resources : Exists(r) \/ Create(r))
    /\ WF_vars(StopNext)
    /\ \A t \in Topics : WF_vars(ReceiveEnds(t))
    /\ \A d \in Deliveries : WF_vars(Deliver(d)) /\ WF_vars(CallNext(d))
                             /\ SF_vars(Acquire(d))

FairSpec == Spec /\ Fairness

-----------------------------------------------------------------------------
(* Properties *)

\* The slots in use are those of the jobs: an error, a panic the tracer recovers
\* and a cancelled context all give theirs back, and no topic runs two jobs.
SlotsAccounted == \A t \in Topics : sem[t] = Cardinality(Jobs(t))

\* The worker implements the abstract consumer, with one pod, no locker and a message
\* for each delivery: no two jobs of a topic run side by side, those of two deliveries
\* of one message included, and only a delivery whose handlers have ended is
\* acknowledged.
Consumer == INSTANCE ExclusiveConsumer WITH
    Pods    <- {"pod"},
    Msgs    <- Deliveries,
    TopicOf <- [d \in Deliveries |-> Topic(d)],
    KeyOf   <- [d \in Deliveries |-> {}],
    holding <- {<<"pod", d>> : d \in UNION {Jobs(t) : t \in Topics}}

ConsumerSpec == Consumer!Spec

\* The worker comes up however its creations interleave with those of other pods: a
\* lost race ends the process, but what was lost exists when it is started again.
SetupConverges == serve = "down" ~> serve = "waiting"

\* Shutdown returns although jobs run: Serve is there to meet it, or will be.
ShutdownReturns ==
    stop = "cancelled" ~> stop = "returned" \/ serve = "exited"

\* While nobody shuts down and no Receive loop fails, a message of an AutoACK
\* topic is acknowledged, unless the tracer is sentrytracer.
EventuallyAcked ==
    \A m \in Msgs :
        serve = "waiting" /\ AutoACK[TopicOf[m]]
            ~> Settled(m) \/ tracer = "sentry" \/ faults > 0 \/ stop # "idle"
=============================================================================
