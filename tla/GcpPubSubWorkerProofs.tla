----------------------- MODULE GcpPubSubWorkerProofs -----------------------
(***************************************************************************)
(* The safety of the Google Cloud Pub/Sub worker for any number of topics, *)
(* messages and deliveries of each message, whichever tracer is used; and  *)
(* that nothing the worker waits for fails to go on.                       *)
(***************************************************************************)
EXTENDS GcpPubSubWorker, FiniteSetTheorems, TLAPS

-----------------------------------------------------------------------------
(* The inductive invariant *)

\* A slot in use has one job, a free one has none.
SlotInv ==
    \A t \in Topics :
        \/ sem[t] = 0 /\ Jobs(t) = {}
        \/ sem[t] = 1 /\ \E d \in Deliveries : Jobs(t) = {d}

\* Past its handlers a job has returned from them.
HandledInv ==
    \A d \in Deliveries : call[d] \in {"finish", "release"} => d \in handled

IInv == TypeOK /\ SlotInv /\ HandledInv

-----------------------------------------------------------------------------
(* Deliveries and jobs *)

\* A delivery is of a message, whose topic is mounted.
LEMMA DeliveryType ==
  ASSUME NEW d \in Deliveries
  PROVE  d[1] \in Msgs /\ Topic(d) \in Topics
  BY GcpTopicAssumption DEF Deliveries, Topic

JobStates == {"handle", "finish", "release"}

\* A call that moves within the job states, or outside of them, moves no slot.
LEMMA SameJobs ==
  ASSUME TypeOK, NEW d \in Deliveries, NEW to,
         call' = [call EXCEPT ![d] = to],
         call[d] \in JobStates <=> to \in JobStates,
         NEW t \in Topics
  PROVE  Jobs(t)' = Jobs(t)
  BY DEF Jobs, TypeOK, JobStates

\* A step that moves no slot and no job between topics keeps the owners.
LEMMA SlotFrame ==
  ASSUME SlotInv, UNCHANGED sem, \A t \in Topics : Jobs(t)' = Jobs(t)
  PROVE  SlotInv'
  BY DEF SlotInv

\* The steps that touch neither a delivery nor a slot nor what was handled.
Quiet ==
    \/ \E r \in Resources : Exists(r) \/ Create(r) \/ OtherPodCreates(r)
    \/ SetupPanics \/ Serve \/ Cancel \/ StopNext
    \/ \E t \in Topics : ReceiveFails(t) \/ ReceiveEnds(t)

\* Steps of the constructor, of Serve and of Shutdown touch no call.
LEMMA QuietUnchanged ==
  ASSUME Quiet
  PROVE  UNCHANGED <<sem, call, begun, handled, acked>>
  BY DEF Quiet, Exists, Create, OtherPodCreates, SetupPanics, Serve, Cancel, StopNext,
         Meet, Close, ReceiveFails, ReceiveEnds, histories

\* Every step is quiet, or an end of the process, or a step of one delivery.
LEMMA NextCases ==
  ASSUME [Next]_vars
  PROVE  \/ Quiet \/ Exit
         \/ \E d \in Deliveries : Deliver(d) \/ CallNext(d)
         \/ UNCHANGED vars
  BY DEF Next, Quiet

\* What the end of the process does to the calls and the slots.
LEMMA DieFacts ==
  ASSUME TypeOK, Die
  PROVE  /\ sem' = [t \in Topics |-> 0]
         /\ call' \in [Deliveries -> {"none", "over"}]
         /\ \A t \in Topics : Jobs(t)' = {}
         /\ UNCHANGED <<begun, handled, acked>>
  BY DEF Die, Jobs, histories

-----------------------------------------------------------------------------
(* Typing *)

\* A process starts with every variable in its type.
LEMMA InitTypeOK == Init => TypeOK
  <1> SUFFICES ASSUME Init PROVE TypeOK
    OBVIOUS
  <1>1. /\ sem \in [Topics -> 0..1] /\ call \in [Deliveries -> CallStates]
        /\ faults \in 0..MaxFaults
    BY GcpBoundAssumption DEF Init, CallStates
  <1> QED
    BY <1>1 DEF Init, TypeOK

\* The constructor keeps the types, whatever other pods create.
LEMMA SetupTypeOK ==
  ASSUME TypeOK,
         \/ \E r \in Resources : Exists(r) \/ Create(r) \/ OtherPodCreates(r)
         \/ SetupPanics
  PROVE  TypeOK'
  <1> USE DEF TypeOK, histories
  <1>1. ASSUME NEW r \in Resources, Exists(r) PROVE TypeOK'
    BY <1>1 DEF Exists, Due
  <1>2. ASSUME NEW r \in Resources, Create(r) PROVE TypeOK'
    BY <1>2 DEF Create
  <1>3. ASSUME NEW r \in Resources, OtherPodCreates(r) PROVE TypeOK'
    BY <1>3 DEF OtherPodCreates
  <1>4. ASSUME SetupPanics PROVE TypeOK'
    BY <1>4, GcpBoundAssumption DEF SetupPanics
  <1> QED
    BY <1>1, <1>2, <1>3, <1>4

\* Every step keeps the types; the slot of a topic is taken only when it is free.
LEMMA TypeOKStep == IInv /\ [Next]_vars => TypeOK'
  <1> SUFFICES ASSUME IInv, [Next]_vars PROVE TypeOK'
    OBVIOUS
  <1>0. TypeOK /\ SlotInv
    BY DEF IInv
  <1> USE <1>0 DEF TypeOK, CallStates, histories, setupVars
  <1>1. CASE \/ \E r \in Resources : Exists(r) \/ Create(r) \/ OtherPodCreates(r)
             \/ SetupPanics
    BY <1>1, SetupTypeOK
  <1>2. CASE Serve \/ Cancel \/ Meet \/ Close
    BY <1>2 DEF Serve, Cancel, Meet, Close
  <1>3. ASSUME NEW t \in Topics, ReceiveFails(t) \/ ReceiveEnds(t) PROVE TypeOK'
    BY <1>3, GcpBoundAssumption DEF ReceiveFails, ReceiveEnds
  <1>4. ASSUME NEW d \in Deliveries, Deliver(d) \/ CheckContext(d) PROVE TypeOK'
    BY <1>4 DEF Deliver, CheckContext
  <1>5. ASSUME NEW d \in Deliveries, Acquire(d) PROVE TypeOK'
    <2>1. Topic(d) \in Topics /\ d[1] \in Msgs
      BY DeliveryType
    <2>2. sem[Topic(d)] + 1 \in 0..1
      BY <1>5, <2>1 DEF Acquire, SlotFree
    <2> QED
      BY <1>5, <2>1, <2>2 DEF Acquire
  <1>6. ASSUME NEW d \in Deliveries, HandlersEnd(d) \/ Finish(d) PROVE TypeOK'
    BY <1>6, DeliveryType DEF HandlersEnd, Finish
  <1>7. ASSUME NEW d \in Deliveries, Release(d) PROVE TypeOK'
    <2>1. Topic(d) \in Topics /\ d \in Jobs(Topic(d))
      BY <1>7, DeliveryType DEF Release, Jobs
    <2>2. sem[Topic(d)] = 1
      BY <2>1 DEF SlotInv
    <2> QED
      BY <1>7, <2>1, <2>2 DEF Release
  <1>8. CASE Exit \/ \E d \in Deliveries : PanicEnds(d)
    <2>1. Die /\ serve' \in {"down", "exited"}
      BY <1>8 DEF Exit, PanicEnds
    <2> QED
      BY <2>1 DEF Die
  <1>9. CASE UNCHANGED vars
    BY <1>9 DEF vars
  <1> QED
    BY <1>1, <1>2, <1>3, <1>4, <1>5, <1>6, <1>7, <1>8, <1>9
       DEF Next, StopNext, CallNext

-----------------------------------------------------------------------------
(* Slots *)

\* Every step keeps one owner for each slot in use: Acquire finds none, Release ends
\* the only one.
LEMMA SlotInvStep == IInv /\ [Next]_vars => SlotInv'
  <1> SUFFICES ASSUME IInv, [Next]_vars PROVE SlotInv'
    OBVIOUS
  <1>0. TypeOK /\ SlotInv
    BY DEF IInv
  <1>1. CASE Quiet
    BY <1>0, <1>1, QuietUnchanged, SlotFrame DEF Jobs
  <1>2. ASSUME NEW d \in Deliveries,
               Deliver(d) \/ CheckContext(d) \/ HandlersEnd(d) \/ Finish(d)
        PROVE  SlotInv'
    <2>1. UNCHANGED sem
      BY <1>2 DEF Deliver, CheckContext, HandlersEnd, Finish
    <2>2. \E to \in CallStates : /\ call' = [call EXCEPT ![d] = to]
                                 /\ call[d] \in JobStates <=> to \in JobStates
      BY <1>2 DEF Deliver, CheckContext, HandlersEnd, Finish, CallStates, JobStates
    <2> QED
      BY <1>0, <2>1, <2>2, SameJobs, SlotFrame
  <1>3. ASSUME NEW d \in Deliveries, Acquire(d) PROVE SlotInv'
    <2> DEFINE u == Topic(d)
    <2>1. /\ u \in Topics /\ sem[u] < 1
          /\ sem' = [sem EXCEPT ![u] = @ + 1]
          /\ call' = [call EXCEPT ![d] = "handle"]
      BY <1>3, DeliveryType DEF Acquire, SlotFree
    <2>2. sem[u] = 0 /\ Jobs(u) = {}
      BY <1>0, <2>1 DEF SlotInv
    <2>3. Jobs(u)' = {d} /\ sem'[u] = 1
      BY <1>0, <2>1, <2>2 DEF Jobs, TypeOK
    <2>4. \A t \in Topics : t # u => Jobs(t)' = Jobs(t) /\ sem'[t] = sem[t]
      BY <1>0, <2>1 DEF Jobs, TypeOK
    <2> HIDE DEF u
    <2> QED
      BY <1>0, <2>3, <2>4 DEF SlotInv
  <1>4. ASSUME NEW d \in Deliveries, Release(d) PROVE SlotInv'
    <2> DEFINE u == Topic(d)
    <2>1. /\ u \in Topics /\ call[d] = "release"
          /\ sem' = [sem EXCEPT ![u] = @ - 1]
          /\ call' = [call EXCEPT ![d] = "over"]
      BY <1>4, DeliveryType DEF Release
    <2>2. sem[u] = 1 /\ Jobs(u) = {d}
      BY <1>0, <2>1 DEF SlotInv, Jobs
    <2>3. Jobs(u)' = {} /\ sem'[u] = 0
      BY <1>0, <2>1, <2>2 DEF Jobs, TypeOK
    <2>4. \A t \in Topics : t # u => Jobs(t)' = Jobs(t) /\ sem'[t] = sem[t]
      BY <1>0, <2>1 DEF Jobs, TypeOK
    <2> HIDE DEF u
    <2> QED
      BY <1>0, <2>3, <2>4 DEF SlotInv
  <1>5. CASE Exit \/ \E d \in Deliveries : PanicEnds(d)
    <2>1. Die
      BY <1>5 DEF Exit, PanicEnds
    <2> QED
      BY <1>0, <2>1, DieFacts DEF SlotInv
  <1>6. CASE UNCHANGED vars
    BY <1>0, <1>6, SlotFrame DEF vars, Jobs
  <1> QED
    BY <1>1, <1>2, <1>3, <1>4, <1>5, <1>6, NextCases DEF CallNext

\* A call reaches Finish only when its handlers have ended.
LEMMA HandledInvStep == IInv /\ [Next]_vars => HandledInv'
  <1> SUFFICES ASSUME IInv, [Next]_vars PROVE HandledInv'
    OBVIOUS
  <1>0. TypeOK /\ HandledInv
    BY DEF IInv
  <1>1. CASE Quiet
    BY <1>0, <1>1, QuietUnchanged DEF HandledInv
  <1>2. ASSUME NEW d \in Deliveries, Deliver(d) \/ CallNext(d), ~ PanicEnds(d)
        PROVE  HandledInv'
    BY <1>0, <1>2 DEF Deliver, CallNext, CheckContext, Acquire, HandlersEnd, Finish,
                      Release, HandledInv, TypeOK, histories
  <1>3. CASE Exit \/ \E d \in Deliveries : PanicEnds(d)
    <2>1. Die
      BY <1>3 DEF Exit, PanicEnds
    <2> QED
      BY <1>0, <2>1, DieFacts DEF HandledInv
  <1>4. CASE UNCHANGED vars
    BY <1>0, <1>4 DEF HandledInv, vars, histories
  <1> QED
    BY <1>1, <1>2, <1>3, <1>4, NextCases

-----------------------------------------------------------------------------
(* The theorems *)

\* The inductive invariant holds in every reachable state.
THEOREM GcpInductive == Spec => []IInv
  <1>1. Init => IInv
    BY InitTypeOK DEF Init, IInv, SlotInv, HandledInv, Jobs
  <1>2. IInv /\ [Next]_vars => IInv'
    BY TypeOKStep, SlotInvStep, HandledInvStep DEF IInv
  <1> QED
    BY <1>1, <1>2, PTL DEF Spec

\* Every variable keeps its type; in particular what the constructor has found or
\* created exists, and no semaphore holds two slots.
THEOREM GcpTypeCorrect == Spec => []TypeOK
  <1>1. IInv => TypeOK
    BY DEF IInv
  <1> QED
    BY <1>1, GcpInductive, PTL

\* Every job, redelivered or not, gives its slot back, and no other takes it.
THEOREM GcpSlotsSafe == Spec => []SlotsAccounted
  <1>1. IInv => SlotsAccounted
    <2> SUFFICES ASSUME SlotInv, NEW t \in Topics PROVE sem[t] = Cardinality(Jobs(t))
      BY DEF IInv, SlotsAccounted
    <2>1. CASE sem[t] = 0 /\ Jobs(t) = {}
      BY <2>1, FS_EmptySet
    <2>2. CASE sem[t] = 1 /\ \E d \in Deliveries : Jobs(t) = {d}
      <3>1. PICK d \in Deliveries : Jobs(t) = {d}
        BY <2>2
      <3>2. Cardinality({d}) = 1
        BY FS_Singleton
      <3> QED
        BY <2>2, <3>1, <3>2
    <2> QED
      BY <2>1, <2>2 DEF SlotInv
  <1> QED
    BY <1>1, GcpInductive, PTL

-----------------------------------------------------------------------------
(* The refinement *)

\* What the abstract consumer sees: the deliveries with a job.
Held == {<<"pod", d>> : d \in UNION {Jobs(t) : t \in Topics}}

\* Exactly the deliveries past Acquire are held.
LEMMA HeldMember ==
  ASSUME NEW d \in Deliveries
  PROVE  <<"pod", d>> \in Held <=> call[d] \in JobStates
  BY DeliveryType DEF Held, Jobs, JobStates

\* Who is held is a delivery with a job.
LEMMA HeldJob ==
  ASSUME NEW h \in Held
  PROVE  \E e \in Deliveries : /\ h = <<"pod", e>> /\ call[e] \in JobStates
                               /\ e \in Jobs(Topic(e))
  BY DEF Held, Jobs, JobStates

\* Every step of the worker is a step of the abstract consumer or a stutter.
LEMMA GcpStep == IInv /\ [Next]_vars => [Consumer!Next]_(Consumer!vars)
  <1> SUFFICES ASSUME IInv, [Next]_vars PROVE [Consumer!Next]_(Consumer!vars)
    OBVIOUS
  <1>0. TypeOK /\ SlotInv /\ HandledInv
    BY DEF IInv
  <1>1. ASSUME UNCHANGED histories, \A t \in Topics : Jobs(t)' = Jobs(t)
        PROVE  UNCHANGED Consumer!vars
    <2>1. Held' = Held
      BY <1>1 DEF Held
    <2> QED
      BY <1>1, <2>1 DEF Consumer!vars, Held, histories
  <1>2. CASE Quiet
    BY <1>1, <1>2, QuietUnchanged DEF histories, Jobs
  <1>3. ASSUME NEW d \in Deliveries, Deliver(d) \/ CheckContext(d)
        PROVE  UNCHANGED Consumer!vars
    <2>1. \E to \in CallStates : /\ call' = [call EXCEPT ![d] = to]
                                 /\ call[d] \in JobStates <=> to \in JobStates
      BY <1>3 DEF Deliver, CheckContext, CallStates, JobStates
    <2>2. UNCHANGED histories
      BY <1>3 DEF Deliver, CheckContext
    <2> QED
      BY <1>0, <1>1, <2>1, <2>2, SameJobs
  <1>4. ASSUME NEW d \in Deliveries, Acquire(d) PROVE Consumer!Take("pod", d)
    <2> DEFINE u == Topic(d)
    <2>1. /\ u \in Topics /\ sem[u] < 1
          /\ call' = [call EXCEPT ![d] = "handle"]
          /\ begun' = begun \cup {d} /\ UNCHANGED <<handled, acked>>
      BY <1>4, DeliveryType DEF Acquire, SlotFree
    <2>2. Jobs(u) = {}
      BY <1>0, <2>1 DEF SlotInv
    <2>3. ASSUME NEW h \in Held PROVE ~ Consumer!Conflict("pod", d, h[1], h[2])
      <3>1. PICK e \in Deliveries : /\ h = <<"pod", e>> /\ call[e] \in JobStates
                                    /\ e \in Jobs(Topic(e))
        BY HeldJob
      <3>2. Topic(e) # u
        BY <2>2, <3>1
      <3> QED
        BY <2>1, <3>1, <3>2 DEF Consumer!Conflict
    <2>4. Jobs(u)' = {d} /\ \A t \in Topics : t # u => Jobs(t)' = Jobs(t)
      BY <1>0, <2>1, <2>2 DEF Jobs, TypeOK
    <2>5. (UNION {Jobs(t) : t \in Topics})' = (UNION {Jobs(t) : t \in Topics}) \cup {d}
      <3>1. \A e : (\E t \in Topics : e \in Jobs(t)')
                   <=> e = d \/ \E t \in Topics : e \in Jobs(t)
        BY <2>1, <2>2, <2>4
      <3> QED
        BY <3>1
    <2>6. Held' = Held \cup {<<"pod", d>>}
      BY <2>5 DEF Held
    <2> QED
      BY <2>1, <2>3, <2>6 DEF Consumer!Take, Held
  <1>5. ASSUME NEW d \in Deliveries, HandlersEnd(d) PROVE Consumer!Finish("pod", d)
    <2>1. /\ call[d] = "handle" /\ call' = [call EXCEPT ![d] = "finish"]
          /\ handled' = handled \cup {d} /\ UNCHANGED <<begun, acked>>
      BY <1>5 DEF HandlersEnd
    <2>2. \A t \in Topics : Jobs(t)' = Jobs(t)
      BY <1>0, <2>1, SameJobs DEF JobStates
    <2>3. Held' = Held
      BY <2>2 DEF Held
    <2>4. <<"pod", d>> \in Held
      BY <2>1, HeldMember DEF JobStates
    <2> QED
      BY <2>1, <2>3, <2>4 DEF Consumer!Finish, Held
  <1>6. ASSUME NEW d \in Deliveries, Finish(d) PROVE Consumer!Settle("pod", d)
    <2>1. /\ call[d] = "finish" /\ call' = [call EXCEPT ![d] = "release"]
          /\ acked' \in {acked, acked \cup {d}} /\ UNCHANGED <<begun, handled>>
      BY <1>6 DEF Finish
    <2>2. \A t \in Topics : Jobs(t)' = Jobs(t)
      BY <1>0, <2>1, SameJobs DEF JobStates
    <2>3. Held' = Held
      BY <2>2 DEF Held
    <2>4. <<"pod", d>> \in Held
      BY <2>1, HeldMember DEF JobStates
    <2>5. d \in Deliveries /\ Consumer!Worked(d)
      BY <1>0, <2>1, DeliveryType DEF HandledInv, Consumer!Worked
    <2>6. \E S \in SUBSET {n \in Deliveries : Consumer!Worked(n)} : acked' = acked \cup S
      <3>1. {} \in SUBSET {n \in Deliveries : Consumer!Worked(n)}
        OBVIOUS
      <3>2. {d} \in SUBSET {n \in Deliveries : Consumer!Worked(n)}
        BY <2>5
      <3> QED
        BY <2>1, <3>1, <3>2
    <2> QED
      BY <2>1, <2>3, <2>4, <2>6 DEF Consumer!Settle, Held
  <1>7. ASSUME NEW d \in Deliveries, Release(d) PROVE Consumer!Release("pod", d)
    <2> DEFINE u == Topic(d)
    <2>1. /\ u \in Topics /\ call[d] = "release"
          /\ call' = [call EXCEPT ![d] = "over"] /\ UNCHANGED <<begun, handled, acked>>
      BY <1>7, DeliveryType DEF Release, histories
    <2>2. Jobs(u) = {d}
      BY <1>0, <2>1 DEF SlotInv, Jobs
    <2>3. Jobs(u)' = {} /\ \A t \in Topics : t # u => Jobs(t)' = Jobs(t)
      BY <1>0, <2>1, <2>2 DEF Jobs, TypeOK
    <2>4. <<"pod", d>> \in Held
      BY <2>1, HeldMember DEF JobStates
    <2>5. \A t \in Topics : t # u => \A e \in Jobs(t) : e # d
      BY DEF Jobs
    <2>6. Held' = Held \ {<<"pod", d>>}
      BY <2>1, <2>2, <2>3, <2>5 DEF Held
    <2> QED
      BY <2>1, <2>4, <2>6 DEF Consumer!Release, Held
  <1>8. ASSUME Exit \/ \E d \in Deliveries : PanicEnds(d) PROVE Consumer!Die("pod")
    <2>1. Die
      BY <1>8 DEF Exit, PanicEnds
    <2>2. \A t \in Topics : Jobs(t)' = {}
      BY <1>0, <2>1, DieFacts
    <2>3. Held' = {}
      BY <2>2 DEF Held
    <2>4. {h \in Held : h[1] # "pod"} = {}
      BY DEF Held
    <2> QED
      BY <1>0, <2>1, <2>3, <2>4, DieFacts DEF Consumer!Die, Held
  <1>9. CASE UNCHANGED vars
    BY <1>1, <1>9 DEF vars, histories, Jobs
  <1> QED
    BY <1>2, <1>3, <1>4, <1>5, <1>6, <1>7, <1>8, <1>9, NextCases, DeliveryType
       DEF CallNext, Consumer!Next

\* The Pub/Sub worker implements the abstract consumer of one pod without a locker:
\* the jobs of a topic exclude each other, those of two deliveries of one message
\* included, and only a delivery whose handlers are through with it is acknowledged.
THEOREM GcpImplementsConsumer == Spec => ConsumerSpec
  <1>1. Init => Consumer!Init
    BY DEF Init, Consumer!Init, Jobs
  <1> QED
    BY <1>1, GcpStep, GcpInductive, PTL DEF Spec, ConsumerSpec, Consumer!Spec

-----------------------------------------------------------------------------
(* No standstill: somebody can always go on *)

\* What the actions of the constructor and of Serve, of the service, of a call and its
\* job, and of Shutdown wait for.
CanSetUp ==
    /\ serve = "down"
    /\ \/ ready = Resources
       \/ \E r \in Resources : creating = {r} \/ (creating = {} /\ Due(r))

CanDeliver(d) ==
    /\ Topic(d) \in receiving /\ ~ cancelled /\ ~ Settled(d[1]) /\ call[d] = "none"
    /\ \A n \in 1..(d[2] - 1) : call[<<d[1], n>>] # "none"

CanCall(d) ==
    \/ call[d] = "check" \/ call[d] \in JobStates
    \/ call[d] = "acquire" /\ SlotFree(Topic(d))

CanStop == (stop = "cancelled" /\ serve = "waiting") \/ stop = "met"

\* Nothing failed, nobody shuts down, and the tracer runs the options of a job.
Undisturbed == faults = 0 /\ stop = "idle" /\ tracer # "sentry"

\* The constructor never gets stuck, whatever other pods create.  A delivery waits for
\* its slot only while a job of its topic can go on.  Shutdown finds Serve to meet, or
\* Serve can be called.  And while nothing disturbs the worker, a message of an AutoACK topic that is not
\* acknowledged can be delivered, or is held up by nothing but jobs that can go on.
NoStandstill ==
    /\ serve = "down" => CanSetUp
    /\ \A d \in Deliveries :
          call[d] = "acquire" => \E e \in Deliveries : Topic(e) = Topic(d) /\ CanCall(e)
    /\ stop \in {"cancelled", "met"} /\ serve # "exited" => CanStop \/ CanSetUp
    /\ Undisturbed /\ serve # "down" =>
          \A m \in Msgs :
              AutoACK[TopicOf[m]] /\ ~ Settled(m) =>
                  \E d \in Deliveries :
                      Topic(d) = TopicOf[m] /\ (CanDeliver(d) \/ CanCall(d))

\* Serve is there to meet Shutdown until it has, or has yet to be called.
StopInv ==
    /\ stop = "idle" => serve \in {"down", "waiting"}
    /\ stop = "cancelled" => \/ serve \in {"waiting", "exited"}
                             \/ serve = "down" /\ ready = Resources

\* Before Serve there is no call, and while nothing disturbs the worker every topic is
\* consumed and a job of an AutoACK topic has acknowledged its message when it ends.
GoneInv ==
    Undisturbed =>
        /\ ~ cancelled
        /\ receiving = IF serve = "waiting" THEN Topics ELSE {}
        /\ \A d \in Deliveries :
              /\ call[d] # "none" => serve = "waiting"
              /\ AutoACK[Topic(d)] /\ call[d] \in {"release", "over"} => d \in acked

StandInv == StopInv /\ GoneInv

\* Only Cancel, Meet, Close and an end of the process move Serve or Shutdown on.
LEMMA StopStep == IInv /\ StopInv /\ [Next]_vars => StopInv'
  <1> SUFFICES ASSUME IInv, StopInv, [Next]_vars PROVE StopInv'
    OBVIOUS
  <1>0. TypeOK
    BY DEF IInv
  <1> USE DEF StopInv
  <1>1. ASSUME NEW r \in Resources, Exists(r) \/ Create(r) \/ OtherPodCreates(r)
        PROVE  StopInv'
    BY <1>0, <1>1 DEF Exists, Due, Create, OtherPodCreates, TypeOK
  <1>2. CASE SetupPanics \/ Serve \/ Cancel \/ StopNext
    BY <1>2 DEF SetupPanics, Serve, Cancel, StopNext, Meet, Close, setupVars
  <1>3. ASSUME NEW t \in Topics, ReceiveFails(t) \/ ReceiveEnds(t) PROVE StopInv'
    BY <1>3 DEF ReceiveFails, ReceiveEnds, setupVars
  <1>4. ASSUME NEW d \in Deliveries, Deliver(d) \/ CallNext(d) PROVE StopInv'
    BY <1>4 DEF Deliver, CallNext, CheckContext, Acquire, HandlersEnd, Finish, Release,
               PanicEnds, Die, setupVars
  <1>5. CASE Exit
    BY <1>5 DEF Exit, Die
  <1>6. CASE UNCHANGED vars
    BY <1>6 DEF vars, setupVars
  <1> QED
    BY <1>1, <1>2, <1>3, <1>4, <1>5, <1>6 DEF Next

\* A call that moves on without Serve, Shutdown and the Receive loops keeps GoneInv,
\* unless it ends without an acknowledgement.
LEMMA GoneCall ==
  ASSUME TypeOK, GoneInv, NEW d \in Deliveries, NEW to, call' = [call EXCEPT ![d] = to],
         call[d] # "none" \/ (Undisturbed => serve = "waiting"),
         UNCHANGED <<serve, receiving, cancelled, stop, tracer, faults>>,
         acked \subseteq acked',
         Undisturbed /\ AutoACK[Topic(d)] /\ to \in {"release", "over"} => d \in acked'
  PROVE  GoneInv'
  <1> SUFFICES ASSUME Undisturbed'
               PROVE  /\ ~ cancelled'
                      /\ receiving' = IF serve' = "waiting" THEN Topics ELSE {}
                      /\ \A e \in Deliveries :
                            /\ call'[e] # "none" => serve' = "waiting"
                            /\ AutoACK[Topic(e)] /\ call'[e] \in {"release", "over"}
                                  => e \in acked'
    BY DEF GoneInv, Topic
  <1>1. Undisturbed
    BY DEF Undisturbed
  <1>2. ASSUME NEW e \in Deliveries
        PROVE  /\ call'[e] # "none" => serve' = "waiting"
               /\ AutoACK[Topic(e)] /\ call'[e] \in {"release", "over"} => e \in acked'
    <2>1. CASE e = d
      BY <1>1, <2>1 DEF GoneInv, TypeOK
    <2>2. CASE e # d
      BY <1>1, <2>2 DEF GoneInv, TypeOK
    <2> QED
      BY <2>1, <2>2
  <1> QED
    BY <1>1, <1>2 DEF GoneInv

\* A job acknowledges its message before it gives its slot back, and without a failure
\* or a Shutdown the Receive loop is there to take the acknowledgement.
LEMMA GoneStep == IInv /\ StopInv /\ GoneInv /\ [Next]_vars => GoneInv'
  <1> SUFFICES ASSUME IInv, StopInv, GoneInv, [Next]_vars PROVE GoneInv'
    OBVIOUS
  <1>0. TypeOK
    BY DEF IInv
  <1>1. ASSUME NEW r \in Resources, Exists(r) \/ Create(r) \/ OtherPodCreates(r)
        PROVE  GoneInv'
    BY <1>1 DEF Exists, Create, OtherPodCreates, GoneInv, Undisturbed, Topic, histories
  <1>2. ASSUME SetupPanics \/ \E t \in Topics : ReceiveFails(t) PROVE GoneInv'
    BY <1>0, <1>2, GcpBoundAssumption
       DEF SetupPanics, ReceiveFails, GoneInv, Undisturbed, TypeOK
  <1>3. CASE Serve
    BY <1>3 DEF Serve, GoneInv, Undisturbed, Topic, histories
  <1>4. CASE Cancel \/ StopNext
    BY <1>4 DEF Cancel, StopNext, Meet, Close, GoneInv, Undisturbed
  <1>5. ASSUME NEW t \in Topics, ReceiveEnds(t) PROVE GoneInv'
    BY <1>5 DEF ReceiveEnds, GoneInv, Undisturbed
  <1>6. ASSUME NEW d \in Deliveries, Deliver(d) PROVE GoneInv'
    <2>1. Undisturbed => serve = "waiting"
      BY <1>6 DEF Deliver, GoneInv
    <2> QED
      BY <1>0, <1>6, <2>1, GoneCall DEF Deliver, histories
  <1>7. ASSUME NEW d \in Deliveries, CheckContext(d) PROVE GoneInv'
    <2>1. Undisturbed => ~ cancelled
      BY DEF GoneInv
    <2>2. PICK to : /\ call' = [call EXCEPT ![d] = to] /\ (~ cancelled => to = "acquire")
                    /\ call[d] # "none"
      BY <1>7 DEF CheckContext
    <2> QED
      BY <1>0, <1>7, <2>1, <2>2, GoneCall DEF CheckContext, histories
  <1>8. ASSUME NEW d \in Deliveries, Acquire(d) \/ HandlersEnd(d) PROVE GoneInv'
    <2>1. PICK to \in {"handle", "finish"} :
            call' = [call EXCEPT ![d] = to] /\ call[d] # "none"
      BY <1>8 DEF Acquire, HandlersEnd
    <2> QED
      BY <1>0, <1>8, <2>1, GoneCall DEF Acquire, HandlersEnd
  <1>9. ASSUME NEW d \in Deliveries, Finish(d) PROVE GoneInv'
    <2>1. Undisturbed => receiving = Topics
      BY <1>9 DEF GoneInv, Finish
    <2>2. Undisturbed /\ AutoACK[Topic(d)] => d \in acked'
      BY <1>9, <2>1, DeliveryType DEF Finish, Undisturbed
    <2> QED
      BY <1>0, <1>9, <2>2, GoneCall DEF Finish
  <1>10. ASSUME NEW d \in Deliveries, Release(d) PROVE GoneInv'
    <2>1. Undisturbed /\ AutoACK[Topic(d)] => d \in acked
      BY <1>10 DEF GoneInv, Release
    <2> QED
      BY <1>0, <1>10, <2>1, GoneCall DEF Release, histories
  <1>11. ASSUME Exit \/ \E d \in Deliveries : PanicEnds(d) PROVE GoneInv'
    <2>1. ~ Undisturbed'
      BY <1>11 DEF Exit, PanicEnds, Die, Undisturbed
    <2> QED
      BY <2>1 DEF GoneInv
  <1>12. CASE UNCHANGED vars
    BY <1>12 DEF vars, GoneInv, Undisturbed, Topic, histories
  <1> QED
    BY <1>1, <1>2, <1>3, <1>4, <1>5, <1>6, <1>7, <1>8, <1>9, <1>10, <1>11, <1>12
       DEF Next, CallNext

\* The inductive invariant, with what a call and Shutdown find.
THEOREM GcpStandInductive == Spec => [](IInv /\ StandInv)
  <1>1. Init => StandInv
    BY DEF Init, StandInv, StopInv, GoneInv, Undisturbed
  <1>2. IInv /\ StandInv /\ [Next]_vars => StandInv'
    BY StopStep, GoneStep DEF StandInv
  <1> QED
    BY <1>1, <1>2, GcpInductive, PTL DEF Spec

\* The constructor finds the next topic or subscription to look for.
LEMMA SetUpGoesOn == TypeOK /\ serve = "down" => CanSetUp
  <1> SUFFICES ASSUME TypeOK, serve = "down", ready # Resources, creating = {}
               PROVE  \E r \in Resources : Due(r)
    BY DEF TypeOK, CanSetUp
  <1>1. PICK r \in Resources : r \notin ready
    BY DEF TypeOK
  <1>2. CASE \A t \in Topics : <<"topic", t>> \in ready => <<"subscription", t>> \in ready
    <2>1. PICK t \in Topics : r = <<"topic", t>> \/ r = <<"subscription", t>>
      BY DEF Resources
    <2>2. <<"topic", t>> \in Resources /\ <<"topic", t>> \notin ready
      BY <1>1, <1>2, <2>1 DEF Resources
    <2> QED
      BY <1>2, <2>2 DEF Due
  <1>3. ASSUME NEW t \in Topics, <<"topic", t>> \in ready, <<"subscription", t>> \notin ready
        PROVE  \E s \in Resources : Due(s)
    <2>1. <<"subscription", t>> \in Resources
      BY DEF Resources
    <2> QED
      BY <1>3, <2>1 DEF Due
  <1> QED
    BY <1>2, <1>3

\* A call that waits for the slot of its topic waits for a job that can go on.
LEMMA CallGoesOn ==
  ASSUME IInv, NEW d \in Deliveries, call[d] \notin {"none", "over"}
  PROVE  \E e \in Deliveries : Topic(e) = Topic(d) /\ CanCall(e)
  <1>1. Topic(d) \in Topics /\ call[d] \in CallStates
    BY DeliveryType DEF IInv, TypeOK
  <1>2. CASE SlotFree(Topic(d)) \/ call[d] # "acquire"
    BY <1>1, <1>2 DEF CanCall, CallStates, JobStates
  <1>3. CASE ~ SlotFree(Topic(d))
    <2>1. PICK e \in Deliveries : Jobs(Topic(d)) = {e}
      BY <1>1, <1>3 DEF IInv, SlotInv, SlotFree
    <2>2. e \in Jobs(Topic(d))
      BY <2>1
    <2> QED
      BY <2>2 DEF Jobs, CanCall, JobStates
  <1> QED
    BY <1>2, <1>3

\* What keeps the constructor, a call or Shutdown waiting can always go on.
LEMMA Standing == IInv /\ StandInv => NoStandstill
  <1> SUFFICES ASSUME IInv, StandInv PROVE NoStandstill
    OBVIOUS
  <1>1. serve = "down" => CanSetUp
    BY SetUpGoesOn DEF IInv
  <1>2. \A d \in Deliveries :
           call[d] = "acquire" => \E e \in Deliveries : Topic(e) = Topic(d) /\ CanCall(e)
    BY CallGoesOn
  <1>3. stop \in {"cancelled", "met"} /\ serve # "exited" => CanStop \/ CanSetUp
    BY DEF StandInv, StopInv, CanStop, CanSetUp
  <1>4. ASSUME Undisturbed, serve # "down", NEW m \in Msgs, AutoACK[TopicOf[m]], ~ Settled(m)
        PROVE  \E d \in Deliveries :
                  Topic(d) = TopicOf[m] /\ (CanDeliver(d) \/ CanCall(d))
    <2> DEFINE d == <<m, 1>>
    <2>1. MaxDeliveries[m] \in Nat \ {0}
      BY GcpBoundAssumption
    <2>2. d \in Deliveries /\ d[1] = m /\ d[2] = 1 /\ Topic(d) = TopicOf[m]
      BY <2>1 DEF Deliveries, Topic
    <2>3. ~ cancelled /\ receiving = Topics
      BY <1>4 DEF StandInv, StopInv, GoneInv, Undisturbed
    <2>4. Topic(d) \in Topics
      BY <2>2, DeliveryType
    <2>5. CASE call[d] = "none"
      <3>1. \A n \in 1..(d[2] - 1) : call[<<d[1], n>>] # "none"
        BY <2>2
      <3>2. CanDeliver(d)
        BY <1>4, <2>2, <2>3, <2>4, <2>5, <3>1 DEF CanDeliver
      <3> QED
        BY <2>2, <3>2
    <2>6. CASE call[d] = "over"
      BY <1>4, <2>2, <2>6 DEF StandInv, GoneInv, Settled
    <2>7. CASE call[d] \notin {"none", "over"}
      BY <2>2, <2>7, CallGoesOn
    <2> QED
      BY <2>5, <2>6, <2>7
  <1> QED
    BY <1>1, <1>2, <1>3, <1>4 DEF NoStandstill

\* The worker never stands still: neither while it starts, in whatever order other pods
\* create what it needs, nor at a slot, nor on its way down, nor with a message left.
THEOREM GcpNoStandstill == Spec => []NoStandstill
  BY GcpStandInductive, Standing, PTL
=============================================================================
