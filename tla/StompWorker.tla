---------------------------- MODULE StompWorker ----------------------------
(***************************************************************************)
(* The STOMP worker (stomp-broker/consumer.go) on several pods of one      *)
(* service, with the broker and the shared locker it talks to.             *)
(*                                                                         *)
(* Per pod three kinds of goroutine interleave: Serve (variables serve,    *)
(* cur), one job per message Serve spawned (job), and Shutdown (stop).     *)
(* They share the semaphores (sem), the WaitGroup (wg), the buffered       *)
(* shutdown channel (token) and the plain boolean isShutdown (flag), which *)
(* is written and read with no synchronisation at all.                     *)
(*                                                                         *)
(* External, modelled from how the code uses them: the broker with its     *)
(* cumulative client acknowledgement, the connection, which is never       *)
(* reopened, and the locker, whose IsLocked is a test-and-set.             *)
(***************************************************************************)
EXTENDS Integers, Sequences, FiniteSets, Functions

CONSTANTS
    Pods,          \* instances of the service
    Topics,        \* mounted patterns, one subscription each
    Msgs,          \* messages published to those patterns
    TopicOf,       \* header destination of each message
    EventOf,       \* header stompEventID of each message, or NoEvent
    NoEvent,       \* a message of a producer that sets no event id
    AutoACK,       \* WorkerHandler.AutoACK of each pattern
    SharedLocker,  \* TRUE: SetLocker was used, FALSE: the default NoopLocker
    ErrFrame,      \* the message with only an Err the client library delivers
    None,          \* no message
    Prefetch,      \* bound: unacknowledged messages per subscription
    MaxFaults,     \* bound: crashes and lost connections of a behaviour
    Stoppable      \* bound: the pods that may be asked to shut down

ASSUME MsgsAssumption == IsFiniteSet(Msgs) /\ ErrFrame \notin Msgs /\ None \notin Msgs
ASSUME TopicAssumption == TopicOf \in [Msgs -> Topics] /\ None \notin Topics
ASSUME OptionAssumption == SharedLocker \in BOOLEAN /\ AutoACK \in [Topics -> BOOLEAN]
ASSUME BoundAssumption == Prefetch \in Nat \ {0} /\ MaxFaults \in Nat /\ Stoppable \subseteq Pods

VARIABLES
    serve,     \* where Serve is
    cur,       \* the message Serve received last
    inbox,     \* subscription channels
    conn,      \* TRUE while the connection of the pod is up
    sem,       \* slots in use of the semaphore of each topic
    token,     \* tokens in the shutdown channel, of capacity 1
    flag,      \* isShutdown
    stop,      \* where Shutdown is
    wg,        \* counter of the WaitGroup
    job,       \* where the goroutine of each message is
    late,      \* history: jobs spawned after Shutdown had sent its token
    locked,    \* events the locker holds
    leaked,    \* history: events whose holder died without Unlock
    queue,     \* messages the broker has still to dispatch
    unacked,   \* messages dispatched and not acknowledged, in order
    begun,     \* history: messages whose handlers were started
    handled,   \* history: messages whose handlers returned
    acked,     \* history: messages the broker will not deliver again
    faults     \* crashes and lost connections so far

serveVars  == <<serve, cur>>
stopVars   == <<token, flag, stop>>
jobVars    == <<job, wg, late>>
lockVars   == <<locked, leaked>>
brokerVars == <<queue, unacked, acked>>
workVars   == <<begun, handled>>
vars == <<serveVars, inbox, conn, sem, stopVars, jobVars, lockVars,
          brokerVars, workVars, faults>>

ServeStates == {"down", "poll", "select", "acquire", "check", "spawn", "returned"}
StopStates  == {"idle", "sent", "flagged", "asleep", "woken", "returned"}
JobStates   == {"none", "begin", "handle", "ack", "unlock", "done", "release"}

Keys(m) == IF SharedLocker /\ EventOf[m] # NoEvent THEN {EventOf[m]} ELSE {}
Dest(c) == IF c \in Msgs THEN TopicOf[c] ELSE None

Jobs(p)    == {m \in Msgs : job[p][m] # "none"}
Counted(p) == {m \in Msgs : job[p][m] \notin {"none", "release"}}
Holding(p) == {m \in Msgs : job[p][m] \in {"handle", "ack", "unlock"}}

TypeOK ==
    /\ serve \in [Pods -> ServeStates]
    /\ cur \in [Pods -> Msgs \cup {None, ErrFrame}]
    /\ inbox \in [Pods -> [Topics -> Seq(Msgs \cup {ErrFrame})]]
    /\ conn \in [Pods -> BOOLEAN]
    /\ sem \in [Pods -> [Topics -> 0..1]]
    /\ token \in [Pods -> 0..1]
    /\ flag \in [Pods -> BOOLEAN]
    /\ stop \in [Pods -> StopStates]
    /\ wg \in [Pods -> Nat]
    /\ job \in [Pods -> [Msgs -> JobStates]]
    /\ late \in [Pods -> SUBSET Msgs]
    /\ locked \in SUBSET {EventOf[m] : m \in Msgs}
    /\ leaked \in SUBSET {EventOf[m] : m \in Msgs}
    /\ queue \in SUBSET Msgs
    /\ unacked \in [Pods -> [Topics -> Seq(Msgs)]]
    /\ begun \in SUBSET Msgs
    /\ handled \in SUBSET Msgs
    /\ acked \in SUBSET Msgs
    /\ faults \in 0..MaxFaults

Init ==
    /\ serve = [p \in Pods |-> "down"]
    /\ cur = [p \in Pods |-> None]
    /\ inbox = [p \in Pods |-> [t \in Topics |-> <<>>]]
    /\ conn = [p \in Pods |-> FALSE]
    /\ sem = [p \in Pods |-> [t \in Topics |-> 0]]
    /\ token = [p \in Pods |-> 0]
    /\ flag = [p \in Pods |-> FALSE]
    /\ stop = [p \in Pods |-> "idle"]
    /\ wg = [p \in Pods |-> 0]
    /\ job = [p \in Pods |-> [m \in Msgs |-> "none"]]
    /\ late = [p \in Pods |-> {}]
    /\ locked = {} /\ leaked = {}
    /\ queue = Msgs
    /\ unacked = [p \in Pods |-> [t \in Topics |-> <<>>]]
    /\ begun = {} /\ handled = {} /\ acked = {}
    /\ faults = 0

-----------------------------------------------------------------------------
(* Serve *)

Goto(p, s) == serve' = [serve EXCEPT ![p] = s]

\* NewSTOMPWorker subscribes to every pattern on the connection the broker was
\* given and makes its semaphore; the pod then calls Serve.  A constructor that
\* panics, as it does when a pattern is mounted twice or cannot be subscribed to,
\* leaves the pod as it is: down.
Start(p) ==
    /\ serve[p] = "down"
    /\ Goto(p, "poll")
    /\ conn' = [conn EXCEPT ![p] = TRUE]
    /\ UNCHANGED <<cur, inbox, sem, stopVars, jobVars, lockVars, brokerVars,
                   workVars, faults>>

\* Variant: the shutdown channel is never looked at.
PollBlind(p) ==
    /\ serve[p] = "poll"
    /\ Goto(p, "select")
    /\ UNCHANGED <<cur, inbox, conn, sem, stopVars, jobVars, lockVars,
                   brokerVars, workVars, faults>>

\* The non-blocking receive from the shutdown channel.
Poll(p) ==
    /\ serve[p] = "poll"
    /\ Goto(p, IF token[p] = 1 THEN "returned" ELSE "select")
    /\ token' = [token EXCEPT ![p] = 0]
    /\ UNCHANGED <<cur, inbox, conn, sem, flag, stop, jobVars, lockVars,
                   brokerVars, workVars, faults>>

\* reflect.Select returns a value of any ready subscription.
Select(p, t) ==
    /\ serve[p] = "select"
    /\ inbox[p][t] # <<>>
    /\ cur' = [cur EXCEPT ![p] = Head(inbox[p][t])]
    /\ inbox' = [inbox EXCEPT ![p][t] = Tail(@)]
    /\ Goto(p, "acquire")
    /\ UNCHANGED <<conn, sem, stopVars, jobVars, lockVars, brokerVars,
                   workVars, faults>>

\* A closed channel is always ready and yields !ok: Serve goes round again.
SelectClosed(p) ==
    /\ serve[p] = "select"
    /\ ~ conn[p]
    /\ \E t \in Topics : inbox[p][t] = <<>>
    /\ Goto(p, "poll")
    /\ UNCHANGED <<cur, inbox, conn, sem, stopVars, jobVars, lockVars,
                   brokerVars, workVars, faults>>

\* Variant: semaphores with room for two.
SlotFreeTwo(p, t) == sem[p][t] < 2

SlotFree(p, t) == sem[p][t] < 1

\* The send on the semaphore of the destination.  It blocks Serve, whatever the
\* other topics hold, while a job of that topic runs, and for ever when the
\* destination has no semaphore: a send on the nil channel of a missing key.
Acquire(p) ==
    /\ serve[p] = "acquire"
    /\ LET t == Dest(cur[p]) IN
          /\ t \in Topics
          /\ SlotFree(p, t)
          /\ sem' = [sem EXCEPT ![p][t] = @ + 1]
    /\ Goto(p, "check")
    /\ UNCHANGED <<cur, inbox, conn, stopVars, jobVars, lockVars, brokerVars,
                   workVars, faults>>

\* isShutdown is read with no synchronisation: a write by Shutdown may or may
\* not be seen.  When it is, Serve returns with the slot taken and the message
\* neither processed nor acknowledged.
CheckShutdown(p) ==
    /\ serve[p] = "check"
    /\ \E seen \in {FALSE, flag[p]} :
          Goto(p, IF seen THEN "returned" ELSE "spawn")
    /\ UNCHANGED <<cur, inbox, conn, sem, stopVars, jobVars, lockVars,
                   brokerVars, workVars, faults>>

\* wg.Add(1) and the go statement.  A waiter the counter has let go, and which has
\* not looked at it again, finds it raised when it does.
Spawn(p) ==
    /\ serve[p] = "spawn"
    /\ stop' = [stop EXCEPT ![p] = IF @ = "asleep" /\ wg[p] = 0 THEN "woken" ELSE @]
    /\ wg' = [wg EXCEPT ![p] = @ + 1]
    /\ job' = [job EXCEPT ![p][cur[p]] = "begin"]
    /\ late' = [late EXCEPT ![p] = IF stop[p] = "idle" THEN @ ELSE @ \cup {cur[p]}]
    /\ cur' = [cur EXCEPT ![p] = None]
    /\ Goto(p, "poll")
    /\ UNCHANGED <<inbox, conn, sem, token, flag, lockVars, brokerVars,
                   workVars, faults>>

-----------------------------------------------------------------------------
(* processMessage and the goroutine around it *)

Step(p, m, from, to) ==
    /\ job[p][m] = from
    /\ job' = [job EXCEPT ![p][m] = to]

\* Variant: the slot is released by a defer registered after the lock check.
SkipKeepingSlot(p, m) ==
    /\ Step(p, m, "begin", "none")
    /\ Keys(m) \cap locked # {}
    /\ wg' = [wg EXCEPT ![p] = @ - 1]
    /\ UNCHANGED <<serveVars, inbox, conn, sem, stopVars, late, lockVars,
                   brokerVars, workVars, faults>>

\* Variant: the return at a taken lock calls wg.Done, as its caller does.
SkipDone(p, m) ==
    /\ Step(p, m, "begin", "done")
    /\ Keys(m) \cap locked # {}
    /\ wg' = [wg EXCEPT ![p] = @ - 1]
    /\ UNCHANGED <<serveVars, inbox, conn, sem, stopVars, late, lockVars,
                   brokerVars, workVars, faults>>

\* Variant: Unlock is deferred before IsLocked is called.
SkipUnlocking(p, m) ==
    /\ Step(p, m, "begin", "done")
    /\ Keys(m) \cap locked # {}
    /\ locked' = locked \ Keys(m)
    /\ UNCHANGED <<serveVars, inbox, conn, sem, stopVars, wg, late, leaked,
                   brokerVars, workVars, faults>>

\* IsLocked says that another worker has the event: processMessage returns
\* before it registers Unlock and before it registers the acknowledgement.
Skip(p, m) ==
    /\ Step(p, m, "begin", "done")
    /\ Keys(m) \cap locked # {}
    /\ UNCHANGED <<serveVars, inbox, conn, sem, stopVars, wg, late, lockVars,
                   brokerVars, workVars, faults>>

\* Variant: a locker that only reads in IsLocked, and sets the lock afterwards.
BeginReadOnly(p, m) ==
    /\ Step(p, m, "begin", "handle")
    /\ locked' = locked \cup Keys(m)
    /\ begun' = begun \cup {m}
    /\ UNCHANGED <<serveVars, inbox, conn, sem, stopVars, wg, late, leaked,
                   brokerVars, handled, faults>>

\* IsLocked takes the lock and says that nobody had it; the handlers start.
Begin(p, m) ==
    /\ Step(p, m, "begin", "handle")
    /\ Keys(m) \cap locked = {}
    /\ locked' = locked \cup Keys(m)
    /\ begun' = begun \cup {m}
    /\ UNCHANGED <<serveVars, inbox, conn, sem, stopVars, wg, late, leaked,
                   brokerVars, handled, faults>>

\* The handlers are through: all were called, whatever errors they returned, or
\* one panicked and the deferred function recovers.
HandlersReturn(p, m) ==
    /\ Step(p, m, "handle", "ack")
    /\ handled' = handled \cup {m}
    /\ UNCHANGED <<serveVars, inbox, conn, sem, stopVars, wg, late, lockVars,
                   brokerVars, begun, faults>>

\* The broker's client mode: an acknowledgement settles the message and every
\* message dispatched before it on the same subscription.  How many that is; none
\* when the broker has taken the message back.
Settles(p, m) ==
    LET s == unacked[p][TopicOf[m]]
        at == {k \in 1..Len(s) : s[k] = m}
    IN IF at = {} THEN 0 ELSE CHOOSE k \in at : TRUE

\* The deferred Ack.  On a lost connection it fails and the error is dropped.
AutoAck(p, m) ==
    /\ Step(p, m, "ack", "unlock")
    /\ LET t == TopicOf[m]
           s == unacked[p][t]
           n == IF AutoACK[t] /\ conn[p] THEN Settles(p, m) ELSE 0
       IN /\ acked' = acked \cup {s[i] : i \in 1..n}
          /\ unacked' = [unacked EXCEPT ![p][t] = SubSeq(s, n + 1, Len(s))]
    /\ UNCHANGED <<serveVars, inbox, conn, sem, stopVars, wg, late, lockVars,
                   queue, workVars, faults>>

\* Variant: Unlock as a last statement, which a panic of a handler skips.
UnlockUnlessPanic(p, m) ==
    /\ Step(p, m, "unlock", "done")
    /\ locked' \in {locked, locked \ Keys(m)}
    /\ UNCHANGED <<serveVars, inbox, conn, sem, stopVars, wg, late, leaked,
                   brokerVars, workVars, faults>>

\* The deferred Unlock.
Unlock(p, m) ==
    /\ Step(p, m, "unlock", "done")
    /\ locked' = locked \ Keys(m)
    /\ UNCHANGED <<serveVars, inbox, conn, sem, stopVars, wg, late, leaked,
                   brokerVars, workVars, faults>>

\* Variant: wg.Done is forgotten.
WgDoneForgotten(p, m) ==
    /\ Step(p, m, "done", "release")
    /\ UNCHANGED <<serveVars, inbox, conn, sem, stopVars, wg, late, lockVars,
                   brokerVars, workVars, faults>>

\* processMessage has returned: wg.Done ...
WgDone(p, m) ==
    /\ Step(p, m, "done", "release")
    /\ wg' = [wg EXCEPT ![p] = @ - 1]
    /\ UNCHANGED <<serveVars, inbox, conn, sem, stopVars, late, lockVars,
                   brokerVars, workVars, faults>>

\* Variant: a panic that processMessage does not recover leaves the slot taken.
ReleaseUnlessPanic(p, m) ==
    /\ Step(p, m, "release", "none")
    /\ sem' \in {sem, [sem EXCEPT ![p][TopicOf[m]] = @ - 1]}
    /\ UNCHANGED <<serveVars, inbox, conn, stopVars, wg, late, lockVars,
                   brokerVars, workVars, faults>>

\* ... and then the receive that frees the slot.
Release(p, m) ==
    /\ Step(p, m, "release", "none")
    /\ sem' = [sem EXCEPT ![p][TopicOf[m]] = @ - 1]
    /\ UNCHANGED <<serveVars, inbox, conn, stopVars, wg, late, lockVars,
                   brokerVars, workVars, faults>>

-----------------------------------------------------------------------------
(* Shutdown *)

\* The shutdown channel has room for the token: the send does not block.
SendToken(p) ==
    /\ p \in Stoppable
    /\ serve[p] # "down"
    /\ stop[p] = "idle"
    /\ stop' = [stop EXCEPT ![p] = "sent"]
    /\ token' = [token EXCEPT ![p] = 1]
    /\ UNCHANGED <<serveVars, inbox, conn, sem, flag, jobVars, lockVars,
                   brokerVars, workVars, faults>>

SetFlag(p) ==
    /\ stop[p] = "sent"
    /\ stop' = [stop EXCEPT ![p] = "flagged"]
    /\ flag' = [flag EXCEPT ![p] = TRUE]
    /\ UNCHANGED <<serveVars, inbox, conn, sem, token, jobVars, lockVars,
                   brokerVars, workVars, faults>>

\* Variant: Shutdown does not wait.
WaitDoneAtOnce(p) ==
    /\ stop[p] = "flagged"
    /\ stop' = [stop EXCEPT ![p] = "returned"]
    /\ UNCHANGED <<serveVars, inbox, conn, sem, token, flag, jobVars, lockVars,
                   brokerVars, workVars, faults>>

\* wg.Wait goes to sleep while the counter is positive: the wg.Done that brings it to
\* zero lets the waiter go.
Wait(p) ==
    /\ stop[p] = "flagged"
    /\ wg[p] > 0
    /\ stop' = [stop EXCEPT ![p] = "asleep"]
    /\ UNCHANGED <<serveVars, inbox, conn, sem, token, flag, jobVars, lockVars,
                   brokerVars, workVars, faults>>

\* wg.Wait finds the counter at zero, and Shutdown returns.
WaitDone(p) ==
    /\ stop[p] \in {"flagged", "asleep", "woken"}
    /\ wg[p] = 0
    /\ stop' = [stop EXCEPT ![p] = "returned"]
    /\ UNCHANGED <<serveVars, inbox, conn, sem, token, flag, jobVars, lockVars,
                   brokerVars, workVars, faults>>

-----------------------------------------------------------------------------
(* The broker, the connection and the processes *)

InFlight(p) == UNION {Range(unacked[p][t]) : t \in Topics}

\* The broker sends a message to one of the connections subscribed to its topic.
Dispatch(p, m) ==
    LET t == TopicOf[m] IN
    /\ conn[p]
    /\ m \in queue
    /\ Len(unacked[p][t]) < Prefetch
    /\ queue' = queue \ {m}
    /\ inbox' = [inbox EXCEPT ![p][t] = Append(@, m)]
    /\ unacked' = [unacked EXCEPT ![p][t] = Append(@, m)]
    /\ UNCHANGED <<serveVars, conn, sem, stopVars, jobVars, lockVars, acked,
                   workVars, faults>>

\* The connection is lost: the broker takes back what was not acknowledged and
\* the client library closes every subscription channel, after a message with
\* only an Err or without one.  The code never opens another connection.
Drop(p) ==
    /\ conn[p]
    /\ faults < MaxFaults
    /\ faults' = faults + 1
    /\ conn' = [conn EXCEPT ![p] = FALSE]
    /\ queue' = queue \cup InFlight(p)
    /\ unacked' = [unacked EXCEPT ![p] = [t \in Topics |-> <<>>]]
    /\ \E last \in {<<>>, <<ErrFrame>>} :
          inbox' = [inbox EXCEPT ![p] = [t \in Topics |-> inbox[p][t] \o last]]
    /\ UNCHANGED <<serveVars, sem, stopVars, jobVars, lockVars, acked, workVars>>

\* The process ends: its memory and its connection are gone, its locks stay.
Die(p) ==
    /\ serve' = [serve EXCEPT ![p] = "down"]
    /\ cur' = [cur EXCEPT ![p] = None]
    /\ inbox' = [inbox EXCEPT ![p] = [t \in Topics |-> <<>>]]
    /\ conn' = [conn EXCEPT ![p] = FALSE]
    /\ sem' = [sem EXCEPT ![p] = [t \in Topics |-> 0]]
    /\ token' = [token EXCEPT ![p] = 0]
    /\ flag' = [flag EXCEPT ![p] = FALSE]
    /\ stop' = [stop EXCEPT ![p] = "idle"]
    /\ wg' = [wg EXCEPT ![p] = 0]
    /\ job' = [job EXCEPT ![p] = [m \in Msgs |-> "none"]]
    /\ late' = [late EXCEPT ![p] = {}]
    /\ leaked' = leaked \cup UNION {Keys(m) : m \in Holding(p)}
    /\ queue' = queue \cup InFlight(p)
    /\ unacked' = [unacked EXCEPT ![p] = [t \in Topics |-> <<>>]]
    /\ UNCHANGED <<locked, acked, workVars>>

Crash(p) ==
    /\ serve[p] # "down"
    /\ faults < MaxFaults
    /\ faults' = faults + 1
    /\ Die(p)

\* A waiter that was let go and finds the counter raised panics, and so the process:
\* "WaitGroup is reused before previous Wait has returned".
WaitPanics(p) == stop[p] = "woken" /\ wg[p] > 0

\* The application ends once Shutdown has returned or panicked.
Exit(p) ==
    /\ stop[p] = "returned" \/ WaitPanics(p)
    /\ Die(p)
    /\ UNCHANGED faults

-----------------------------------------------------------------------------
ServeNext(p) ==
    \/ Start(p) \/ Poll(p) \/ SelectClosed(p) \/ Acquire(p)
    \/ CheckShutdown(p) \/ Spawn(p)
    \/ \E t \in Topics : Select(p, t)

JobNext(p, m) ==
    \/ Skip(p, m) \/ Begin(p, m) \/ HandlersReturn(p, m) \/ AutoAck(p, m)
    \/ Unlock(p, m) \/ WgDone(p, m) \/ Release(p, m)

StopNext(p) == SendToken(p) \/ SetFlag(p) \/ Wait(p) \/ WaitDone(p)

Next ==
    \E p \in Pods :
        \/ ServeNext(p)
        \/ \E m \in Msgs : JobNext(p, m) \/ Dispatch(p, m)
        \/ StopNext(p)
        \/ Drop(p) \/ Crash(p) \/ Exit(p)

Spec == Init /\ [][Next]_vars
-----------------------------------------------------------------------------
(* Properties *)

\* The topics' semaphores are exact: a slot is in use iff a job of the topic has
\* not released it or Serve holds it, between taking it and handing it to a job
\* or after returning at isShutdown.  No path through processMessage leaks one.
Owners(p, t) ==
    {m \in Msgs : /\ TopicOf[m] = t
                  /\ \/ job[p][m] # "none"
                     \/ cur[p] = m /\ serve[p] \in {"check", "spawn", "returned"}}

SlotsAccounted ==
    \A p \in Pods, t \in Topics : sem[p][t] = Cardinality(Owners(p, t))

\* While the connection is up the messages of one topic are worked on one at a
\* time and in the order of the broker: when a message has reached a job, every
\* message dispatched before it has left the subscription channel and its job.
Waiting(p, t) == Range(inbox[p][t]) \cup {cur[p]}

TopicOrder ==
    \A p \in Pods, t \in Topics :
        conn[p] =>
            \A i, j \in 1..Len(unacked[p][t]) :
                LET m == unacked[p][t][i]
                    n == unacked[p][t][j]
                IN i < j /\ job[p][n] # "none"
                     => job[p][m] = "none" /\ m \notin Waiting(p, t)

\* With a shared locker no two jobs, of one pod or of several, are between
\* IsLocked and Unlock for one event: "lock for multiple worker".
LockExclusion ==
    \A p, q \in Pods : \A m \in Holding(p), n \in Holding(q) :
        <<p, m>> # <<q, n>> => Keys(m) \cap Keys(n) = {}

\* The locker holds an event exactly while a job holds it, unless the process of
\* the holder died: neither skipping, nor an error, nor a panic of a handler
\* leaves a lock behind, and nobody unlocks the event of another.
LocksAccounted ==
    locked = leaked \cup UNION {Keys(m) : m \in UNION {Holding(p) : p \in Pods}}

\* Serve hands at most one message to a job after Shutdown has sent its token:
\* the channel is buffered, so Serve finds the token at its next round.
AtMostOneLate == \A p \in Pods : Cardinality(late[p]) <= 1

\* When Shutdown returns, every job spawned before it was called has ended.
ShutdownWaits ==
    \A p \in Pods : stop[p] = "returned" => Counted(p) \subseteq late[p]

\* What line 132 says Shutdown does, "waiting %d job until done...": no job is
\* running once it has returned.  The code does not keep it: wg.Add races with
\* wg.Wait, and isShutdown with its unsynchronised write.
NoJobAfterShutdown == \A p \in Pods : stop[p] = "returned" => Counted(p) = {}

\* A message the broker drops for good was worked on: its handlers returned, or
\* it was skipped because those of a message with its event had been started.
\* The acknowledgement is cumulative, so this rests on TopicOrder.
AckedWasWorked ==
    \A m \in acked : \/ m \in handled
                     \/ \E n \in begun : Keys(m) \cap Keys(n) # {}

\* The worker implements the abstract consumer.
Consumer == INSTANCE ExclusiveConsumer WITH
    KeyOf   <- [m \in Msgs |-> Keys(m)],
    holding <- {h \in Pods \X Msgs : h[2] \in Holding(h[1])}

ConsumerSpec == Consumer!Spec

-----------------------------------------------------------------------------
(* Fairness and liveness *)

\* The Go scheduler runs Serve, Shutdown and the jobs as long as one of them can run,
\* handlers terminate, the pod is started (again) by whoever deploys it, and the broker
\* goes on dispatching.  This is less than Go and a broker give: fairness to each job,
\* each message and each ready channel of reflect.Select is not needed where the
\* messages are finitely many.  Nothing forces a shutdown, a crash, a lost connection,
\* or the end of the application.
Fairness ==
    /\ \A p \in Pods :
          /\ WF_vars(ServeNext(p))
          /\ WF_vars(SetFlag(p) \/ Wait(p) \/ WaitDone(p))
          /\ WF_vars(\E m \in Msgs : JobNext(p, m))
    /\ WF_vars(\E p \in Pods, m \in Msgs : Dispatch(p, m))

FairSpec == Spec /\ Fairness

\* Shutdown returns, or the process ends: the token never blocks, and the jobs it waits
\* for end even when Serve is stuck on a destination without semaphore.
ShutdownReturns ==
    \A p \in Pods : stop[p] = "sent" ~> stop[p] = "returned" \/ serve[p] = "down"

\* Unless something fails or somebody shuts down again and again, every message of an
\* AutoACK topic is acknowledged in the end, though all topics share one goroutine that
\* waits for the slot of whichever message it received.  Not so once a process has died
\* with a lock, be it a late job of an orderly exit: the lock has no expiry in this
\* code, every redelivery is skipped, and the messages so skipped can fill the window of
\* their subscription and hold up the others.
Undisturbed == faults = 0 /\ leaked = {} /\ \A p \in Pods : stop[p] = "idle"

EventuallyAcked ==
    []<>(~ Undisturbed \/ \A m \in Msgs : AutoACK[TopicOf[m]] => m \in acked)
=============================================================================
