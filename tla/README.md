# A verification development for candi-plugin

`candi-plugin` is a collection of Go plugins for the candi framework: broker
workers (STOMP, Google Cloud Pub/Sub, MQTT, Amazon SQS), peer-to-peer servers
over UDP and TCP, two REST servers, database adaptors, a circuit breaker and a
Sentry tracer.  Each plugin is a Go module of its own.  They share no state with
each other; they share the shape of their life cycle: candi calls the
constructor, then `Serve` in a goroutine, and `Shutdown` when the process is
asked to stop, after which the process exits.

This directory holds TLA+ models of the plugins whose correctness depends on the
order of events, the TLC configurations that check them, and proofs checked by
TLAPS.  `PROJECT.json` links every definition to the lines it models, every
property to a mutation of the code that breaks it, and lists the hazards of the
code line by line.

- [Inventory](#inventory)
- [Modules](#modules)
- [Runs](#runs-and-what-they-show)
- [Findings](#findings)
- [Fairness](#fairness)
- [Proofs](#proofs)
- [What is not modelled](#what-is-not-modelled)
- [Plan](#plan)

## Inventory

| component | state | operations | what is hard |
|---|---|---|---|
| STOMP worker, `stomp-broker/consumer.go` | one subscription channel and one semaphore of capacity 1 per topic, a buffered shutdown channel, the plain boolean `isShutdown`, a WaitGroup, a locker shared by all pods | `Serve` selects over all subscriptions and the shutdown channel, one goroutine per message runs the handlers, `Shutdown` | three kinds of goroutines, an unsynchronised flag, `wg.Add` against `wg.Wait`, cumulative acknowledgement, locks that outlive a process, a lost connection |
| GCP Pub/Sub worker, `gcppubsub/consumer.go` | topics and subscriptions of the service, root context, one semaphore per topic, an unbuffered shutdown channel | constructor creates what is missing, `Serve` starts one `Receive` per topic, `processMessage` per delivery, a goroutine per job, `Shutdown` | pods that start together, redelivery while a job runs, cancellation during the wait for a slot, acknowledgement inside a tracer option |
| Sentry tracer, `tracer/sentrytracer` | the span | `StartSpan`, `Finish` | `Finish` ignores its options, and the workers acknowledge and recover in them |
| P2P UDP server, `p2p/udp.go` | the socket, one read buffer, a semaphore of client slots | `Serve`, a goroutine per datagram, `Shutdown` | the buffer is shared by the reader and all goroutines |
| P2P TCP server and sender, `p2p/tcp.go`, `p2p/context.go`, `p2p/sender` | the listener, a semaphore of client slots, half-closed connections, the buffer of a sender | accept loop with `readAllRequest`, a goroutine per connection, `Write`, `Send` | the request is read in the accept loop; both ends use the end of the stream as the end of a message; a sender can be used once |
| MQTT router, `mqtt-broker/router.go` | a tree of topic levels with static and parameter nodes | `addRoute`, `match` | shared nodes, order of mounting, static children beside parameters |
| MQTT subscriber, `mqtt-broker/subscriber.go`, `broker.go`, `publisher.go` | root context, WaitGroup, unbuffered shutdown channel; the client, its connection and the session, shared with the publisher | `Serve` subscribes, `processMessage` on callbacks, `Shutdown` | messages before `Serve` has subscribed, overlapping subscriptions, a message between `wg.Wait` and the cancellation, handlers that publish |
| Amazon SQS worker, `amazonsqs/consumer.go` | one received batch per queue, semaphores, `isShutdown`, WaitGroup | constructor receives, `Serve` works the batches, `Shutdown` | nil maps in the constructor, a recovery that is not deferred |
| Echo REST server, `echo-rest` | options, routers handed to modules, route table, listener | `Serve`, `Shutdown`, groups, middlewares, error handler | which middlewares a route gets, who answers an error or a panic, and how often |
| Fiber REST server, `fiber-rest` | the same | the same | middlewares match by prefix in the order of mounting; only one of them recovers from panics |
| Oracle and ArangoDB adaptors | two connection pools | connect, `Health`, `Disconnect` | one of two pools fails |
| Hystrix circuit breaker | a command name | options and `Do` | none here, the state machine is hystrix's |
| dashboard assets | none | none | generated |

Interactions.  A worker talks to its broker through a client library (channels,
callbacks), to handlers of the application, to the tracer, and, in the case of
STOMP, to a locker such as Redis that all pods of the service share.  Handlers
return an error or panic; both are recorded in the trace and the message counts
as worked on.  Publishers are stateless; the STOMP publisher gives every message
an event id, by which the worker locks.

What makes each component correct:

- a worker: one job at a time per topic; no slot, lock or WaitGroup count lost on
  any path; nothing acknowledged that nobody worked on; Shutdown does not hang, and
  waits for what it says it waits for; an undisturbed message is acknowledged;
- the UDP server: slots come back, answers go home, a handler sees the message
  of its own client;
- the TCP server: slots come back, a handler sees the whole request of its own
  client and nothing else, a client reads the whole response or an error and
  never both, unless something cuts the connection off, every `Send` returns;
- the router: a topic is given to a handler of a pattern it fits, with that
  pattern's parameters, and every topic subscribed to has a handler;
- the MQTT subscriber: a message in a kept session is worked on in the end and
  acknowledged by whoever is to acknowledge it; at most one handler runs past
  the cancellation; Shutdown does not hang;
- the REST servers: no request reaches a handler past the middlewares that guard
  it, every request is answered once, a panic of a handler ends the process only
  where nothing that recovers was mounted before it.  What the code keeps of this
  is under Findings.

## Modules

```
ExclusiveConsumer                what a worker promises (abstract)
  ^ implemented by      ^
StompWorker        GcpPubSubWorker   UdpServer  TcpServer  MqttRouter        RestServer
                                                             ^ instance of
                                                           MqttSubscriber
```

Each component has a module `MC...` with its small instances (`MCStomp`, `MCGcp`,
`MCUdp`, `MCTcp`, `MCMqttRouter`, `MCMqttSubscriber`, `MCRest`) and a module
`...Proofs` with its theorems; `StompWorkerOrder` continues `StompWorkerProofs` with
the order of messages and the refinement.

Actions are named after what they model.  A definition whose comment begins with
"Variant:" is not part of any specification: it is a plausible mistake in the
definition that follows it, and shows that a property would notice.

### ExclusiveConsumer

Pods hold messages while their handlers may run.  Two jobs that conflict (one
pod and one topic, or one event of the shared locker) are never held together,
and the broker is told to drop a message only when somebody has worked on it.
`StompWorker` and `GcpPubSubWorker` implement it under refinement mappings
(`ConsumerSpec` in each).

### StompWorker

Several pods, one broker, one locker.  Each pod runs:

- `Serve` (variables `serve`, `cur`): `Poll` is the `select` with the shutdown
  channel at the top of the loop, `Select` and `SelectClosed` are
  `reflect.Select` over the subscriptions, `Acquire` the send on the semaphore
  of the destination header, `CheckShutdown` the test of `isShutdown`, `Spawn`
  the `wg.Add` and the `go` statement;
- a job per message (`job`): `Skip` at a taken lock, `Begin` otherwise,
  `HandlersReturn`, `AutoAck`, then the deferred `Unlock`, `WgDone` and
  `Release`, in the order Go runs them;
- `Shutdown` (`stop`): `SendToken`, `SetFlag`, and `wg.Wait`, which returns at once
  or behind the last `wg.Done` (`WaitDone`) or goes to sleep (`Wait`).  A `wg.Add`
  of a late job between that last `wg.Done` and the return of the waiter leaves
  it "woken" with the counter raised: Go panics ("WaitGroup is reused before
  previous Wait has returned"), and the process ends (`WaitPanics`, `Exit`).

`isShutdown` is read and written without synchronisation.  `CheckShutdown` may
therefore see FALSE although the flag was set, however long ago.  The
broker (`Dispatch`, `Settles`, `InFlight`) follows the client mode of STOMP: an
acknowledgement settles every earlier message of its subscription.  `Drop` is a
lost connection: go-stomp sends a message that has only an error (`ErrFrame`)
and closes the subscription channels.  It has no destination, so its semaphore
is the nil channel of a missing map key, and `Acquire` is never enabled for it.
The code never reconnects.  `Die` is the end of a process: what it held of the
broker is redelivered, and its locks stay (`leaked`).  A constructor that panics
leaves its pod down, where `Start` has not happened.

### GcpPubSubWorker

A delivery is a pair of a message and a number, since an expired lease delivers
again whatever the earlier delivery is doing.  Jobs, histories and the refinement are
about deliveries; `Settled` says that one of those of a message was acknowledged.
`call` follows a delivery through
`CheckContext`, the wait for the slot (`Acquire`), the handlers, `trace.Finish`
(`Finish`, which acknowledges) and `Release`.  `ReceiveEnds` waits for the calls
but not for the goroutines they started; `Close` ends `Shutdown` while jobs run,
and an acknowledgement after the Receive loop of its topic has ended is lost.
With sentrytracer (`tracer`, chosen at the start) the options of
`trace.Finish` are ignored: `Finish` acknowledges nothing and a handler's panic
is `PanicEnds`.  Shutdown (`Cancel`) may come as soon as there is a worker; it then
waits for `Serve`, whose loops deliver nothing any more.

Before it serves, a pod asks for every topic and subscription (`Exists`) and
creates what is missing (`Create`).  The two calls are two steps:
`OtherPodCreates` may come between, the creation then fails and the constructor
panics (`SetupPanics`); the process is started again and finds more resources
than before.

### UdpServer

`buffer` is the set of datagrams whose bytes the one read buffer holds: one of
them, or the new and the old one while a read fills it (`Read`, `Filled`).
Every goroutine looks at the buffer twice: `Split` finds the handler, `Join`
copies the message.  Half-overwritten bytes may be a request of any kind.  A handler
writes any number of responses or none (`HandlerWrites`); when it then returns an
error or panics, the text of that goes out as one more datagram, whatever was
written before (`HandlerEnds`).  Each datagram written is an element of `replies`,
with the goroutine that wrote it, its number, its address, the bytes it answers
and what kind of text it is.

### MqttRouter

A node is the sequence of edges that leads to it.  `Edge` keeps the quirk of
`findChild` that a parameter node has the path `""` and is taken for a static
level between two slashes.  `match` and `params` walk with `FoldLeft`.  The levels
`+` and `#` of a pattern are static levels of the tree, and `normalizePath`
(`Filter`) leaves them in the filter the worker subscribes to, where the broker
reads them as wildcards (`Fits`, external).  The reference definitions are
`Delivers` (what the broker delivers for the filter of a pattern) and `Bindings`
(the parameters a pattern means).  The state
machine is the constructor, which mounts patterns in any order and may panic;
its invariants quantify over all topics.

### MqttSubscriber

The constructor mounts patterns (`Mount`, the state of an instance of
`MqttRouter`), on a connection that is already up: messages of a kept session
can arrive before `Serve` has subscribed and are dropped (`early`).  `Serve`
calls `Subscribe` for one mounted pattern after the other; the call may fail on
a lost connection and nobody looks at its token.  The client is external and
modelled from its documented behaviour: `Receive` takes the next message and
calls the callback once for every subscription whose filter fits (`left`), one after the
other; `Check`, `Add`, `HandlersEnd` and `Finish` are `processMessage`, and
`Return` lets the client acknowledge, unless `AutoAckDisabled` is set, in which
case the handlers' `AutoACK` decides.  `processMessage` asks `match` of the
router (`Selected`).  A handler may publish through the same client
(`PublishMessage`) and waits for the answer (`TokenDone`), which the client reads
only after the messages before it, of which it takes in `ClientBuffer` while a
callback runs: `Stuck` says that the answer is out of reach.  `Lose` and
`Reconnect` are the connection, both external: `onConnect`, which would subscribe
again, is registered nowhere.  The session survives unless `cleanSession`.
Shutdown is `CallShutdown`, `Wait`, `Cancel`, `Meet` (the unbuffered channel) and
`Disconnect`.  A `Wait` that sleeps is woken by the `wg.Done` that brings the
counter to zero (`Awaken`).  If the next message has raised the counter before the
waiter looks (`Add`), the WaitGroup panics and the process ends (`WakePanics`);
otherwise it goes on (`Wake`).

### TcpServer

`Accept`, `Acquire`, `Read` and `ReadEnd` are the loop of `Serve`: the slot is
taken before the request is read, and the request is read to its end before the
next connection is accepted.  The goroutine of a connection (`job`) splits the
request, runs the handler, writes the text of its error or panic if there is one
and, deferred, closes and releases.  `Write` closes the sending side after the
last piece; what is written afterwards fails.  Senders connect, write, close
their side, read and may try to send again.  A connection holds `Window` writes
each way, so that a client that stops reading stops a handler.  Clients may die
(`Die`), which ends their request like a proper end; connections may be reset
(`Break`).  `Exit` is the end of the application: the kernel closes what the process
has open (`Held`).  A connection with bytes nobody has read is reset, any other
ends as if its goroutine had closed it, in the middle of a response too (the job is
"cut"); what a client writes afterwards is answered with a reset (`SendLost`).  The
white space that `TrimSpace` cuts off is part of the writes of a request.

### RestServer

Both servers are one module, since modules of an application use them through the
same wrapper: `framework` says which one runs.  Options are a record that option
functions fold over, error handlers of the application, the configuration of fiber
and the engine option of echo, which can mount middlewares, among them.  Modules
call `Group`, `Use` and `Handle` on the routers they were given (`routers`), in any
order; `stack` is what the library has mounted, `calls` the history of what was
asked for.  `Request` follows one request: `Chain` is what it passes on the way in,
`Back` what each middleware does on the way back with an error or a panic.  A
handler answers, returns an error, panics, answers and returns an error, or answers
and panics (`Outcomes`); an error handler of the application looks whether an answer
has been given, or answers nothing (`ErrorHandlers`).  `Serve`, `Shutdown` and
`MuxClosed` are the ends of the listener.  The order and meaning of middlewares in
the two libraries (copied into a route in echo, matched by prefix in the order of
mounting in fiber) is external, and so is which errors of `Start` are a
`*net.OpError`.

## Runs and what they show

`CHECK_DEADLOCK FALSE` is in every configuration, because every one of these
systems may really stop: a worker with no messages left is idle until the
environment does something, a shut-down process has ended, and the router's
constructor finishes.

| run | instance | shows |
|---|---|---|
| `stomp_pod` | 1 pod, 2 topics, 3 messages, two of them on one topic, one fault, shutdowns and restarts | slots are exact, at most one job is late and Shutdown waits for every other, Shutdown returns or panics with Serve stuck or spinning too, and an undisturbed message is acknowledged although it waits for the slot of its topic |
| `stomp_locks` | 2 pods, 1 topic, 3 messages, a repeated event, one fault | jobs of one event exclude each other over the pods, no lock is lost while its holder lives, topics are worked in order, nothing is acknowledged unworked, and the refinement |
| `stomp_late_job` | 1 pod, 1 message | violation: a job runs after Shutdown returned |
| `gcp_worker` | 2 topics, 3 messages, one delivered twice with a panicking handler, either tracer, one failing Receive, other pods that create, shutdown before Serve too | slots are exact, the refinement, delivery by delivery, the worker comes up however creations interleave, Shutdown returns although jobs run, and an undisturbed message is acknowledged |
| `udp_server` | 2 clients, 3 datagrams, 2 slots, handlers that write up to 2 responses and then fail or not | slots are exact, answers go home and an error text comes last, what Serve reads is dealt with |
| `udp_shared_buffer` | 2 datagrams | violation: a handler is given bytes of another client |
| `mqtt_router` | 4 of 39 patterns, 4 of them with wildcards, all topics of 3 levels | matches are sound, parameters are their pattern's own, no handler is lost, and without mixed nodes every topic subscribed to without wildcards has one |
| `mqtt_static_first` | 2 of 4 patterns | violation: a subscribed topic has no handler |
| `mqtt_subscriber` | 2 overlapping patterns, 2 messages, 1 handler that publishes, 3 settings of the client, one lost connection | at most one run of handlers starts past the cancellation, acknowledgements are those the settings ask for, Shutdown returns or panics, and messages of a session are worked on |
| `tcp_server` | 2 clients, one of which may stall, 1 or 2 slots, requests and responses of 2 writes, one fault, the end of the process | slots are exact, requests and responses are whole and those of their connection unless they were cut off, and every Send returns unless a stalling client holds the server up |
| `rest_routes` | both servers, 6 lists of options, 3 calls of modules, every request | handlers are guarded by the middlewares they should be and no other, how often requests are answered, whoever answers, and which panics end the process |
| `rest_route_middlewares` | echo or fiber, 1 call | violation: a handler is served without its own middlewares |

### Bounds and why they are enough

- Pods: exclusion and leaks concern pairs of jobs, so two pods; the goroutines
  of one pod already interleave fully with one.  `stomp_locks` has no shutdown
  (`Stoppable = {}`), `stomp_pod` has it.
- Messages (STOMP): in `stomp_pod` two on one topic, so that one waits for the slot
  of the other, and one on another topic, for `Serve`, which all topics share; in
  `stomp_locks` three on one topic for order, locks and cumulative
  acknowledgement: two of a repeated event, and a message without one.
- `Prefetch`: unacknowledged messages per subscription.  Two in `stomp_locks`, where
  an acknowledgement settles another message; one in `stomp_pod`, where a job whose
  message is acknowledged still holds the slot when the next one comes.
- `MaxFaults` (1, everywhere): a second crash or lost connection meets the same
  states as the first, since a restart resets everything but locks and the
  broker, and a connection is used once in `TcpServer`.
- `MaxDeliveries` (GCP): two deliveries of one message contend for the slot, beside
  a message of the same topic and one of another.
- Datagrams: two in a race for the buffer, and one for the other way a request
  ends; half-overwritten bytes may be malformed.
- `MaxWrites` (UDP, 2): an answer behind another one of the same handler, and an
  error text behind none, one or both.
- `MaxRoutes` (4), patterns of at most three levels: two patterns that share a node,
  a third that clashes with them and a fourth beside them; the patterns with `+` or
  `#` are whole ones or stand beside a static level or a parameter.
- MQTT subscriber: the two patterns overlap on one topic, so that a message has
  two callbacks and another message one; a client that takes in one message
  (`ClientBuffer`) is already too small for an answer behind two.  The setting
  left out, a clean session whose client does not acknowledge, adds nothing: what
  is unacknowledged is forgotten with the session.
- TCP: requests and responses of two writes on connections that hold one
  (`Window`) have a middle at which both ends wait; with one slot a connection
  waits for the other's goroutine, with two both run.
- REST: three calls (`MaxCalls`) are a router, a middleware and a handler in
  every order, or a router of a router.  One request is followed: requests share
  nothing.

The runs use symmetry only over the pods of `stomp_locks`, where pods differ in
nothing; no liveness run uses it.

### What the histories mean

`begun`, `handled`, `acked`, `late`, `leaked`, `past`, `early`, `answer`, `replies`,
`calls` and `last` only record: no guard of a component's own action reads them,
except that a broker redelivers nothing it was told to drop, that a goroutine of
`TcpServer` counts the pieces it has written, and that bounds count.

## Findings

- A message received just before the shutdown token starts a job that
  `Shutdown` does not wait for (`stomp_late_job`, `consumer.go:105-135`).  At
  most one such job exists per pod (`AtMostOneLate`, proved).  If the process
  exits under it, its lock stays: redelivered copies are skipped by every pod,
  and the next cumulative acknowledgement of the topic drops them.  A job that starts
  while `wg.Wait` is being woken makes `Shutdown` panic instead.
- A handler of the UDP server can be given bytes of another client
  (`udp_shared_buffer`, `udp.go:120`).
- A message of a subscription can find no handler (`mqtt_static_first`,
  `router.go:55`), although the constructor logs for every pattern to which module
  it goes (`subscriber.go:63`).  The client then acknowledges the message as if it had
  been handled; with `AutoAckDisabled` nobody does.
- A handler mounted through the wrapper of echo is served without its own
  middlewares (`rest_route_middlewares`, `echo-rest/route_wrapper.go:30`); the
  wrapper of fiber applies them.

Seen while modelling and visible in the models, but contradicting no statement
of the repository:

- STOMP: a lost connection blocks `Serve` at a nil channel or makes it spin,
  without reconnection; messages skipped at a lock stay unacknowledged and can
  fill the window of their subscription; the context check can never fail,
  nothing cancels that context.
- GCP: an error of a `Receive` is dropped with its topic; jobs may start after
  the cancellation and Shutdown waits for none; with sentrytracer the worker
  never acknowledges.
- UDP: a handler that has written and then returns an error or panics has its client
  sent one more datagram, with the text of the error.
- UDP and TCP: `Serve` retries every error at once, so that after Shutdown it
  spins until the process ends.
- TCP: one client that neither writes nor closes its side blocks every other
  client (`HeldUp`), slots or not.  The request of a client that died in the
  middle is handled as if it were all.  `Send` reports a response cut off by a
  reset, or by the end of the process, as a success.  A sender serves one `Send`.
- MQTT: `onConnect` is registered nowhere and the token of `Subscribe` is
  ignored, so that a subscription that failed is never made again; messages that
  arrive before `Serve` has subscribed are dropped unacknowledged; a handler's
  `AutoACK` has an effect only with `AutoAckDisabled`; a handler that publishes
  can wait for ever for an answer behind other messages, and Shutdown with it; a
  message that comes between the last `wg.Done` and the return of `wg.Wait` makes
  Shutdown panic; a pattern with the levels `+` or `#` is subscribed to as a
  wildcard, and the tree has no handler for most of what it brings.
- REST: the error handler of echo answers although the handler has answered, and so
  does `RecoverMiddleware` of fiber, behind the answer of a handler that panics
  after it; a panic in the root handler of fiber ends the process, and so does any
  panic once `SetRootMiddlewares` has replaced the middleware that recovers; fiber
  forgets a Shutdown that comes before `Listen`.  `URLParam` finds nothing in the
  requests of echo, for the request with the parameters is thrown away
  (`echo-rest/route_wrapper.go:87`).
- Oracle: when the read pool fails to close, the write pool stays open
  (`oracledb.go:81`).

## Fairness

Only the liveness properties rest on fairness.

- Weak fairness of every goroutine's steps: the Go scheduler runs what can run,
  and handlers are assumed to return.
- In STOMP no more than weak fairness of each pod's `Serve`, of its `Shutdown`, of its
  jobs taken together, and of the broker's dispatch.  Go gives more: `reflect.Select`
  chooses uniformly among the ready channels, and every goroutine goes on.  It is not
  needed, since messages are finitely many.
- Strong fairness of `Acquire(d)` in GCP: a Go channel serves blocked senders in
  order.
- None for a WaitGroup: that the counter reaches zero wakes a waiter is part of
  `WgDone` and `Finish`, and that it is raised again before the waiter looks is the
  panic.
- Weak fairness of starting a process and of its constructor, of the delivery of
  the brokers and of the MQTT client's reconnection: deployments restart pods,
  brokers deliver, and paho reconnects by default.
- TCP clients that do not stall go on; those in `Stalling` need not do anything.
- None for shutdown, the end of the application, crashes, lost or reset
  connections, failing Receive loops or the clients of the UDP server.

`EventuallyAcked` and `EventuallyHandled` are conditional: with a disturbance they
name, the code does not promise it (see Findings).  The excuses are written as the
states that make it true, not as any fault at all, where that is possible:
`EventuallyHandled` holds through a lost connection when the session is kept and all
subscriptions were made, and `SendReturns` excuses only a server held up for ever.
`ShutdownReturns` of the STOMP worker and the MQTT subscriber counts the panic of
the WaitGroup as an end, which it is for the process.  `SetupConverges` needs no
excuse: other pods can win a race for a resource only once.

## Proofs

TLAPS proves the following for every value of the constants that satisfies the
assumptions their modules declare: any number of pods, clients, topics, messages,
deliveries, datagrams, patterns, any lengths of requests and responses, any bounds.
Each of these properties is also checked by the run named in
[Runs](#runs-and-what-they-show), except the four `NoStandstill`, which the proof
modules define ([No standstill](#no-standstill)).

| module | theorem | statement |
|---|---|---|
| `StompWorkerProofs` | `Inductive` | `Spec => []IInv` |
| | `TypeCorrect`, `SlotsSafe` | `[]TypeOK`, `[]SlotsAccounted` |
| | `LocksExclude`, `LocksReleased` | `[]LockExclusion`, `[]LocksAccounted` |
| | `OneLateJob`, `ShutdownSafe` | `[]AtMostOneLate`, `[]ShutdownWaits` |
| `StompWorkerOrder` | `OrderInductive` | `Spec => []OrderInv` |
| | `OrderKept`, `AckedSafe` | `[]TopicOrder`, `[]AckedWasWorked` |
| | `ImplementsConsumer` | `Spec => ConsumerSpec` |
| | `StandInductive` | `Spec => [](IInv /\ OrderInv /\ StandInv)` |
| | `StompNoStandstill` | `Spec => []NoStandstill` |
| `GcpPubSubWorkerProofs` | `GcpInductive` | `Spec => []IInv` |
| | `GcpTypeCorrect`, `GcpSlotsSafe` | `[]TypeOK`, `[]SlotsAccounted` |
| | `GcpImplementsConsumer` | `Spec => ConsumerSpec` |
| | `GcpStandInductive`, `GcpNoStandstill` | `[](IInv /\ StandInv)`, `[]NoStandstill` |
| `UdpServerProofs` | `UdpInductive` | `Spec => []IInv` |
| | `UdpTypeCorrect`, `UdpSlotsSafe` | `[]TypeOK`, `[]SlotsAccounted` |
| | `UdpRepliesSafe` | `[]RepliesGoHome` |
| `TcpServerProofs` | `TcpInductive` | `Spec => []IInv` |
| | `TcpTypeCorrect`, `TcpSlotsSafe` | `[]TypeOK`, `[]SlotsAccounted` |
| | `TcpRequestsWhole`, `TcpResponsesWhole` | `[]WholeRequest`, `[]ResponseWhole` |
| | `TcpEndsInductive`, `TcpNoStandstill` | `[](IInv /\ EndInv)`, `[]NoStandstill` |
| `MqttSubscriberProofs` | `MqttInductive` | `Spec => []IInv` |
| | `MqttTypeCorrect` | `[]TypeOK` |
| | `MqttOneRunPastCancel`, `MqttAckedAsAsked` | `[]OneRunPastCancel`, `[]AckedAsAsked` |
| | `MqttStandInductive`, `MqttNoStandstill` | `[](IInv /\ StandInv)`, `[]NoStandstill` |
| `MqttRouterProofs` | `RouterInductive` | `Spec => []IInv` |
| | `RouterTypeCorrect`, `RouterHandlersKept` | `[]TypeOK`, `[]HandlersKept` |
| | `RouterMatchSound`, `RouterComplete` | `[]MatchSound`, `[]UnambiguousComplete` |
| `RestServerProofs` | `RestInductive` | `Spec => []IInv` |
| | `RestTypeCorrect`, `RestAnsweredOnce` | `[]TypeOK`, `[]AnsweredOnce` |
| | `RestSurvivesPanic` | `[]SurvivesPanic` |
| | `RestGroupsInductive` | `Spec => [](IInv /\ GroupInv)` |
| | `RestGuarded` | `[]GuardedByGroups` |

Every inductive invariant was checked by TLC on the instance of the component's
run first.  The preservation of each conjunct is a lemma, or a step, with one case
per action; the end of a process is treated once for crash and exit.

### Assumptions

- `StompWorker`: messages are finite and the special values are not messages,
  every message has a mounted topic, the bounds are numbers.
- `GcpPubSubWorker`, `UdpServer`, `TcpServer`: the messages, datagrams and clients
  they count are finite, kinds, topics and options are the code's, the bounds are
  numbers (the responses of a UDP handler, `MaxWrites`, among them), and `None` is no
  datagram and no client.
- `MqttRouter`: levels, parameter names, the levels `+` and `#` and the edge of a
  parameter are different things, and `None`, the absent handler, is not a
  sequence of levels, as the code's `nil` is not a pattern.
- `MqttSubscriber`: an application mounts finitely many patterns.
- `RestServer`: paths are sequences of `Pieces`, to which the four that the servers
  mount by themselves belong, and an application passes lists of the option
  functions of `option.go` (`OptionFunctions`), whose middlewares are given by no
  call of a module (`RootMiddlewares`) and whose error handlers are among
  `ErrorHandlers`.

### The STOMP worker: slots, locks, shutdown

    IInv == TypeOK /\ CurInv /\ SlotInv /\ LockInv /\ WgInv /\ LateInv

- `CurInv` ties the message `Serve` holds to the place it has reached.  It is
  needed because `Serve` owns a slot between `Acquire` and `Spawn` that no job
  accounts for.
- `SlotInv` says that a slot in use has exactly one owner, the form of
  `SlotsAccounted` that does not count: a free slot means no owner, so that an
  acquisition creates the only one.
- `LockInv` joins exclusion and accounting, each needing the other, and adds
  that a lock a dead process left is held by no live job; the test-and-set at
  `Begin` then finds a free event only if nobody holds it.
- `WgInv` makes the counter the number of jobs before `wg.Done`.  Without it
  neither the counter's type (it never goes below zero) nor the meaning of
  `wg.Wait` follows.
- `LateInv` is the argument about shutdown: from the send of the token until
  `Serve` returns the token is in the channel, a late job exists only when
  `Serve` has passed the place where it looks for the token, and so is the last
  one.  When Shutdown has returned, the jobs before `wg.Done` are late ones.

### The STOMP worker: order and acknowledgement

An acknowledgement settles every earlier message of its subscription, so that what
is safe to acknowledge is a statement about a whole prefix.  `OrderInv`, inductive
together with `IInv`, says where the unsettled messages of a subscription are:

- `ChannelInv`: `unacked` of a live connection is what `Serve` has passed on,
  followed by the message in its hands, followed by what waits in the channel; the
  message of a job that is not settled yet is the last one passed on.  `TopicOrder`
  follows from it, and it needs `SlotInv`: only because one slot per topic is held
  from `Acquire` to `Release` is nothing passed on behind a job that runs.
- `PassedWorked`: what was passed on was worked on (`Worked`: its handlers
  returned, or another message of its event was begun, for which the message was
  skipped at the lock), or its job is still before that.  At `AutoAck` the job
  itself is past it, so all that is settled was worked on.
- `PlaceInv`: a message is in one place, in the queue, in flight once, or
  acknowledged; without it a settled prefix could take a message of another
  connection along.
- `WorkInv`: a taken lock belongs to an event that was begun, leaked ones included,
  which is what a skipped message relies on.
- `DownInv`: a process that is down has nothing, so that a restart begins clean.

`ImplementsConsumer` then maps `Begin` to the abstract `Take`, `HandlersReturn` to
`Finish`, `AutoAck` to `Settle`, `Unlock` to `Release`, `Die` to `Die`, and every
other action to a stutter.  `Take` needs exclusion (`LockInv` for events, `SlotInv`
for topics), and `Settle` needs `PassedWorked`.

### The Pub/Sub worker

`IInv` adds to the types that a slot in use has one job and a free one none
(`SlotInv`), and that a delivery whose handlers have ended was itself handled
(`HandledInv`), by which `Finish` acknowledges no delivery that was not worked on.
The refinement is on deliveries, which take the place of the abstract messages: two
deliveries of one message are two elements, of one topic, and are never held together
because they share its slot.

### The UDP server

`ReadInv` keeps a datagram in one place: unsent, in the socket, in the hands of
`Serve`, or with its goroutine, so that `Acquire` starts the only goroutine of it.
`ReplyInv` says that what a goroutine has written is numbered, goes to the client it
was started for, and that a refusal or an error text is the last of it;
`WrittenInv` and `MessageInv` say that nothing is written before the handler, which
has been given bytes and writes no more than the bound.  `UdpRepliesSafe` then
counts: refusals and error texts to a client map one to one into the datagrams
dealt with, and the handlers' answers one to one into pairs of a datagram that
came to its handler and a number.

### The TCP server and sender

The accept loop, the goroutine and the sender of a connection hand writes to each
other through two bounded channels.  `UpAt` and `DownAt` say of each direction that
what was read, followed by what is on the way, is what was written, in order
(`Carried`), that nothing is missing unless the connection was reset or the client
died, and that an end is behind the last write or is that of the process (the job is
"cut").  `RequestAt` and `AnswerAt` say what the goroutine knows at each place: that
its request is whole, empty or what a dead client left; that it has written a part
of a response, or all of it, or the text of an error and nothing else.  So a sender
that has read part of a response finds its connection reset or its job "cut", and
nothing else.  `SlotInv` counts the goroutines and the connection that the loop
reads from, and `BacklogInv` shows that this connection has no goroutine yet and is
accepted once.

### The MQTT subscriber

`MountInv` says that nothing is received while the constructor mounts, so that
what `match` answers for a message does not change once a message is worked on.
`CallInv` makes the WaitGroup counter the one callback that can run, `HandledInv`
says what a callback about to acknowledge has done, and `StopInv` says that the
one run past the cancellation has left the place between the check of the context and
`wg.Add`, so that no second one is there.

### The MQTT router

The tree is a set of paths.  `PathsInv` says that it is closed under prefixes,
`HandlerInv` that a node with a handler is the one to which its pattern leads
(`Leads`), the quirk of `findChild` included, and `PlainInv` that unless a mounted
pattern has an empty level no node has.  `match` and `insertChild` are folds over
the levels of a path.  What they reach is proved by induction over the levels
(`NodeWalk`, `MatchWalk`): `insertChild` goes to a node its pattern leads to,
`match` goes along a path each of whose edges fits its level, and when no
parameter is mounted beside a static level it goes nowhere else.
`RouterComplete` needs a mounted pattern without wildcards that the topic fits
(`Literal`, `LiteralDelivers`): a wildcard is a static level to `match`.

The induction theorems of the library take an operator as a parameter, which the
provers cannot instantiate.  `CountUp` states induction for a set of numbers
instead, and follows from the minimality theorem of well-founded sets; that the
recursive function inside a fold of the community modules exists is `IterExists`,
which takes the function of the fold from a set of functions.

### The REST servers

`OptInv` gives the types of options after any list of option functions: a fold over
functions each of which keeps them (`EchoFold`, `FiberFold`).  `MountInv` says what
modules can mount: every router lies under the root path.  `RootInv` is about the
order of the stack in fiber: the root handler first, then CORS and the root
middlewares, before anything of a module; every later route lies under the root
path, so that every request of it passes the root middlewares, which is what
`RestSurvivesPanic` needs.  The way back of a request is a fold over its
middlewares; `BackWalk` gives it step by step, and `PassedResult` shows by
induction over these steps that a request is answered as often as the end of its
handler makes due (`Due`), for any error handlers and root middlewares given, and
that a panic comes out only when no middleware on the way recovers, wherever in
the chain the middlewares of modules stand.

What stands in front of a handler is a second inductive invariant, `GroupInv`, on
top of the first:

- `RouterInv`: a router is made from an earlier one and lies below its path, so
  that the line of a router, itself and those it was made from, is finite and its
  paths are prefixes.  The recursive function behind it is shown to exist
  (`LinesExist`), and that neither later routers nor later calls change the line of
  a router (`LineSame`).
- `CallInv`: what a call was made on and the path it is about.
- `EchoInv`: a router of echo carries the middlewares of exactly the calls that
  guard it so far, in their order.  `Group` copies those of its parent
  (`GroupGuards`); `Use` adds to its own router only, since the routers made from
  that one were made before (`UseGuards`).
- `StackInv`: some numbering gives for each entry of the stack the call that
  mounted it.  It increases along the stack and leaves out no call, so that the
  first or last route of a path was mounted by the first or last `Handle` of it
  (`TakenCall`), which is how the libraries and the property each choose.

For echo `RestGuarded` then follows from what the route has copied (`EchoGuarded`).
For fiber, a request passes the entries in front of its route whose path is a
prefix of its own: each carries the middlewares of one call, so that their
concatenation lists those of a set of calls in order (`ListsFlatten`), and the
calls that guard the router are among them, as they are about prefixes of the
path (`FiberGuarded`).  The calls of a set of entries are compared as sets of
numbers and lists in their order (`Lists`); nothing is sorted.

### No standstill

The liveness properties rest on fairness, and fairness moves an action only while it
is enabled.  What they need besides is a safety property: that whatever somebody
waits for, somebody else can still do.  `NoStandstill` states it in four proof
modules.  `ENABLED` is out of the prover's reach, so that the guards are written out:
`CanServe`, `CanJob`, `CanSend` and the like are what the actions of that name wait
for.  TLC found each of them equal to `ENABLED` of its actions, and `NoStandstill`
and the invariants below without a violation, on the instance of the component's run.

- TCP (behind `SendReturns`): while a Send is under way whose client does not stall,
  the accept loop, a goroutine or such a client can go on, unless clients that stall
  hold the server up.  The windows, the slots and the loop that reads requests in
  turn could each wait for another; `EndInv` says who has to do with a connection
  that has not ended (the backlog, `Serve`, or a goroutine) and that who gives it up
  has ended it.
- STOMP (behind `EventuallyAcked`): before the first failure, while no pod shuts down
  and when every message has an event of its own, a message of an AutoACK topic
  that is not acknowledged leaves `Serve` of some pod, a job or the broker able to go
  on, for any number of pods and any window.  `KeptInv` finds the message, in the queue
  or in a window; `WindowInv` says that what stands in a window is on its way to the
  acknowledgement, in the channel, with `Serve` or with a job; `UpInv` and `IdleInv`
  say that a pod that is up is connected and that no `Serve` returns by itself.  Two
  messages of one event are left out because the one that is skipped at the lock
  stays in its window.
- Pub/Sub (behind `SetupConverges`, `ShutdownReturns`, `EventuallyAcked`): the
  constructor always has a next request, whatever other pods have created; a
  delivery waits for its slot only while a job of its topic can go on; Shutdown
  finds a `Serve` to meet or one yet to be called (`StopInv`); and while nothing
  fails, nobody shuts down and the tracer is not sentrytracer, a message of an
  AutoACK topic that is not acknowledged can be delivered, or is in a call or behind
  a job that can go on (`GoneInv`: a job past `Finish` has acknowledged).
- MQTT (behind `ShutdownReturns`, `EventuallyHandled`): a callback that runs, a
  Shutdown that was called and a message of the session can go on, or wait for the
  constructor, the client, the broker or the connection, which can, unless a handler
  is `Stuck` with its own publication.  That handler is so the only deadlock of the
  subscriber.  `AnswerInv` says that the answer to a publication is in the queue
  once and only for the handler that waits for it, `SentInv` where a message is that
  was sent, `MeetInv` that `Serve` is there for Shutdown and that a `Wait` sleeps
  only while a callback runs that will wake it.

For the UDP server this is `UdpSlotsSafe`: when no slot is free a goroutine runs, and
none of its steps waits for anything.

### Only model-checked

- Liveness (`EventuallyAcked`, `ShutdownReturns`, `SetupConverges`,
  `EveryReadEnds`, `SendReturns`, `EventuallyHandled`): it rests on fairness and
  ENABLED, which the prover does not handle.  That nothing stands still without
  fairness is proved.
- The four violations, which are counterexamples.

## What is not modelled

Logging, the contents of traces, the copying of headers and payloads and the
wording of errors are left out everywhere.

- The Amazon SQS worker: its constructor writes to maps it never makes
  (`amazonsqs/consumer.go:72`) and panics with the first handler.  Everything
  behind it is unreachable in a process that has handlers, so that a model of it
  would be of another program.
- The Oracle adaptor and the ArangoDB adapter open connections once and close
  them once, one after the other, with no state that changes in between.
- The circuit breaker hands its options to hystrix, whose state machine is not
  in this repository.  The dashboard is generated.
- Publishers hand one message to a client library and keep no state.  They appear
  as the event ids of STOMP and as the handlers that publish in
  `MqttSubscriber`.
- STOMP wildcard destinations: the semaphore of a message is found by its
  concrete destination, so they behave as the message without one does.
- REST: other settings of fiber and echo than those named, URL parameters (always
  empty in echo, see Findings), the HTTP methods, which are mounted alike, CORS, the
  routes for 404 that groups of echo add by themselves, and the conversion of
  requests and responses by fiber's adaptor.  Middlewares of a route of fiber,
  called one inside the other or one after the other, are one sequence here.
- The table of handlers of the UDP and TCP servers is filled before Serve and
  only looked up; a request names a handler or it does not.

## Plan

Done: `ExclusiveConsumer`, `StompWorker`, `GcpPubSubWorker` with its constructor,
`UdpServer`, `TcpServer` with the senders, `MqttRouter`, `MqttSubscriber` on top of
it, `RestServer` for echo and fiber; every safety invariant the passing runs check
is proved, so are both refinements, and what the liveness properties need of the
model besides fairness.

Left: in `StompWorker`, what stays unacknowledged when messages share an event or a
failure has happened could be characterised and proved as well; `NoStandstill` is
about runs without both.
