----------------------------- MODULE UdpServer -----------------------------
(***************************************************************************)
(* The UDP server (p2p/udp.go).  Serve reads every datagram into one       *)
(* buffer and hands a slice of that buffer, not a copy, to a goroutine; the *)
(* goroutine copies what it needs only when it joins the message for the   *)
(* handler.  Serve reads on before it waits for a free client slot.  The   *)
(* race is modelled by the set of datagrams whose bytes the buffer holds:  *)
(* two of them while a read is filling it.                                 *)
(*                                                                         *)
(* External: the network, which may lose or delay datagrams, and handlers, *)
(* which write any number of responses up to a bound, none included, and   *)
(* then return nil, return an error or panic.                              *)
(***************************************************************************)
EXTENDS Integers, FiniteSets

CONSTANTS
    Datagrams,            \* what clients send, all of the same length
    SenderOf,             \* the client address of each datagram
    KindOf,               \* "route", "unknown" (no handler), "malformed" (no ":")
    maxConcurrentClient,  \* the option of the server
    MaxWrites,            \* bound: the responses a handler writes
    None                  \* no datagram

ASSUME UdpAssumption ==
    /\ IsFiniteSet(Datagrams) /\ None \notin Datagrams
    /\ KindOf \in [Datagrams -> {"route", "unknown", "malformed"}]
    /\ maxConcurrentClient \in Nat \ {0} /\ MaxWrites \in Nat

VARIABLES
    sent,       \* datagrams the clients have sent so far
    socket,     \* datagrams the socket has received and Serve has not read
    open,       \* FALSE once Shutdown has closed the connection
    serve,      \* where Serve is
    cur,        \* the datagram Serve read last: its address and its length
    buffer,     \* the datagrams whose bytes the shared buffer holds
    semaphore,  \* slots in use
    job,        \* where the goroutine of each datagram is
    message,    \* the datagrams whose bytes the handler was given
    written,    \* how many responses the goroutine of each datagram has written
    replies     \* these responses: by which goroutine, the how manieth, to which
                \* address, the datagrams whose bytes they answer, and the text:
                \* of the handler, of a refusal, or of an error or panic

netVars == <<sent, socket, open>>
replyVars == <<written, replies>>
vars == <<netVars, serve, cur, buffer, semaphore, job, message, replyVars>>

Clients == {SenderOf[d] : d \in Datagrams}
Replies == [by : Datagrams, nth : 1..(MaxWrites + 1), to : Clients,
            about : SUBSET Datagrams, text : {"handler", "refusal", "error"}]

JobStates == {"none", "split", "join", "handle", "release", "over"}
Running == {d \in Datagrams : job[d] \in {"split", "join", "handle", "release"}}

TypeOK ==
    /\ sent \in SUBSET Datagrams /\ socket \in SUBSET Datagrams
    /\ open \in BOOLEAN
    /\ serve \in {"read", "fill", "acquire"}
    /\ cur \in Datagrams \cup {None} /\ buffer \in SUBSET Datagrams
    /\ semaphore \in 0..maxConcurrentClient
    /\ job \in [Datagrams -> JobStates]
    /\ message \in [Datagrams -> SUBSET Datagrams]
    /\ written \in [Datagrams -> 0..(MaxWrites + 1)]
    /\ replies \subseteq Replies

Init ==
    /\ sent = {} /\ socket = {} /\ open = TRUE
    /\ serve = "read"
    /\ cur = None /\ buffer = {}
    /\ semaphore = 0
    /\ job = [d \in Datagrams |-> "none"]
    /\ message = [d \in Datagrams |-> {}]
    /\ written = [d \in Datagrams |-> 0] /\ replies = {}

-----------------------------------------------------------------------------
(* The clients and the network *)

Send(d) ==
    /\ d \notin sent
    /\ sent' = sent \cup {d}
    /\ socket' \in {socket, socket \cup {d}}
    /\ UNCHANGED <<open, serve, cur, buffer, semaphore, job, message, replyVars>>

-----------------------------------------------------------------------------
(* Serve *)

\* ReadFromUDP overwrites the buffer, which running goroutines still slice, ...
Read(d) ==
    /\ serve = "read" /\ open
    /\ d \in socket
    /\ socket' = socket \ {d}
    /\ cur' = d /\ buffer' = buffer \cup {d}
    /\ serve' = "fill"
    /\ UNCHANGED <<sent, open, semaphore, job, message, replyVars>>

\* ... and has filled it.
Filled ==
    /\ serve = "fill"
    /\ buffer' = {cur}
    /\ serve' = "acquire"
    /\ UNCHANGED <<netVars, cur, semaphore, job, message, replyVars>>

\* Variant: the slot is not waited for.
AcquireNow ==
    /\ serve = "acquire"
    /\ semaphore' = semaphore + 1
    /\ job' = [job EXCEPT ![cur] = "split"]
    /\ serve' = "read"
    /\ UNCHANGED <<netVars, cur, buffer, message, replyVars>>

\* The send on the semaphore, and the go statement.
Acquire ==
    /\ serve = "acquire"
    /\ semaphore < maxConcurrentClient
    /\ semaphore' = semaphore + 1
    /\ job' = [job EXCEPT ![cur] = "split"]
    /\ serve' = "read"
    /\ UNCHANGED <<netVars, cur, buffer, message, replyVars>>

-----------------------------------------------------------------------------
(* The goroutine of a datagram *)

\* Variant: one address variable for all datagrams.
LastAddress(d) == SenderOf[cur]

\* The address is a variable of each round of the loop.
Address(d) == SenderOf[d]

\* On a closed connection the write fails and the error is dropped.
Write(d, about, text) ==
    IF open
    THEN /\ written' = [written EXCEPT ![d] = @ + 1]
         /\ replies' = replies \cup {[by |-> d, nth |-> written[d] + 1,
                                     to |-> Address(d), about |-> about, text |-> text]}
    ELSE UNCHANGED replyVars

\* TrimSpace, Split and the lookup of the handler work on the shared bytes: what
\* the buffer holds now decides, and half-overwritten bytes can be of any kind.  A
\* request without ":" is answered with EOF, one without handler with an error.
Kinds(bytes) ==
    IF Cardinality(bytes) = 1 THEN {KindOf[x] : x \in bytes}
    ELSE {"route", "unknown", "malformed"}

Split(d) ==
    /\ job[d] = "split"
    /\ \/ "route" \in Kinds(buffer)
          /\ job' = [job EXCEPT ![d] = "join"]
          /\ UNCHANGED replyVars
       \/ Kinds(buffer) # {"route"}
          /\ job' = [job EXCEPT ![d] = "release"]
          /\ Write(d, buffer, "refusal")
    /\ UNCHANGED <<netVars, serve, cur, buffer, semaphore, message>>

\* Join copies the message for the handler.
Join(d) ==
    /\ job[d] = "join"
    /\ message' = [message EXCEPT ![d] = buffer]
    /\ job' = [job EXCEPT ![d] = "handle"]
    /\ UNCHANGED <<netVars, serve, cur, buffer, semaphore, replyVars>>

\* Write of the context: the handler may call it any number of times.
HandlerWrites(d) ==
    /\ job[d] = "handle" /\ written[d] < MaxWrites
    /\ Write(d, message[d], "handler")
    /\ UNCHANGED <<netVars, serve, cur, buffer, semaphore, job, message>>

\* The handler returns nil, or it returns an error or panics and the deferred
\* function writes the text of it, whatever the handler has written before.
HandlerEnds(d) ==
    /\ job[d] = "handle"
    /\ job' = [job EXCEPT ![d] = "release"]
    /\ \/ UNCHANGED replyVars
       \/ Write(d, message[d], "error")
    /\ UNCHANGED <<netVars, serve, cur, buffer, semaphore, message>>

\* Variant: the slot is given back by the last statement, which the returns for a
\* malformed or unknown request skip.
ReleaseHandled(d) ==
    /\ job[d] = "release"
    /\ job' = [job EXCEPT ![d] = "over"]
    /\ semaphore' = IF message[d] = {} THEN semaphore ELSE semaphore - 1
    /\ UNCHANGED <<netVars, serve, cur, buffer, message, replyVars>>

Release(d) ==
    /\ job[d] = "release"
    /\ job' = [job EXCEPT ![d] = "over"]
    /\ semaphore' = semaphore - 1
    /\ UNCHANGED <<netVars, serve, cur, buffer, message, replyVars>>

-----------------------------------------------------------------------------
\* Shutdown closes the connection.  Serve never returns: every later read fails at
\* once and it reads again, a step that changes nothing.
Shutdown ==
    /\ open
    /\ open' = FALSE
    /\ UNCHANGED <<sent, socket, serve, cur, buffer, semaphore, job, message, replyVars>>

JobNext(d) == Split(d) \/ Join(d) \/ HandlerWrites(d) \/ HandlerEnds(d) \/ Release(d)

Next ==
    \/ Filled \/ Acquire \/ Shutdown
    \/ \E d \in Datagrams : Send(d) \/ Read(d) \/ JobNext(d)

Spec == Init /\ [][Next]_vars

\* Goroutines that can run do, and handlers end.
Fairness ==
    /\ WF_vars(Filled) /\ WF_vars(Acquire)
    /\ \A d \in Datagrams : WF_vars(Read(d)) /\ WF_vars(JobNext(d))

FairSpec == Spec /\ Fairness

-----------------------------------------------------------------------------
(* Properties *)

\* The slots in use are those of the running goroutines, whichever return they
\* take; with TypeOK no more than maxConcurrentClient of them run.
SlotsAccounted == semaphore = Cardinality(Running)

\* The answers a client gets are to its own datagrams, although Serve reads the next
\* address before a goroutine has answered: a refusal or an error text at most for
\* each of them the server has dealt with, what the handler writes for those that
\* have come to it, and nothing of a goroutine after its refusal or error text.
RepliesGoHome ==
    /\ \A a \in Clients :
        /\ Cardinality({r \in replies : r.to = a /\ r.text # "handler"})
             <= Cardinality({d \in sent : SenderOf[d] = a
                                          /\ job[d] \in {"release", "over"}})
        /\ Cardinality({r \in replies : r.to = a /\ r.text = "handler"})
             <= MaxWrites * Cardinality({d \in sent : SenderOf[d] = a
                                                      /\ message[d] # {}})
    /\ \A r, s \in replies : r.by = s.by /\ r.text # "handler" => s.nth <= r.nth

\* What the example of p2p/README.md relies on, "request":
\* string(c.GetMessage()): a handler is given the message of the client whose
\* datagram it answers.  The code does not keep it: Serve may have read another
\* datagram into the buffer.
OwnMessage == \A d \in Datagrams : message[d] \subseteq {d}

\* A datagram Serve has read is dealt with in the end, with the connection open or
\* closed, and although Serve waits for a slot with the next one.
EveryReadEnds ==
    \A d \in Datagrams :
        serve = "fill" /\ cur = d ~> job[d] = "over"
=============================================================================
