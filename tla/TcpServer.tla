----------------------------- MODULE TcpServer -----------------------------
(***************************************************************************)
(* The TCP server (p2p/tcp.go), the contexts its handlers write with       *)
(* (p2p/context.go) and the senders that talk to it                        *)
(* (p2p/sender/sender_tcp.go).  Serve accepts a connection, takes a slot   *)
(* and reads the whole request itself, up to the end the client makes by   *)
(* closing its side; only then a goroutine runs the handler.  One          *)
(* connection carries one request and one response.                        *)
(*                                                                         *)
(* Bytes are modelled by the writes they come from, <<client, number>>; the *)
(* white space around a request that TrimSpace cuts off is part of them.   *)
(*                                                                         *)
(* External: connections, which keep the order of what they carry, hold    *)
(* Window writes on the way in each direction and may be reset; handlers,  *)
(* which call Write or not, and return, return an error or panic.          *)
(***************************************************************************)
EXTENDS Naturals, Sequences, FiniteSets, SequencesExt

CONSTANTS
    Clients,              \* each with a connection of its own
    Stalling,             \* clients that may stop writing or reading at any time
    Requests, Responses,  \* writes of a request, writes of a response
    Window,               \* writes a connection holds on the way
    MaxClients,           \* values considered for the option maxConcurrentClient
    MaxFaults,            \* bound: clients that die and connections reset
    None

ASSUME TcpAssumption ==
    /\ IsFiniteSet(Clients) /\ None \notin Clients /\ Stalling \subseteq Clients
    /\ {Requests, Responses, Window} \cup MaxClients \subseteq Nat \ {0}
    /\ MaxFaults \in Nat

VARIABLES
    send,       \* where the client is with its connection
    written,    \* writes of its request it has done
    up, upEnd,      \* on the way to the server; no more will follow
    down, downEnd,  \* on the way to the client; no more will follow
    broken,     \* connections that were reset
    got,        \* what the client has read: the buffer Send returns
    open,       \* the listener is open
    backlog,    \* connections not accepted yet
    serve,      \* where Serve is
    cur,        \* the connection Serve accepted last
    semaphore,  \* slots in use ...
    maxConcurrentClient,  \* ... of so many: option of the server
    request,    \* what readAllRequest has read from each connection
    job,        \* where the goroutine of each connection is; "cut" when the
                \* process ended with the connection open
    answer,     \* history: what it has written
    faults      \* faults so far

clientVars == <<send, written, got>>
upVars     == <<up, upEnd>>
downVars   == <<down, downEnd>>
slotVars   == <<semaphore, maxConcurrentClient>>
serveVars  == <<open, backlog, serve, cur>>
jobVars    == <<job, answer>>
vars == <<clientVars, upVars, downVars, broken, serveVars, slotVars, request, jobVars,
          faults>>

Error   == Responses + 1   \* the write that carries the error of a handler
Request(c)  == [i \in 1..Requests |-> <<c, i>>]
Response(c) == [i \in 1..Responses |-> <<c, i>>]
Running     == {c \in Clients : job[c] \notin {"none", "over", "cut"}}
Held        == {c \in Clients : c \in Running \/ (serve \in {"acquire", "read"} /\ c = cur)}
SendOver    == {"ok", "refused", "failed", "dead"}

TypeOK ==
    /\ send \in [Clients -> {"new", "write", "read"} \cup SendOver]
    /\ written \in [Clients -> 0..Requests]
    /\ \A c \in Clients : /\ Len(up[c]) <= Window /\ Len(down[c]) <= Window
                          /\ Len(request[c]) <= Requests
                          /\ Len(got[c]) <= Responses + 1
    /\ upEnd \in [Clients -> BOOLEAN] /\ downEnd \in [Clients -> BOOLEAN]
    /\ broken \subseteq Clients
    /\ open \in BOOLEAN
    /\ ToSet(backlog) \subseteq Clients
    /\ serve \in {"accept", "acquire", "read", "exited"}
    /\ cur \in Clients \cup {None}
    /\ maxConcurrentClient \in MaxClients /\ semaphore \in 0..maxConcurrentClient
    /\ job \in [Clients -> {"none", "split", "handle", "write", "wrote", "error",
                            "close", "release", "over", "cut"}]
    /\ faults \in 0..MaxFaults

Init ==
    /\ send = [c \in Clients |-> "new"] /\ written = [c \in Clients |-> 0]
    /\ up = [c \in Clients |-> <<>>] /\ upEnd = [c \in Clients |-> FALSE]
    /\ down = [c \in Clients |-> <<>>] /\ downEnd = [c \in Clients |-> FALSE]
    /\ broken = {}
    /\ got = [c \in Clients |-> <<>>]
    /\ open = TRUE /\ backlog = <<>>
    /\ serve = "accept" /\ cur = None
    /\ semaphore = 0 /\ maxConcurrentClient \in MaxClients
    /\ request = [c \in Clients |-> <<>>]
    /\ job = [c \in Clients |-> "none"]
    /\ answer = [c \in Clients |-> <<>>]
    /\ faults = 0

-----------------------------------------------------------------------------
(* The senders: NewTCPSender and Send *)

\* The kernel completes connections the server has not accepted yet.
NewTCPSender(c) ==
    /\ send[c] = "new"
    /\ send' = [send EXCEPT ![c] = IF open THEN "write" ELSE "failed"]
    /\ backlog' = IF open THEN Append(backlog, c) ELSE backlog
    /\ UNCHANGED <<written, got, upVars, downVars, broken, open, serve, cur, slotVars,
                   request, jobVars, faults>>

\* The route with its separator, then the message in pieces of the buffer size.
SendWrite(c) ==
    /\ send[c] = "write" /\ written[c] < Requests /\ c \notin broken
    /\ serve # "exited" /\ Len(up[c]) < Window
    /\ written' = [written EXCEPT ![c] = @ + 1]
    /\ up' = [up EXCEPT ![c] = Append(@, Request(c)[written[c] + 1])]
    /\ UNCHANGED <<send, got, upEnd, downVars, broken, serveVars, slotVars, request,
                   jobVars, faults>>

\* What is on the way in both directions is lost.
Reset(C) ==
    /\ broken' = broken \cup C
    /\ up' = [c \in Clients |-> IF c \in C THEN <<>> ELSE up[c]]
    /\ down' = [c \in Clients |-> IF c \in C THEN <<>> ELSE down[c]]

\* The process of the server has ended: a write is answered with a reset.
SendLost(c) ==
    /\ send[c] = "write" /\ written[c] < Requests /\ c \notin broken
    /\ serve = "exited"
    /\ written' = [written EXCEPT ![c] = @ + 1]
    /\ Reset({c})
    /\ UNCHANGED <<send, got, upEnd, downEnd, serveVars, slotVars, request, jobVars,
                   faults>>

SendFails(c) ==
    /\ send[c] = "write" /\ c \in broken
    /\ send' = [send EXCEPT ![c] = "failed"]
    /\ UNCHANGED <<written, got, upVars, downVars, broken, serveVars, slotVars, request,
                   jobVars, faults>>

SendCloseWrite(c) ==
    /\ send[c] = "write" /\ written[c] = Requests /\ c \notin broken
    /\ upEnd' = [upEnd EXCEPT ![c] = TRUE]
    /\ send' = [send EXCEPT ![c] = "read"]
    /\ UNCHANGED <<written, got, up, downVars, broken, serveVars, slotVars, request,
                   jobVars, faults>>

SendRead(c) ==
    /\ send[c] = "read" /\ down[c] # <<>>
    /\ got' = [got EXCEPT ![c] = Append(@, Head(down[c]))]
    /\ down' = [down EXCEPT ![c] = Tail(@)]
    /\ UNCHANGED <<send, written, upVars, downEnd, broken, serveVars, slotVars, request,
                   jobVars, faults>>

\* io.Copy ends, with an error that nobody looks at when the connection was reset.
SendReturn(c) ==
    /\ send[c] = "read"
    /\ c \in broken \/ (downEnd[c] /\ down[c] = <<>>)
    /\ send' = [send EXCEPT ![c] = "ok"]
    /\ UNCHANGED <<written, got, upVars, downVars, broken, serveVars, slotVars, request,
                   jobVars, faults>>

\* A second Send fails at its first write: the first has closed that side.
SendAgain(c) ==
    /\ send[c] = "ok"
    /\ send' = [send EXCEPT ![c] = "refused"]
    /\ UNCHANGED <<written, got, upVars, downVars, broken, serveVars, slotVars, request,
                   jobVars, faults>>

\* A client dies: its kernel ends the request properly, wherever it was.
Die(c) ==
    /\ send[c] \in {"write", "read"} /\ faults < MaxFaults
    /\ send' = [send EXCEPT ![c] = "dead"]
    /\ upEnd' = [upEnd EXCEPT ![c] = TRUE]
    /\ faults' = faults + 1
    /\ UNCHANGED <<written, got, up, downVars, broken, serveVars, slotVars, request,
                   jobVars>>

Break(c) ==
    /\ send[c] \in {"write", "read"} /\ c \notin broken /\ faults < MaxFaults
    /\ Reset({c})
    /\ faults' = faults + 1
    /\ UNCHANGED <<clientVars, upEnd, downEnd, serveVars, slotVars, request, jobVars>>

-----------------------------------------------------------------------------
(* Serve *)

\* Accept; an error, as on the closed listener, is retried at once and for ever.
Accept ==
    /\ serve = "accept" /\ backlog # <<>>
    /\ cur' = Head(backlog) /\ backlog' = Tail(backlog)
    /\ serve' = "acquire"
    /\ UNCHANGED <<clientVars, upVars, downVars, broken, open, slotVars, request,
                   jobVars, faults>>

\* Variant: the slot is not waited for.
AcquireNow ==
    /\ serve = "acquire"
    /\ semaphore' = semaphore + 1
    /\ serve' = "read"
    /\ UNCHANGED <<clientVars, upVars, downVars, broken, open, backlog, cur,
                   maxConcurrentClient, request, jobVars, faults>>

Acquire ==
    /\ serve = "acquire" /\ semaphore < maxConcurrentClient
    /\ semaphore' = semaphore + 1
    /\ serve' = "read"
    /\ UNCHANGED <<clientVars, upVars, downVars, broken, open, backlog, cur,
                   maxConcurrentClient, request, jobVars, faults>>

\* Variant: readAllRequest returns a slice of the buffer all connections are read into.
ReadShared ==
    /\ serve = "read" /\ cur \notin broken /\ up[cur] # <<>>
    /\ request' = [c \in Clients |->
                       IF c = cur THEN Append(request[c], Head(up[cur]))
                       ELSE IF job[c] = "split" THEN <<Head(up[cur])>> ELSE request[c]]
    /\ up' = [up EXCEPT ![cur] = Tail(@)]
    /\ UNCHANGED <<clientVars, upEnd, downVars, broken, serveVars, slotVars, jobVars,
                   faults>>

\* readAllRequest copies what it reads.
Read ==
    /\ serve = "read" /\ cur \notin broken /\ up[cur] # <<>>
    /\ request' = [request EXCEPT ![cur] = Append(@, Head(up[cur]))]
    /\ up' = [up EXCEPT ![cur] = Tail(@)]
    /\ UNCHANGED <<clientVars, upEnd, downVars, broken, serveVars, slotVars, jobVars,
                   faults>>

\* The end of the request, or nil after an error; the go statement.
ReadEnd ==
    /\ serve = "read"
    /\ \/ /\ cur \in broken
          /\ request' = [request EXCEPT ![cur] = <<>>]
       \/ /\ cur \notin broken /\ up[cur] = <<>> /\ upEnd[cur]
          /\ UNCHANGED request
    /\ job' = [job EXCEPT ![cur] = "split"]
    /\ serve' = "accept"
    /\ UNCHANGED <<clientVars, upVars, downVars, broken, open, backlog, cur, slotVars,
                   answer, faults>>

\* The listener is closed; connections it has not accepted are reset.
Shutdown ==
    /\ open
    /\ open' = FALSE
    /\ backlog' = <<>>
    /\ Reset(ToSet(backlog))
    /\ UNCHANGED <<clientVars, upEnd, downEnd, serve, cur, slotVars, request, jobVars,
                   faults>>

\* The application ends after Shutdown, which waits for nobody: Serve, which never
\* returns, and the goroutines end with it.  The kernel closes the connections the
\* process has open: what was written is delivered and then ends as if the goroutine
\* had closed it, but a connection with bytes nobody has read is reset.
Exit ==
    /\ ~ open /\ serve # "exited"
    /\ serve' = "exited"
    /\ semaphore' = 0
    /\ job' = [c \in Clients |-> IF c \in Held THEN "cut" ELSE job[c]]
    /\ downEnd' = [c \in Clients |-> downEnd[c] \/ c \in Held]
    /\ Reset({c \in Held : up[c] # <<>>})
    /\ UNCHANGED <<clientVars, upEnd, open, backlog, cur, maxConcurrentClient, request,
                   answer, faults>>

-----------------------------------------------------------------------------
(* The goroutine of a connection *)

\* Variant: the goroutine uses the connection of the loop.
LastConn(c) == cur

\* The connection it was given as a parameter.
Conn(c) == c

Goto(c, to) == job' = [job EXCEPT ![c] = to]

\* Variant: the deferred function is set up behind the checks of the request.
SplitBeforeDefer(c) ==
    /\ job[c] = "split"
    /\ \/ Goto(c, "over")
       \/ request[c] # <<>> /\ Goto(c, "handle")
    /\ UNCHANGED <<clientVars, upVars, downVars, broken, serveVars, slotVars, request,
                   answer, faults>>

\* Fewer than two parts, always so for nil, or no handler for the first: the connection
\* is closed.
Split(c) ==
    /\ job[c] = "split"
    /\ \/ Goto(c, "close")
       \/ request[c] # <<>> /\ Goto(c, "handle")
    /\ UNCHANGED <<clientVars, upVars, downVars, broken, serveVars, slotVars, request,
                   answer, faults>>

\* The handler calls Write of its context.
Write(c) ==
    /\ job[c] = "handle"
    /\ Goto(c, "write")
    /\ UNCHANGED <<clientVars, upVars, downVars, broken, serveVars, slotVars, request,
                   answer, faults>>

\* A dead client takes nothing in any more and nobody can tell.
Transmit(c, w) ==
    LET d == Conn(c)
    IN  /\ d \notin broken /\ ~ downEnd[d]
        /\ IF send[d] = "dead" THEN UNCHANGED down
           ELSE Len(down[d]) < Window /\ down' = [down EXCEPT ![d] = Append(@, w)]
        /\ answer' = [answer EXCEPT ![c] = Append(@, w)]

\* A piece of the response.
WritePiece(c) ==
    /\ job[c] = "write" /\ Len(answer[c]) < Responses
    /\ Transmit(c, Response(c)[Len(answer[c]) + 1])
    /\ UNCHANGED <<clientVars, upVars, downEnd, broken, serveVars, slotVars, request,
                   job, faults>>

\* After the last piece Write closes this side of the connection: another Write of the
\* handler fails and changes nothing.  On a broken connection Write fails.
WriteEnd(c) ==
    /\ job[c] = "write"
    /\ c \in broken \/ Len(answer[c]) = Responses
    /\ downEnd' = [downEnd EXCEPT ![Conn(c)] = TRUE]
    /\ Goto(c, "wrote")
    /\ UNCHANGED <<clientVars, upVars, down, broken, serveVars, slotVars, request,
                   answer, faults>>

\* The handler returns, or its error or panic is to be written.
HandlerEnds(c) ==
    /\ job[c] \in {"handle", "wrote"}
    /\ \E to \in {"close", "error"} : Goto(c, to)
    /\ UNCHANGED <<clientVars, upVars, downVars, broken, serveVars, slotVars, request,
                   answer, faults>>

\* The deferred write of the error fails when the handler has written before.
WriteError(c) ==
    /\ job[c] = "error"
    /\ \/ Transmit(c, <<c, Error>>)
       \/ (c \in broken \/ downEnd[c]) /\ UNCHANGED <<down, answer>>
    /\ Goto(c, "close")
    /\ UNCHANGED <<clientVars, upVars, downEnd, broken, serveVars, slotVars, request,
                   faults>>

\* Variant: only the slot is given back in the deferred function.
CloseForgotten(c) ==
    /\ job[c] = "close"
    /\ Goto(c, "release")
    /\ UNCHANGED <<clientVars, upVars, downVars, broken, serveVars, slotVars, request,
                   answer, faults>>

Close(c) ==
    /\ job[c] = "close"
    /\ downEnd' = [downEnd EXCEPT ![Conn(c)] = TRUE]
    /\ Goto(c, "release")
    /\ UNCHANGED <<clientVars, upVars, down, broken, serveVars, slotVars, request,
                   answer, faults>>

Release(c) ==
    /\ job[c] = "release"
    /\ semaphore' = semaphore - 1
    /\ Goto(c, "over")
    /\ UNCHANGED <<clientVars, upVars, downVars, broken, serveVars, maxConcurrentClient,
                   request, answer, faults>>

-----------------------------------------------------------------------------
SendNext(c) ==
    \/ NewTCPSender(c) \/ SendWrite(c) \/ SendLost(c) \/ SendFails(c)
    \/ SendCloseWrite(c) \/ SendRead(c) \/ SendReturn(c)

ServeNext == Accept \/ Acquire \/ Read \/ ReadEnd

JobNext(c) ==
    \/ Split(c) \/ Write(c) \/ WritePiece(c) \/ WriteEnd(c) \/ HandlerEnds(c)
    \/ WriteError(c) \/ Close(c) \/ Release(c)

Next ==
    \/ ServeNext \/ Shutdown \/ Exit
    \/ \E c \in Clients : SendNext(c) \/ SendAgain(c) \/ Die(c) \/ Break(c) \/ JobNext(c)

Spec == Init /\ [][Next]_vars

\* Goroutines and clients that can go on do so, handlers return; nothing makes a
\* stalling client, the end of the application or a second Send happen.
Fairness ==
    /\ WF_vars(ServeNext)
    /\ \A c \in Clients : WF_vars(JobNext(c))
    /\ \A c \in Clients \ Stalling : WF_vars(SendNext(c))

FairSpec == Spec /\ Fairness

-----------------------------------------------------------------------------
(* Properties *)

\* The slots in use are those of the goroutines that run and of the connection Serve
\* reads from: none is lost on a request that is malformed, unknown or broken off.
SlotsAccounted ==
    serve # "exited" => semaphore = Cardinality(Running) + (IF serve = "read" THEN 1 ELSE 0)

\* Serve reads the next requests while handlers run, and every handler is still given
\* the request of its own client, all of it unless that client died while writing.
WholeRequest ==
    \A c \in Clients : job[c] \in {"handle", "write", "wrote", "error"} =>
        \/ request[c] = Request(c)
        \/ send[c] = "dead" /\ IsPrefix(request[c], Request(c))

\* What a Send has returned is what the goroutine of its own connection wrote, to the
\* end, and stays so when the sender is used again: a response or the text of an error,
\* never both; a part of a response only when the connection was reset or the process of
\* the server ended with it open, which look the same to the caller of Send.
ResponseWhole ==
    \A c \in Clients : send[c] \in {"ok", "refused"} =>
        /\ c \notin broken => got[c] = answer[c]
        /\ \/ got[c] \in {<<>>, Response(c), <<<<c, Error>>>>}
           \/ (c \in broken \/ job[c] = "cut") /\ IsPrefix(got[c], Response(c))

\* Serve waits in readAllRequest for a client that stalls, or every slot belongs to a
\* goroutine that writes to one.
HeldUp ==
    \/ serve = "read" /\ cur \in Stalling
    \/ Cardinality({c \in Stalling : job[c] \in {"write", "error"}}) = maxConcurrentClient

\* Every Send returns, whatever other clients die or are cut off and though the server
\* is shut down, unless the server is held up for ever by a client that stalls.
SendReturns ==
    \/ \A c \in Clients \ Stalling : send[c] = "write" ~> send[c] \in SendOver
    \/ <>[]HeldUp
=============================================================================
