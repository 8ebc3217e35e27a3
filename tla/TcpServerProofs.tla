-------------------------- MODULE TcpServerProofs --------------------------
(***************************************************************************)
(* The safety of the TCP server for any number of clients, requests and    *)
(* responses of any number of writes, any capacity of the connections, any *)
(* number of slots and any number of faults; and that the server and its   *)
(* senders never wait for each other all at once.                          *)
(***************************************************************************)
EXTENDS TcpServer, FiniteSetTheorems, TLAPS

-----------------------------------------------------------------------------
(* The inductive invariant *)

Writes == Clients \X Nat

SeqInv ==
    /\ up \in [Clients -> Seq(Writes)] /\ request \in [Clients -> Seq(Writes)]
    /\ down \in [Clients -> Seq(Writes)] /\ answer \in [Clients -> Seq(Writes)]
    /\ got \in [Clients -> Seq(Writes)]
    /\ backlog \in Seq(Clients)

\* The types TypeOK gives, without its bounds on what is on the way and was read.
PlainType ==
    /\ send \in [Clients -> {"new", "write", "read"} \cup SendOver]
    /\ written \in [Clients -> 0..Requests]
    /\ upEnd \in [Clients -> BOOLEAN] /\ downEnd \in [Clients -> BOOLEAN]
    /\ broken \subseteq Clients
    /\ open \in BOOLEAN
    /\ serve \in {"accept", "acquire", "read", "exited"}
    /\ cur \in Clients \cup {None}
    /\ maxConcurrentClient \in MaxClients /\ semaphore \in 0..maxConcurrentClient
    /\ job \in [Clients -> {"none", "split", "handle", "write", "wrote", "error",
                            "close", "release", "over", "cut"}]
    /\ faults \in 0..MaxFaults

\* SlotsAccounted, in the states after Exit too.
SlotInv == semaphore = Cardinality(Running) + (IF serve = "read" THEN 1 ELSE 0)

\* A connection is in the backlog once, or the one Serve works on, or has had its
\* goroutine started.
BacklogInv ==
    /\ \A i, j \in 1..Len(backlog) : backlog[i] = backlog[j] => i = j
    /\ \A i \in 1..Len(backlog) : send[backlog[i]] # "new" /\ job[backlog[i]] = "none"
    /\ serve \in {"acquire", "read"} =>
           /\ cur \in Clients /\ send[cur] # "new" /\ job[cur] = "none"
           /\ \A i \in 1..Len(backlog) : backlog[i] # cur
    /\ \A c \in Clients : send[c] = "new" => job[c] = "none"

\* Some of the first n writes of whole were read and some are on the way, in order.
Carried(read, way, whole, n) ==
    /\ Len(read) + Len(way) <= n
    /\ \A i \in 1..Len(read) : read[i] = whole[i]
    /\ \A i \in 1..Len(way) : way[i] = whole[Len(read) + i]

\* What Serve has read of a request, and what is on the way, are the writes of that
\* client in their order.
UpAt(c) ==
    /\ Len(up[c]) <= Window
    /\ Carried(request[c], up[c], Request(c), written[c])
    /\ c \notin broken => Len(request[c]) + Len(up[c]) = written[c]
    /\ c \in broken => up[c] = <<>>
    /\ upEnd[c] => send[c] = "dead" \/ written[c] = Requests

\* A goroutine is given a whole request, nothing, or what a dead client had written.
RequestAt(c) ==
    /\ job[c] \notin {"none", "cut"} =>
           request[c] = <<>> \/ Len(request[c]) = Requests \/ send[c] = "dead"
    /\ job[c] \in {"handle", "write", "wrote", "error"} => request[c] # <<>>

Partial(c, s) ==
    /\ Len(s) <= Responses
    /\ \A i \in 1..Len(s) : s[i] = <<c, i>>

\* Nothing, a whole response, or the text of an error.
Complete(c, s) ==
    \/ s = <<>>
    \/ Partial(c, s) /\ Len(s) = Responses
    \/ s = <<<<c, Error>>>>

\* A goroutine writes a response or an error, never both, and ends this direction of
\* its connection behind what is complete, unless the end of the process does.
AnswerAt(c) ==
    /\ Complete(c, answer[c]) \/ Partial(c, answer[c])
    /\ downEnd[c] => c \in broken \/ Complete(c, answer[c]) \/ job[c] = "cut"
    /\ job[c] \in {"none", "split", "handle"} => answer[c] = <<>> /\ ~ downEnd[c]
    /\ job[c] = "write" => Partial(c, answer[c]) /\ ~ downEnd[c]
    /\ job[c] = "wrote" => downEnd[c]
    /\ job[c] = "error" => answer[c] = <<>> \/ downEnd[c]
    /\ job[c] = "close" => c \in broken \/ Complete(c, answer[c])

\* What a sender has read, and what is on the way to it, are the writes of the
\* goroutine of its connection in their order; it returned behind the last of them.
DownAt(c) ==
    /\ Len(down[c]) <= Window
    /\ Carried(got[c], down[c], answer[c], Len(answer[c]))
    /\ c \notin broken /\ send[c] # "dead"
           => Len(got[c]) + Len(down[c]) = Len(answer[c])
    /\ c \in broken => down[c] = <<>>
    /\ send[c] \in {"ok", "refused"} => c \in broken \/ (downEnd[c] /\ down[c] = <<>>)

UpInv      == \A c \in Clients : UpAt(c)
RequestInv == \A c \in Clients : RequestAt(c)
AnswerInv  == \A c \in Clients : AnswerAt(c)
DownInv    == \A c \in Clients : DownAt(c)

IInv ==
    /\ SeqInv /\ PlainType /\ SlotInv /\ BacklogInv
    /\ UpInv /\ RequestInv /\ AnswerInv /\ DownInv

-----------------------------------------------------------------------------
(* What a connection carries *)

\* What a sequence is with one more element.
LEMMA Appended ==
  ASSUME NEW S, NEW s \in Seq(S), NEW x \in S
  PROVE  /\ Append(s, x) \in Seq(S) /\ Len(Append(s, x)) = Len(s) + 1
         /\ Append(s, x)[Len(s) + 1] = x
         /\ \A i \in 1..Len(s) : Append(s, x)[i] = s[i]
  OBVIOUS

\* What a sequence is without its first element.
LEMMA Taken ==
  ASSUME NEW S, NEW s \in Seq(S), s # <<>>
  PROVE  /\ Tail(s) \in Seq(S) /\ Len(Tail(s)) = Len(s) - 1 /\ Len(s) > 0
         /\ Head(s) = s[1] /\ Head(s) \in S
         /\ \A i \in 1..Len(s) - 1 : Tail(s)[i] = s[i + 1]
  OBVIOUS

\* The empty sequence is one of any type.
LEMMA EmptyTyped == \A S : <<>> \in Seq(S)
  OBVIOUS

\* The empty sequence is the one without elements.
LEMMA EmptyLen ==
  ASSUME NEW S, NEW s \in Seq(S)
  PROVE  /\ Len(s) \in Nat /\ (s = <<>> <=> Len(s) = 0)
         /\ <<>> \in Seq(S) /\ Len(<<>>) = 0
  OBVIOUS

\* The reader takes the next write.
LEMMA CarriedRead ==
  ASSUME NEW S, NEW read \in Seq(S), NEW way \in Seq(S), NEW whole, NEW n \in Nat,
         Carried(read, way, whole, n), way # <<>>
  PROVE  /\ Carried(Append(read, Head(way)), Tail(way), whole, n)
         /\ Len(Append(read, Head(way))) + Len(Tail(way)) = Len(read) + Len(way)
         /\ Len(Tail(way)) < Len(way)
  <1> DEFINE a == Len(read)  b == Len(way)  r == Append(read, Head(way))  w == Tail(way)
  <1>1. /\ a \in Nat /\ b \in Nat /\ b > 0 /\ Len(r) = a + 1 /\ Len(w) = b - 1
        /\ r[a + 1] = way[1] /\ \A i \in 1..a : r[i] = read[i]
        /\ \A i \in 1..b - 1 : w[i] = way[i + 1]
    BY Appended, Taken
  <1>2. a + b <= n /\ way[1] = whole[a + 1]
    BY <1>1 DEF Carried
  <1>3. /\ \A i \in 1..a : read[i] = whole[i]
        /\ \A i \in 1..b : way[i] = whole[a + i]
    BY DEF Carried
  <1> HIDE DEF a, b, r, w
  <1>4. \A i \in 1..a + 1 : i = a + 1 \/ i \in 1..a
    BY <1>1
  <1>5. \A i \in 1..a + 1 : r[i] = whole[i]
    BY <1>1, <1>2, <1>3, <1>4
  <1>6. \A i \in 1..b - 1 : /\ i + 1 \in 1..b /\ a + (i + 1) = (a + 1) + i
                            /\ w[i] = way[i + 1]
    BY <1>1
  <1>7. \A i \in 1..b - 1 : w[i] = whole[(a + 1) + i]
    <2> SUFFICES ASSUME NEW i \in 1..b - 1 PROVE w[i] = whole[(a + 1) + i]
      OBVIOUS
    <2>1. w[i] = whole[a + (i + 1)]
      BY <1>3, <1>6
    <2> QED
      BY <1>6, <2>1
  <1>8. Len(r) + Len(w) = a + b /\ Len(w) < b
    BY <1>1
  <1>9. Carried(r, w, whole, n)
    BY <1>1, <1>2, <1>5, <1>7, <1>8 DEF Carried
  <1> QED
    BY <1>8, <1>9 DEF a, b, r, w

\* The writer adds the next one ...
LEMMA CarriedWrite ==
  ASSUME NEW S, NEW read \in Seq(S), NEW way \in Seq(S), NEW whole, NEW more,
         NEW n \in Nat, NEW x \in S,
         Carried(read, way, whole, n), Len(read) + Len(way) = n,
         \A i \in 1..n : more[i] = whole[i], more[n + 1] = x
  PROVE  /\ Carried(read, Append(way, x), more, n + 1)
         /\ Len(read) + Len(Append(way, x)) = n + 1
  <1> DEFINE a == Len(read)  b == Len(way)  w == Append(way, x)
  <1>1. /\ a \in Nat /\ b \in Nat /\ Len(w) = b + 1 /\ a + b = n
        /\ w[b + 1] = x /\ \A i \in 1..b : w[i] = way[i]
    BY Appended
  <1>2. /\ \A i \in 1..a : read[i] = whole[i]
        /\ \A i \in 1..b : way[i] = whole[a + i]
    BY DEF Carried
  <1> HIDE DEF a, b, w
  <1>3. /\ \A i \in 1..a : i \in 1..n
        /\ \A i \in 1..b : a + i \in 1..n
        /\ \A i \in 1..b + 1 : i \in 1..b \/ (i = b + 1 /\ a + i = n + 1)
    BY <1>1
  <1>4. \A i \in 1..a : read[i] = more[i]
    BY <1>2, <1>3
  <1>5. \A i \in 1..b + 1 : w[i] = more[a + i]
    BY <1>1, <1>2, <1>3
  <1>6. a + Len(w) = n + 1
    BY <1>1
  <1>7. Carried(read, w, more, n + 1)
    BY <1>1, <1>4, <1>5, <1>6 DEF Carried, a
  <1> QED
    BY <1>6, <1>7 DEF a, w

\* ... or one that a dead client does not take in.
LEMMA CarriedMore ==
  ASSUME NEW S, NEW read \in Seq(S), NEW way \in Seq(S), NEW whole, NEW more,
         NEW n \in Nat, Carried(read, way, whole, n), \A i \in 1..n : more[i] = whole[i]
  PROVE  Carried(read, way, more, n + 1)
  <1> DEFINE a == Len(read)  b == Len(way)
  <1>1. a \in Nat /\ b \in Nat /\ a + b <= n
    BY DEF Carried
  <1>2. /\ \A i \in 1..a : read[i] = whole[i]
        /\ \A i \in 1..b : way[i] = whole[a + i]
    BY DEF Carried
  <1> HIDE DEF a, b
  <1>3. /\ \A i \in 1..a : i \in 1..n
        /\ \A i \in 1..b : a + i \in 1..n
    BY <1>1
  <1>4. /\ \A i \in 1..a : read[i] = more[i]
        /\ \A i \in 1..b : way[i] = more[a + i]
    BY <1>2, <1>3
  <1>5. a + b <= n + 1
    BY <1>1
  <1> QED
    BY <1>4, <1>5 DEF Carried, a, b

\* What was on the way is lost.
LEMMA CarriedLost ==
  ASSUME NEW S, NEW read \in Seq(S), NEW way \in Seq(S), NEW whole, NEW n \in Nat,
         Carried(read, way, whole, n)
  PROVE  Carried(read, <<>>, whole, n)
  BY DEF Carried

-----------------------------------------------------------------------------
(* Sequences and the other types *)

\* The bounds are positive numbers.
LEMMA OptionTypes ==
  /\ Requests \in Nat \ {0} /\ Responses \in Nat \ {0} /\ Window \in Nat \ {0}
  /\ \A m \in MaxClients : m \in Nat \ {0}
  BY TcpAssumption

\* The writes of a request and of a response are their client's, numbered.
LEMMA PieceTypes ==
  ASSUME NEW c \in Clients
  PROVE  /\ \A i \in 1..Requests : Request(c)[i] = <<c, i>> /\ Request(c)[i] \in Writes
         /\ \A i \in 1..Responses : Response(c)[i] = <<c, i>> /\ Response(c)[i] \in Writes
         /\ <<c, Error>> \in Writes
         /\ Len(Request(c)) = Requests /\ Len(Response(c)) = Responses
         /\ Request(c) \in Seq(Writes) /\ Response(c) \in Seq(Writes)
  <1>1. Requests \in Nat /\ Responses \in Nat
    BY TcpAssumption
  <1>2. \A i \in Nat : <<c, i>> \in Writes
    BY DEF Writes
  <1> QED
    BY <1>1, <1>2 DEF Request, Response, Error

\* A write of the server arrives in the window of its connection, or nowhere when the
\* client is dead.
LEMMA TransmitFacts ==
  ASSUME NEW c \in Clients, NEW w, Transmit(c, w)
  PROVE  /\ c \notin broken /\ ~ downEnd[c]
         /\ answer' = [answer EXCEPT ![c] = Append(@, w)]
         /\ send[c] = "dead" => down' = down
         /\ send[c] # "dead" => /\ Len(down[c]) < Window
                                /\ down' = [down EXCEPT ![c] = Append(@, w)]
  BY DEF Transmit, Conn

\* A write of the server keeps the types of what is on the way.
LEMMA TransmitSeq ==
  ASSUME SeqInv, NEW c \in Clients, NEW w \in Writes, Transmit(c, w)
  PROVE  down' \in [Clients -> Seq(Writes)] /\ answer' \in [Clients -> Seq(Writes)]
  <1>1. Append(answer[c], w) \in Seq(Writes) /\ Append(down[c], w) \in Seq(Writes)
    BY DEF SeqInv
  <1>2. answer' = [answer EXCEPT ![c] = Append(@, w)]
    BY TransmitFacts
  <1>3. down' = down \/ down' = [down EXCEPT ![c] = Append(@, w)]
    BY TransmitFacts
  <1>4. answer' \in [Clients -> Seq(Writes)]
    BY <1>1, <1>2 DEF SeqInv
  <1>5. down' \in [Clients -> Seq(Writes)]
    BY <1>1, <1>3 DEF SeqInv
  <1> QED
    BY <1>4, <1>5

\* The piece a response goes on with.
LEMMA PieceWritten ==
  ASSUME SeqInv, AnswerInv, NEW c \in Clients, WritePiece(c)
  PROVE  /\ Partial(c, answer[c]) /\ Len(answer[c]) \in Nat /\ Len(answer[c]) < Responses
         /\ Transmit(c, <<c, Len(answer[c]) + 1>>)
         /\ <<c, Len(answer[c]) + 1>> \in Writes
  <1> DEFINE n == Len(answer[c])
  <1>1. n \in Nat /\ n < Responses /\ Partial(c, answer[c])
    BY DEF SeqInv, AnswerInv, AnswerAt, WritePiece
  <1>2. Transmit(c, Response(c)[n + 1])
    BY DEF WritePiece
  <1> HIDE DEF n
  <1>3. n + 1 \in 1..Responses
    BY <1>1, TcpAssumption
  <1>4. Response(c)[n + 1] = <<c, n + 1>> /\ Response(c)[n + 1] \in Writes
    BY <1>3, PieceTypes
  <1> QED
    BY <1>1, <1>2, <1>4 DEF n

\* The write a request goes on with.
LEMMA SendWritten ==
  ASSUME PlainType, NEW c \in Clients, SendWrite(c) \/ SendLost(c)
  PROVE  /\ written[c] \in Nat /\ written[c] + 1 \in 1..Requests
         /\ Request(c)[written[c] + 1] \in Writes
  <1>1. written[c] \in 0..Requests /\ written[c] < Requests /\ Requests \in Nat
    BY TcpAssumption DEF PlainType, SendWrite, SendLost
  <1> DEFINE n == written[c]
  <1> HIDE DEF n
  <1>2. n \in Nat /\ n + 1 \in 1..Requests
    BY <1>1 DEF n
  <1>3. Request(c)[n + 1] \in Writes
    BY <1>2, PieceTypes
  <1> QED
    BY <1>2, <1>3 DEF n

\* A reset empties both directions of the connections it concerns and leaves the
\* others.
LEMMA ResetFacts ==
  ASSUME SeqInv, NEW C \in SUBSET Clients, Reset(C)
  PROVE  /\ broken' = broken \cup C
         /\ up' \in [Clients -> Seq(Writes)] /\ down' \in [Clients -> Seq(Writes)]
         /\ \A c \in Clients : /\ c \in C => up'[c] = <<>> /\ down'[c] = <<>>
                               /\ c \notin C => up'[c] = up[c] /\ down'[c] = down[c]
  <1>1. <<>> \in Seq(Writes)
    OBVIOUS
  <1> QED
    BY <1>1 DEF Reset, SeqInv

\* Who resets connections, and which.
LEMMA WhoResets ==
  ASSUME SeqInv, (\E c \in Clients : Break(c) \/ SendLost(c)) \/ Shutdown \/ Exit
  PROVE  \E C \in SUBSET Clients : Reset(C)
  <1>1. ToSet(backlog) \in SUBSET Clients
    BY DEF SeqInv, ToSet
  <1>2. ASSUME NEW c \in Clients, Break(c) \/ SendLost(c) PROVE Reset({c})
    BY <1>2 DEF Break, SendLost
  <1>3. CASE Exit
    <2>1. {c \in Held : up[c] # <<>>} \in SUBSET Clients
      BY DEF Held
    <2> QED
      BY <1>3, <2>1 DEF Exit
  <1> QED
    BY <1>1, <1>2, <1>3 DEF Shutdown

\* What is on the way, and what was read, stays a sequence of writes.
LEMMA SeqInvStep == IInv /\ [Next]_vars => SeqInv'
  <1> SUFFICES ASSUME IInv, [Next]_vars PROVE SeqInv'
    OBVIOUS
  <1>0. SeqInv /\ PlainType /\ BacklogInv /\ AnswerInv
    BY DEF IInv
  <1> USE DEF clientVars, upVars, downVars, serveVars, slotVars, jobVars
  <1>1. ASSUME NEW c \in Clients, NewTCPSender(c) PROVE SeqInv'
    <2>1. backlog' \in Seq(Clients)
      BY <1>0, <1>1 DEF NewTCPSender, SeqInv
    <2> QED
      BY <1>0, <1>1, <2>1 DEF NewTCPSender, SeqInv
  <1>2. ASSUME NEW c \in Clients, SendWrite(c) PROVE SeqInv'
    <2>1. Append(up[c], Request(c)[written[c] + 1]) \in Seq(Writes)
      BY <1>0, <1>2, SendWritten DEF SeqInv
    <2> QED
      BY <1>0, <1>2, <2>1 DEF SendWrite, SeqInv
  <1>3. ASSUME NEW c \in Clients, SendRead(c) PROVE SeqInv'
    <2>1. /\ Append(got[c], Head(down[c])) \in Seq(Writes)
          /\ Tail(down[c]) \in Seq(Writes)
      BY <1>0, <1>3, Taken DEF SendRead, SeqInv
    <2> QED
      BY <1>0, <1>3, <2>1 DEF SendRead, SeqInv
  <1>4. ASSUME NEW c \in Clients,
               SendFails(c) \/ SendCloseWrite(c) \/ SendReturn(c) \/ SendAgain(c) \/ Die(c)
        PROVE  SeqInv'
    BY <1>0, <1>4 DEF SendFails, SendCloseWrite, SendReturn, SendAgain, Die, SeqInv
  <1>5. CASE (\E c \in Clients : Break(c) \/ SendLost(c)) \/ Shutdown \/ Exit
    <2>1. up' \in [Clients -> Seq(Writes)] /\ down' \in [Clients -> Seq(Writes)]
      BY <1>0, <1>5, WhoResets, ResetFacts
    <2>2. request' = request /\ answer' = answer /\ got' = got
      BY <1>5 DEF Break, SendLost, Shutdown, Exit
    <2>3. backlog' = backlog \/ backlog' = <<>>
      BY <1>5 DEF Break, SendLost, Shutdown, Exit
    <2>4. backlog' \in Seq(Clients)
      BY <1>0, <2>3, EmptyTyped DEF SeqInv
    <2> QED
      BY <1>0, <2>1, <2>2, <2>4 DEF SeqInv
  <1>6. CASE Accept
    <2>1. Tail(backlog) \in Seq(Clients)
      BY <1>0, <1>6, Taken DEF Accept, SeqInv
    <2> QED
      BY <1>0, <1>6, <2>1 DEF Accept, SeqInv
  <1>7. CASE Acquire
    BY <1>0, <1>7 DEF Acquire, SeqInv
  <1>8. CASE Read
    <2>1. cur \in Clients
      BY <1>0, <1>8 DEF Read, BacklogInv
    <2>2. /\ Append(request[cur], Head(up[cur])) \in Seq(Writes)
          /\ Tail(up[cur]) \in Seq(Writes)
      BY <1>0, <1>8, <2>1, Taken DEF Read, SeqInv
    <2> QED
      BY <1>0, <1>8, <2>1, <2>2 DEF Read, SeqInv
  <1>9. CASE ReadEnd
    <2>1. request' = request \/ request' = [request EXCEPT ![cur] = <<>>]
      BY <1>9 DEF ReadEnd
    <2>2. request' \in [Clients -> Seq(Writes)]
      BY <1>0, <2>1, EmptyTyped DEF SeqInv
    <2>3. UNCHANGED <<up, down, answer, got, backlog>>
      BY <1>9 DEF ReadEnd
    <2> QED
      BY <1>0, <2>2, <2>3 DEF SeqInv
  <1>10. ASSUME NEW c \in Clients, WritePiece(c) \/ WriteError(c) PROVE SeqInv'
    <2>1. \/ UNCHANGED <<down, answer>>
          \/ \E w \in Writes : Transmit(c, w)
      BY <1>0, <1>10, PieceWritten, PieceTypes DEF WriteError
    <2>2. down' \in [Clients -> Seq(Writes)] /\ answer' \in [Clients -> Seq(Writes)]
      BY <1>0, <2>1, TransmitSeq DEF SeqInv
    <2> QED
      BY <1>0, <1>10, <2>2 DEF WritePiece, WriteError, SeqInv
  <1>11. ASSUME NEW c \in Clients,
                \/ Split(c) \/ Write(c) \/ WriteEnd(c) \/ HandlerEnds(c)
                \/ Close(c) \/ Release(c)
         PROVE  SeqInv'
    BY <1>0, <1>11 DEF Split, Write, WriteEnd, HandlerEnds, Close, Release, SeqInv
  <1>12. CASE UNCHANGED vars
    BY <1>0, <1>12 DEF vars, SeqInv
  <1> QED
    BY <1>1, <1>2, <1>3, <1>4, <1>5, <1>6, <1>7, <1>8, <1>9, <1>10, <1>11, <1>12
       DEF Next, SendNext, ServeNext, JobNext

-----------------------------------------------------------------------------
(* Requests *)

\* The steps of a client that change nothing but where it is, and those of a
\* goroutine, leave requests alone.
RequestVars == <<request, up, upEnd, written, broken>>

\* A dead client stays dead.
LEMMA DeadStays ==
  ASSUME PlainType, [Next]_vars, NEW c \in Clients, send[c] = "dead"
  PROVE  send'[c] = "dead"
  <1>1. ASSUME NEW d \in Clients, SendNext(d) \/ SendAgain(d) \/ Die(d)
        PROVE  send'[c] = "dead"
    BY <1>1 DEF PlainType, SendNext, NewTCPSender, SendWrite, SendLost, SendFails, SendCloseWrite,
       SendRead, SendReturn, SendAgain, Die, clientVars
  <1>2. CASE ServeNext \/ Shutdown \/ Exit \/ \E d \in Clients : Break(d)
    BY <1>2 DEF ServeNext, Accept, Acquire, Read, ReadEnd, Shutdown, Exit, Break,
       clientVars
  <1>3. ASSUME NEW d \in Clients, JobNext(d) PROVE send'[c] = "dead"
    BY <1>3 DEF JobNext, Split, Write, WritePiece, WriteEnd, HandlerEnds, WriteError,
       Close, Release, clientVars
  <1>4. CASE UNCHANGED vars
    BY <1>4 DEF vars, clientVars
  <1> QED
    BY <1>1, <1>2, <1>3, <1>4 DEF Next

\* The connection of a client none of whose request was moved.
LEMMA UpFrame ==
  ASSUME NEW c \in Clients, UpAt(c),
         request'[c] = request[c], up'[c] = up[c], upEnd'[c] = upEnd[c],
         written'[c] = written[c], c \in broken' <=> c \in broken,
         send[c] = "dead" => send'[c] = "dead"
  PROVE  UpAt(c)'
  BY DEF UpAt, Request

\* A reset keeps what is known of the way to the server.
LEMMA UpReset ==
  ASSUME SeqInv, PlainType, NEW c \in Clients, UpAt(c), NEW C \in SUBSET Clients, Reset(C),
         request'[c] = request[c], upEnd'[c] = upEnd[c],
         written'[c] = written[c], send'[c] = send[c]
  PROVE  UpAt(c)'
  <1>1. CASE c \notin C
    <2>1. up'[c] = up[c] /\ (c \in broken' <=> c \in broken)
      BY <1>1, ResetFacts
    <2> QED
      BY <2>1, UpFrame
  <1>2. CASE c \in C
    <2>1. up'[c] = <<>> /\ c \in broken'
      BY <1>2, ResetFacts
    <2>2. written[c] \in Nat /\ request[c] \in Seq(Writes) /\ up[c] \in Seq(Writes)
      BY TcpAssumption DEF PlainType, SeqInv
    <2>3. Carried(request[c], <<>>, Request(c), written[c])
      BY <2>2, CarriedLost DEF UpAt
    <2>4. Len(<<>>) <= Window
      BY TcpAssumption
    <2> QED
      BY <2>1, <2>3, <2>4 DEF UpAt, Request
  <1> QED
    BY <1>1, <1>2

\* Every step keeps the order of the writes of a request.
LEMMA UpInvStep == IInv /\ [Next]_vars => UpInv'
  <1> SUFFICES ASSUME IInv, [Next]_vars, NEW e \in Clients PROVE UpAt(e)'
    BY DEF UpInv
  <1>0. /\ SeqInv /\ PlainType /\ BacklogInv /\ UpAt(e)
        /\ request[e] \in Seq(Writes) /\ up[e] \in Seq(Writes)
        /\ written[e] \in Nat
    BY TcpAssumption DEF IInv, UpInv, SeqInv, PlainType
  <1>d. send[e] = "dead" => send'[e] = "dead"
    BY <1>0, DeadStays
  <1> USE DEF clientVars, upVars, downVars, serveVars, slotVars, jobVars
  <1>1. ASSUME UNCHANGED RequestVars PROVE UpAt(e)'
    BY <1>0, <1>d, <1>1, UpFrame DEF RequestVars
  <1>2. ASSUME NEW c \in Clients, SendWrite(c) PROVE UpAt(e)'
    <2> DEFINE n == written[c]
    <2>1. CASE e # c
      <3>1. /\ up'[e] = up[e] /\ written'[e] = written[e] /\ UNCHANGED <<request, upEnd, broken>>
        BY <1>0, <1>2, <2>1 DEF SendWrite, SeqInv, PlainType
      <3> QED
        BY <1>0, <1>d, <3>1, UpFrame
    <2>2. CASE e = c
      <3>1. /\ up'[c] = Append(up[c], Request(c)[n + 1])
            /\ written'[c] = n + 1
            /\ Len(up[c]) < Window /\ c \notin broken
            /\ send[c] # "dead"
            /\ UNCHANGED <<request, upEnd, broken>>
        BY <1>0, <1>2 DEF SendWrite, SeqInv, PlainType
      <3>2. n \in Nat /\ n + 1 \in 1..Requests /\ Request(c)[n + 1] \in Writes
        BY <1>0, <1>2, SendWritten
      <3>3. /\ Carried(request[c], up[c], Request(c), n)
            /\ Len(request[c]) + Len(up[c]) = n
            /\ ~ upEnd[c]
        <4>1. n < Requests /\ send[c] # "dead" /\ c \notin broken
          BY <1>2 DEF SendWrite
        <4>2. n # Requests
          BY <3>2, <4>1, OptionTypes
        <4> QED
          BY <1>0, <2>2, <4>1, <4>2 DEF UpAt
      <3> DEFINE W == Request(c)  x == W[n + 1]  r == request[c]  u == up[c]
      <3> HIDE DEF n, W, x, r, u
      <3>4. /\ Carried(r, Append(u, x), W, n + 1)
            /\ Len(r) + Len(Append(u, x)) = n + 1
        <4>1. r \in Seq(Writes) /\ u \in Seq(Writes) /\ x \in Writes /\ n \in Nat
          BY <1>0, <2>2, <3>2 DEF r, u, x, W
        <4>2. Carried(r, u, W, n) /\ Len(r) + Len(u) = n /\ W[n + 1] = x
          BY <3>3 DEF r, u, x, W
        <4> QED
          BY <4>1, <4>2, CarriedWrite
      <3>5. Len(Append(u, x)) <= Window
        <4>1. Len(Append(u, x)) = Len(u) + 1 /\ Len(u) \in Nat
          BY <1>0, <2>2, <3>2, Appended, EmptyLen DEF u, x, W
        <4> QED
          BY <3>1, <4>1, OptionTypes DEF u
      <3>6. up'[c] = Append(u, x) /\ request'[c] = r /\ written'[c] = n + 1
        BY <3>1 DEF u, x, r, W
      <3>7. Request(c)' = W
        BY DEF W, Request
      <3> QED
        BY <2>2, <3>1, <3>3, <3>4, <3>5, <3>6, <3>7 DEF UpAt
    <2> QED
      BY <2>1, <2>2
  <1>3. ASSUME NEW c \in Clients, SendCloseWrite(c) \/ Die(c) PROVE UpAt(e)'
    <2>1. UNCHANGED <<request, up, written, broken>>
      BY <1>3 DEF SendCloseWrite, Die
    <2>2. CASE e # c
      <3>1. upEnd'[e] = upEnd[e]
        BY <1>0, <1>3, <2>2 DEF SendCloseWrite, Die, PlainType
      <3> QED
        BY <1>0, <1>d, <2>1, <3>1, UpFrame
    <2>3. CASE e = c
      <3>1. send'[c] = "dead" \/ written[c] = Requests
        BY <1>0, <1>3 DEF SendCloseWrite, Die, PlainType
      <3> QED
        BY <1>0, <2>1, <2>3, <3>1 DEF UpAt, Request
    <2> QED
      BY <2>2, <2>3
  <1>4. CASE (\E c \in Clients : Break(c)) \/ Shutdown \/ Exit
    <2>1. UNCHANGED <<request, upEnd, written, send>>
      BY <1>4 DEF Break, Shutdown, Exit
    <2> QED
      BY <1>0, <1>4, <2>1, WhoResets, UpReset
  <1>5. ASSUME NEW c \in Clients, SendLost(c) PROVE UpAt(e)'
    <2>1. /\ Reset({c}) /\ UNCHANGED <<request, upEnd, send>>
          /\ written' = [written EXCEPT ![c] = @ + 1]
          /\ send[c] = "write" /\ written[c] < Requests
      BY <1>5 DEF SendLost
    <2>2. CASE e # c
      <3>1. written'[e] = written[e]
        BY <1>0, <2>1, <2>2 DEF PlainType
      <3> QED
        BY <1>0, <2>1, <3>1, UpReset
    <2>3. CASE e = c
      <3>1. up'[e] = <<>> /\ e \in broken' /\ written'[e] = written[e] + 1
        BY <1>0, <2>1, <2>3, ResetFacts DEF PlainType
      <3>2. Carried(request[e], <<>>, Request(e), written[e])
        BY <1>0, CarriedLost DEF UpAt
      <3>3. Carried(request[e], <<>>, Request(e), written[e] + 1)
        <4>1. <<>> \in Seq(Writes)
          OBVIOUS
        <4> QED
          BY <1>0, <3>2, <4>1, CarriedMore
      <3>4. ~ upEnd[e]
        BY <1>0, <2>1, <2>3, OptionTypes DEF UpAt
      <3>5. Len(<<>>) <= Window
        BY OptionTypes
      <3> QED
        BY <2>1, <3>1, <3>3, <3>4, <3>5 DEF UpAt, Request
    <2> QED
      BY <2>2, <2>3
  <1>6. CASE Read
    <2>1. /\ cur \in Clients /\ cur \notin broken /\ up[cur] # <<>>
          /\ request' = [request EXCEPT ![cur] = Append(@, Head(up[cur]))]
          /\ up' = [up EXCEPT ![cur] = Tail(@)]
          /\ UNCHANGED <<upEnd, written, broken>>
      BY <1>0, <1>6 DEF Read, BacklogInv
    <2>2. CASE e # cur
      <3>1. request'[e] = request[e] /\ up'[e] = up[e]
        BY <1>0, <2>1, <2>2 DEF SeqInv
      <3> QED
        BY <1>0, <1>d, <2>1, <3>1, UpFrame
    <2>3. CASE e = cur
      <3>1. /\ request'[e] = Append(request[e], Head(up[e])) /\ up'[e] = Tail(up[e])
            /\ up[e] # <<>>
        BY <1>0, <2>1, <2>3 DEF SeqInv
      <3>2. Carried(request[e], up[e], Request(e), written[e])
        BY <1>0 DEF UpAt
      <3>3. /\ Carried(request'[e], up'[e], Request(e), written[e])
            /\ Len(request'[e]) + Len(up'[e]) = Len(request[e]) + Len(up[e])
            /\ Len(up'[e]) < Len(up[e])
        BY <1>0, <3>1, <3>2, CarriedRead
      <3>4. up'[e] \in Seq(Writes)
        BY <1>0, <3>1, Taken
      <3> DEFINE a == Len(up'[e])  b == Len(up[e])
      <3>5. a \in Nat /\ b \in Nat /\ a < b /\ b <= Window
        BY <1>0, <3>3, <3>4, EmptyLen DEF UpAt
      <3> HIDE DEF a, b
      <3>6. a <= Window
        BY <3>5, OptionTypes
      <3> QED
        BY <1>0, <1>d, <2>1, <2>3, <3>3, <3>6 DEF UpAt, Request, a
    <2> QED
      BY <2>2, <2>3
  <1>7. CASE ReadEnd
    <2>1. /\ cur \in Clients /\ UNCHANGED <<up, upEnd, written, broken>>
          /\ \/ cur \in broken /\ request' = [request EXCEPT ![cur] = <<>>]
             \/ request' = request
      BY <1>0, <1>7 DEF ReadEnd, BacklogInv
    <2>2. CASE request'[e] = request[e]
      BY <1>0, <1>d, <2>1, <2>2, UpFrame
    <2>3. CASE request'[e] # request[e]
      <3>1. e \in broken /\ request'[e] = <<>> /\ up[e] = <<>>
        BY <1>0, <2>1, <2>3 DEF SeqInv, UpAt
      <3>2. Carried(<<>>, <<>>, Request(e), written[e])
        BY <1>0 DEF Carried
      <3> QED
        BY <1>0, <1>d, <2>1, <3>1, <3>2 DEF UpAt, Request
    <2> QED
      BY <2>2, <2>3
  <1>8. ASSUME NEW c \in Clients,
               \/ NewTCPSender(c) \/ SendFails(c) \/ SendRead(c) \/ SendReturn(c)
               \/ SendAgain(c) \/ JobNext(c)
        PROVE  UpAt(e)'
    <2>1. UNCHANGED RequestVars
      BY <1>8 DEF RequestVars, NewTCPSender, SendFails, SendRead, SendReturn, SendAgain,
         JobNext, Split, Write, WritePiece, WriteEnd, HandlerEnds, WriteError, Close, Release
    <2> QED
      BY <1>1, <2>1
  <1>9. CASE Accept \/ Acquire \/ UNCHANGED vars
    BY <1>1, <1>9 DEF RequestVars, Accept, Acquire, vars
  <1> QED
    BY <1>2, <1>3, <1>4, <1>6, <1>7, <1>8, <1>9, <1>5 DEF Next, SendNext, ServeNext

-----------------------------------------------------------------------------
(* The backlog *)

\* A step that accepts nothing and starts no goroutine early keeps the backlog.
LEMMA BacklogFrame ==
  ASSUME SeqInv, BacklogInv, backlog' = backlog, cur' = cur,
         \/ serve' = serve
         \/ serve' = "read" /\ serve = "acquire"
         \/ serve' = "accept",
         \A c \in Clients : /\ send[c] # "new" => send'[c] # "new"
                            /\ job[c] = "none" => job'[c] = "none"
                            /\ job[c] # "none" => send[c] # "new"
  PROVE  BacklogInv'
  <1>1. \A i \in 1..Len(backlog) : backlog[i] \in Clients
    BY DEF SeqInv
  <1>2. /\ \A i, j \in 1..Len(backlog') : backlog'[i] = backlog'[j] => i = j
        /\ \A i \in 1..Len(backlog') : /\ send'[backlog'[i]] # "new"
                                       /\ job'[backlog'[i]] = "none"
    BY <1>1 DEF BacklogInv
  <1>3. serve' \in {"acquire", "read"} =>
           /\ cur' \in Clients /\ send'[cur'] # "new" /\ job'[cur'] = "none"
           /\ \A i \in 1..Len(backlog') : backlog'[i] # cur'
    BY DEF BacklogInv
  <1>4. \A c \in Clients : send'[c] = "new" => job'[c] = "none"
    BY DEF BacklogInv
  <1> QED
    BY <1>2, <1>3, <1>4 DEF BacklogInv

\* The goroutine of a connection moves on: the connection left the backlog before.
LEMMA BacklogJob ==
  ASSUME SeqInv, PlainType, BacklogInv, NEW c \in Clients, job[c] # "none",
         NEW to, job' = [job EXCEPT ![c] = to], UNCHANGED <<serveVars, send>>
  PROVE  BacklogInv'
  <1>1. UNCHANGED <<serve, cur, backlog>> /\ send' = send
    BY DEF serveVars
  <1>2. \A e \in Clients : e # c => job'[e] = job[e]
    BY DEF PlainType
  <1>3. \A e \in Clients : /\ send[e] # "new" => send'[e] # "new"
                           /\ job[e] = "none" => job'[e] = "none"
                           /\ job[e] # "none" => send[e] # "new"
    BY <1>1, <1>2 DEF BacklogInv
  <1> QED
    BY <1>1, <1>3, BacklogFrame

\* A connection is accepted once, and before its goroutine starts.
LEMMA BacklogInvStep == IInv /\ [Next]_vars => BacklogInv'
  <1> SUFFICES ASSUME IInv, [Next]_vars PROVE BacklogInv'
    OBVIOUS
  <1>0. SeqInv /\ PlainType /\ BacklogInv
    BY DEF IInv
  <1>b. \A i \in 1..Len(backlog) : backlog[i] \in Clients
    BY <1>0 DEF SeqInv
  <1>n. \A c \in Clients : job[c] # "none" => send[c] # "new"
    BY <1>0 DEF BacklogInv
  <1> USE DEF clientVars, upVars, downVars, serveVars, slotVars, jobVars
  <1>1. ASSUME NEW c \in Clients, NewTCPSender(c) PROVE BacklogInv'
    <2>1. /\ send[c] = "new" /\ job[c] = "none" /\ UNCHANGED <<job, serve, cur>>
          /\ send'[c] # "new"
          /\ \A e \in Clients : e # c => send'[e] = send[e]
          /\ backlog' \in {backlog, Append(backlog, c)}
      BY <1>0, <1>1 DEF NewTCPSender, PlainType, BacklogInv
    <2>2. \A e \in Clients : send[e] # "new" => send'[e] # "new"
      BY <2>1
    <2>3. CASE backlog' = backlog
      BY <1>0, <1>n, <2>1, <2>2, <2>3, BacklogFrame
    <2>4. CASE backlog' = Append(backlog, c)
      <3> DEFINE n == Len(backlog)
      <3>1. /\ n \in Nat /\ Len(backlog') = n + 1 /\ backlog'[n + 1] = c
            /\ \A i \in 1..n : backlog'[i] = backlog[i]
        BY <1>0, <2>4, Appended, EmptyLen DEF SeqInv
      <3>2. /\ \A i \in 1..n : backlog[i] # c
            /\ serve \in {"acquire", "read"} => cur # c
        BY <1>0, <2>1 DEF BacklogInv
      <3>3. /\ \A i, j \in 1..n : backlog[i] = backlog[j] => i = j
            /\ \A i \in 1..n : send[backlog[i]] # "new" /\ job[backlog[i]] = "none"
            /\ serve \in {"acquire", "read"} => \A i \in 1..n : backlog[i] # cur
        BY <1>0 DEF BacklogInv
      <3>4. \A i \in 1..n : backlog[i] \in Clients
        BY <1>b
      <3> HIDE DEF n
      <3>5. \A i \in 1..n + 1 : i \in 1..n \/ i = n + 1
        BY <3>1
      <3>6. \A i, j \in 1..Len(backlog') : backlog'[i] = backlog'[j] => i = j
        BY <3>1, <3>2, <3>3, <3>5
      <3>7. \A i \in 1..Len(backlog') : send'[backlog'[i]] # "new" /\ job'[backlog'[i]] = "none"
        BY <2>1, <2>2, <3>1, <3>3, <3>4, <3>5
      <3>8. serve' \in {"acquire", "read"} =>
               /\ cur' \in Clients /\ send'[cur'] # "new" /\ job'[cur'] = "none"
               /\ \A i \in 1..Len(backlog') : backlog'[i] # cur'
        BY <1>0, <2>1, <2>2, <3>1, <3>2, <3>3, <3>5 DEF BacklogInv
      <3>9. \A e \in Clients : send'[e] = "new" => job'[e] = "none"
        BY <1>0, <2>1 DEF BacklogInv
      <3> QED
        BY <3>6, <3>7, <3>8, <3>9 DEF BacklogInv
    <2> QED
      BY <2>1, <2>3, <2>4
  <1>2. ASSUME NEW c \in Clients,
               \/ SendWrite(c) \/ SendLost(c) \/ SendFails(c) \/ SendCloseWrite(c)
               \/ SendRead(c) \/ SendReturn(c) \/ SendAgain(c) \/ Die(c) \/ Break(c)
        PROVE  BacklogInv'
    <2>1. UNCHANGED <<job, serve, cur, backlog>>
      BY <1>2 DEF SendWrite, SendLost, SendFails, SendCloseWrite, SendRead, SendReturn,
         SendAgain, Die, Break
    <2>2. \A e \in Clients : send[e] # "new" => send'[e] # "new"
      BY <1>0, <1>2 DEF SendWrite, SendLost, SendFails, SendCloseWrite, SendRead,
         SendReturn, SendAgain, Die, Break, PlainType
    <2> QED
      BY <1>0, <1>n, <2>1, <2>2, BacklogFrame
  <1>3. CASE Accept
    <2> DEFINE n == Len(backlog)
    <2>1. /\ UNCHANGED <<job, send>> /\ serve' = "acquire"
          /\ n \in Nat /\ n > 0 /\ Len(backlog') = n - 1 /\ cur' = backlog[1]
          /\ \A i \in 1..n - 1 : backlog'[i] = backlog[i + 1]
      BY <1>0, <1>3, Taken, EmptyLen DEF Accept, SeqInv
    <2>2. /\ \A i, j \in 1..n : backlog[i] = backlog[j] => i = j
          /\ \A i \in 1..n : send[backlog[i]] # "new" /\ job[backlog[i]] = "none"
      BY <1>0 DEF BacklogInv
    <2>3. \A i \in 1..n : backlog[i] \in Clients
      BY <1>b
    <2> HIDE DEF n
    <2>4. 1 \in 1..n /\ \A i \in 1..n - 1 : i + 1 \in 1..n /\ i + 1 # 1 /\ i \in Nat
      BY <2>1
    <2>5. \A i, j \in 1..Len(backlog') : backlog'[i] = backlog'[j] => i = j
      <3>1. \A i, j \in 1..n - 1 : backlog'[i] = backlog'[j] => i + 1 = j + 1
        BY <2>1, <2>2, <2>4
      <3>2. \A i, j \in 1..n - 1 : i + 1 = j + 1 => i = j
        BY <2>1
      <3> QED
        BY <2>1, <3>1, <3>2
    <2>6. \A i \in 1..Len(backlog') : send'[backlog'[i]] # "new" /\ job'[backlog'[i]] = "none"
      BY <2>1, <2>2, <2>4
    <2>7. cur' \in Clients /\ send'[cur'] # "new" /\ job'[cur'] = "none"
      BY <2>1, <2>2, <2>3, <2>4
    <2>8. \A i \in 1..Len(backlog') : backlog'[i] # cur'
      BY <2>1, <2>2, <2>4
    <2>9. \A e \in Clients : send'[e] = "new" => job'[e] = "none"
      BY <1>0, <2>1 DEF BacklogInv
    <2> QED
      BY <2>5, <2>6, <2>7, <2>8, <2>9 DEF BacklogInv
  <1>4. CASE Acquire \/ Read
    <2>1. /\ UNCHANGED <<send, cur, backlog>>
          /\ \/ serve' = serve
             \/ serve' = "read" /\ serve = "acquire"
          /\ \A e \in Clients : job[e] = "none" => job'[e] = "none"
      BY <1>4 DEF Acquire, Read
    <2> QED
      BY <1>0, <1>n, <2>1, BacklogFrame
  <1>5. CASE Exit
    <2>1. /\ UNCHANGED <<send, cur, backlog>> /\ serve' = "exited"
          /\ \A e \in Clients : e \notin Held => job'[e] = job[e]
      BY <1>5 DEF Exit
    <2>2. \A e \in Clients : e \in Held => job[e] # "none" \/ (serve # "accept" /\ e = cur)
      BY DEF Held, Running
    <2>3. ASSUME NEW i \in 1..Len(backlog)
          PROVE  backlog[i] \in Clients \ Held
      <3>1. backlog[i] \in Clients /\ job[backlog[i]] = "none"
        BY <1>0, <1>b DEF BacklogInv
      <3>2. serve \in {"acquire", "read"} => backlog[i] # cur
        BY <1>0 DEF BacklogInv
      <3> QED
        BY <3>1, <3>2 DEF Held, Running
    <2>4. \A e \in Clients : send[e] = "new" => e \notin Held
      BY <1>0, <1>n DEF Held, Running, BacklogInv
    <2>5. \A i \in 1..Len(backlog) : /\ send'[backlog[i]] # "new"
                                     /\ job'[backlog[i]] = "none"
      BY <1>0, <2>1, <2>3 DEF BacklogInv
    <2>6. \A e \in Clients : send'[e] = "new" => job'[e] = "none"
      BY <1>0, <2>1, <2>4 DEF BacklogInv
    <2> QED
      BY <1>0, <2>1, <2>5, <2>6 DEF BacklogInv
  <1>6. CASE ReadEnd
    <2>1. /\ cur \in Clients /\ send[cur] # "new" /\ serve = "read"
          /\ \A i \in 1..Len(backlog) : backlog[i] # cur
          /\ UNCHANGED <<send, cur, backlog>> /\ serve' = "accept"
          /\ \A e \in Clients : e # cur => job'[e] = job[e]
      BY <1>0, <1>6 DEF ReadEnd, BacklogInv, PlainType
    <2>2. /\ \A i, j \in 1..Len(backlog') : backlog'[i] = backlog'[j] => i = j
          /\ \A i \in 1..Len(backlog') : send'[backlog'[i]] # "new"
                                            /\ job'[backlog'[i]] = "none"
      BY <1>0, <1>b, <2>1 DEF BacklogInv
    <2>3. \A e \in Clients : send'[e] = "new" => job'[e] = "none"
      BY <1>0, <2>1 DEF BacklogInv
    <2> QED
      BY <2>1, <2>2, <2>3 DEF BacklogInv
  <1>7. CASE Shutdown
    <2>1. UNCHANGED <<job, send, cur, serve>> /\ backlog' = <<>> /\ Len(<<>>) = 0
      BY <1>7 DEF Shutdown
    <2>2. \A i \in 1..Len(backlog') : FALSE
      BY <2>1
    <2> QED
      BY <1>0, <2>1, <2>2 DEF BacklogInv
  <1>8. ASSUME NEW c \in Clients, JobNext(c) PROVE BacklogInv'
    <2>1. /\ job[c] # "none" /\ UNCHANGED <<serveVars, send>>
          /\ \/ job' = job
             \/ \E to \in {"close", "handle", "write", "wrote", "error", "release", "over"} :
                    Goto(c, to)
      BY <1>8 DEF JobNext, Split, Write, WritePiece, WriteEnd, HandlerEnds, WriteError, Close,
         Release
    <2>2. CASE job' = job
      BY <1>0, <1>n, <2>1, <2>2, BacklogFrame
    <2>3. ASSUME NEW to, Goto(c, to) PROVE BacklogInv'
      BY <1>0, <2>1, <2>3, BacklogJob DEF Goto
    <2> QED
      BY <2>1, <2>2, <2>3
  <1>9. CASE UNCHANGED vars
    BY <1>0, <1>n, <1>9, BacklogFrame DEF vars
  <1> QED
    BY <1>1, <1>2, <1>3, <1>4, <1>6, <1>7, <1>8, <1>9, <1>5 DEF Next, SendNext, ServeNext

-----------------------------------------------------------------------------
(* What a goroutine does with its place *)

Busy == {"split", "handle", "write", "wrote", "error", "close", "release"}

\* It stays where it is, or goes from one of its places to the next.
LEMMA JobMoves ==
  ASSUME NEW c \in Clients, JobNext(c)
  PROVE  /\ job[c] \in Busy
         /\ UNCHANGED <<request, send, serve, cur, up, upEnd, written, broken, backlog>>
         /\ \/ job' = job /\ UNCHANGED semaphore
            \/ \E to \in {"close", "handle", "write", "wrote", "error", "release"} :
                   /\ job' = [job EXCEPT ![c] = to] /\ UNCHANGED semaphore
                   /\ to = "handle" => request[c] # <<>>
                   /\ to \in {"write", "wrote", "error"}
                         => job[c] \in {"handle", "write", "wrote"}
            \/ /\ job[c] = "release" /\ semaphore' = semaphore - 1
               /\ job' = [job EXCEPT ![c] = "over"]
  <1> USE DEF clientVars, upVars, downVars, serveVars, slotVars, jobVars, Busy, Goto
  <1>1. CASE Split(c)
    BY <1>1 DEF Split
  <1>2. CASE Write(c)
    BY <1>2 DEF Write
  <1>3. CASE WritePiece(c)
    BY <1>3 DEF WritePiece
  <1>4. CASE WriteEnd(c)
    BY <1>4 DEF WriteEnd
  <1>5. CASE HandlerEnds(c)
    BY <1>5 DEF HandlerEnds
  <1>6. CASE WriteError(c)
    BY <1>6 DEF WriteError
  <1>7. CASE Close(c) \/ Release(c)
    BY <1>7 DEF Close, Release
  <1> QED
    BY <1>1, <1>2, <1>3, <1>4, <1>5, <1>6, <1>7 DEF JobNext

\* A goroutine starts with a whole request, an empty one or that of a dead client.
LEMMA RequestInvStep == IInv /\ [Next]_vars => RequestInv'
  <1> SUFFICES ASSUME IInv, [Next]_vars, NEW e \in Clients PROVE RequestAt(e)'
    BY DEF RequestInv
  <1>0. SeqInv /\ PlainType /\ BacklogInv /\ UpAt(e) /\ RequestAt(e)
    BY DEF IInv, UpInv, RequestInv
  <1>d. send[e] = "dead" => send'[e] = "dead"
    BY <1>0, DeadStays
  <1> USE DEF clientVars, upVars, downVars, serveVars, slotVars, jobVars
  <1>1. CASE ReadEnd
    <2>1. /\ cur \in Clients /\ job' = [job EXCEPT ![cur] = "split"]
          /\ \/ cur \in broken /\ request' = [request EXCEPT ![cur] = <<>>]
             \/ cur \notin broken /\ up[cur] = <<>> /\ upEnd[cur] /\ request' = request
      BY <1>0, <1>1 DEF ReadEnd, BacklogInv
    <2>2. CASE e # cur
      <3>1. request'[e] = request[e] /\ job'[e] = job[e]
        BY <1>0, <2>1, <2>2 DEF SeqInv, PlainType
      <3> QED
        BY <1>0, <1>d, <3>1 DEF RequestAt
    <2>3. CASE e = cur
      <3>1. job'[e] = "split"
        BY <1>0, <2>1, <2>3 DEF PlainType
      <3>2. CASE e \in broken
        <4>1. request'[e] = <<>>
          BY <1>0, <2>1, <2>3, <3>2 DEF SeqInv
        <4> QED
          BY <3>1, <4>1 DEF RequestAt
      <3>3. CASE e \notin broken
        <4>1. request' = request /\ up[e] = <<>> /\ upEnd[e]
          BY <2>1, <2>3, <3>3
        <4>2. /\ Len(request[e]) + Len(up[e]) = written[e] /\ Len(up[e]) = 0
              /\ Len(request[e]) \in Nat
              /\ send[e] = "dead" \/ written[e] = Requests
          BY <1>0, <3>3, <4>1, EmptyLen DEF UpAt, SeqInv
        <4> DEFINE a == Len(request[e])  b == Len(up[e])
        <4> HIDE DEF a, b
        <4>3. a + b = written[e] /\ b = 0 /\ a \in Nat
          BY <4>2 DEF a, b
        <4>4. a = written[e]
          BY <4>3
        <4>5. Len(request'[e]) = written[e]
          BY <4>1, <4>4 DEF a
        <4> QED
          BY <1>d, <3>1, <4>2, <4>5 DEF RequestAt
      <3> QED
        BY <3>2, <3>3
    <2> QED
      BY <2>2, <2>3
  <1>2. CASE Read
    <2>1. /\ cur \in Clients /\ job[cur] = "none" /\ job' = job
          /\ e # cur => request'[e] = request[e]
      BY <1>0, <1>2 DEF Read, BacklogInv, SeqInv
    <2> QED
      BY <1>0, <1>d, <2>1 DEF RequestAt
  <1>3. CASE Exit
    <2>1. request' = request /\ job'[e] \in {job[e], "cut"}
      BY <1>3 DEF Exit
    <2> QED
      BY <1>0, <1>d, <2>1 DEF RequestAt
  <1>4. ASSUME NEW c \in Clients, JobNext(c) PROVE RequestAt(e)'
    <2>1. CASE job'[e] = job[e] \/ job'[e] \in {"close", "release", "over"}
      <3>1. job[e] \in {"none", "cut"} => job'[e] = job[e]
        <4>1. CASE e = c
          BY <1>4, <4>1, <2>1, JobMoves DEF Busy
        <4>2. CASE e # c
          BY <1>0, <1>4, <4>2, JobMoves DEF PlainType
        <4> QED
          BY <4>1, <4>2
      <3> QED
        BY <1>0, <1>d, <1>4, <2>1, <3>1, JobMoves DEF RequestAt
    <2>2. CASE job'[e] \in {"handle", "write", "wrote", "error"} /\ job'[e] # job[e]
      <3>1. e = c
        BY <1>0, <1>4, <2>2, JobMoves DEF PlainType
      <3>2. /\ job[e] \notin {"none", "cut"} /\ request' = request
            /\ request[e] # <<>> \/ job[e] \in {"handle", "write", "wrote"}
        BY <1>0, <1>4, <2>2, <3>1, JobMoves DEF PlainType, Busy
      <3> QED
        BY <1>0, <1>d, <3>2 DEF RequestAt
    <2>3. \/ job'[e] = job[e]
          \/ job'[e] \in {"close", "handle", "write", "wrote", "error", "release", "over"}
      BY <1>0, <1>4, JobMoves DEF PlainType
    <2> QED
      BY <2>1, <2>2, <2>3
  <1>5. ASSUME UNCHANGED <<job, request>> PROVE RequestAt(e)'
    BY <1>0, <1>d, <1>5 DEF RequestAt
  <1>6. ASSUME NEW c \in Clients, SendNext(c) \/ SendAgain(c) \/ Die(c) \/ Break(c)
        PROVE  RequestAt(e)'
    BY <1>5, <1>6 DEF SendNext, NewTCPSender, SendWrite, SendLost, SendFails,
       SendCloseWrite, SendRead, SendReturn, SendAgain, Die, Break
  <1>7. CASE Accept \/ Acquire \/ Shutdown \/ UNCHANGED vars
    BY <1>5, <1>7 DEF Accept, Acquire, Shutdown, vars
  <1> QED
    BY <1>1, <1>2, <1>3, <1>4, <1>6, <1>7 DEF Next, ServeNext

-----------------------------------------------------------------------------
(* Slots *)

\* Finitely many goroutines run.
LEMMA RunningFinite ==
  /\ IsFiniteSet(Running) /\ Cardinality(Running) \in Nat
  /\ \A c \in Running : Cardinality(Running) > 0
  <1>1. Running \in SUBSET Clients
    BY DEF Running
  <1>2. IsFiniteSet(Running)
    BY <1>1, FS_Subset, TcpAssumption
  <1> QED
    BY <1>2, FS_CardinalityType, FS_EmptySet

\* A goroutine that starts counts one more, one that is over one less.
LEMMA RunningStep ==
  ASSUME PlainType, NEW c \in Clients, NEW to \in Busy \cup {"over"},
         job' = [job EXCEPT ![c] = to]
  PROVE  /\ c \notin Running /\ to # "over"
              => Cardinality(Running') = Cardinality(Running) + 1
         /\ c \in Running /\ to # "over" => Running' = Running
         /\ c \in Running /\ to = "over"
              => Cardinality(Running') = Cardinality(Running) - 1
  <1>1. \A e \in Clients : job'[e] = IF e = c THEN to ELSE job[e]
    BY DEF PlainType
  <1>2. c \notin Running /\ to # "over" => Running' = Running \cup {c}
    BY <1>1 DEF Running, Busy
  <1>3. c \in Running /\ to = "over" => Running' = Running \ {c}
    BY <1>1 DEF Running
  <1>4. c \in Running /\ to # "over" => Running' = Running
    BY <1>1 DEF Running, Busy
  <1>5. /\ c \notin Running => Cardinality(Running \cup {c}) = Cardinality(Running) + 1
        /\ c \in Running => Cardinality(Running \ {c}) = Cardinality(Running) - 1
    BY RunningFinite, FS_AddElement, FS_RemoveElement
  <1> QED
    BY <1>2, <1>3, <1>4, <1>5

\* Every step keeps as many slots as goroutines and a connection being read.
LEMMA SlotInvStep == IInv /\ [Next]_vars => SlotInv'
  <1> SUFFICES ASSUME IInv, [Next]_vars PROVE SlotInv'
    OBVIOUS
  <1>0. PlainType /\ BacklogInv /\ SlotInv
    BY DEF IInv
  <1> USE DEF clientVars, upVars, downVars, serveVars, slotVars, jobVars
  <1>1. ASSUME UNCHANGED <<job, semaphore>>, serve' = "read" <=> serve = "read"
        PROVE  SlotInv'
    BY <1>0, <1>1 DEF SlotInv, Running
  <1>2. CASE Acquire
    <2>1. /\ Running' = Running /\ semaphore' = semaphore + 1
          /\ serve = "acquire" /\ serve' = "read"
      BY <1>2 DEF Acquire, Running
    <2>2. semaphore = Cardinality(Running) + 0
      BY <1>0, <2>1 DEF SlotInv
    <2>3. semaphore' = Cardinality(Running') + 1
      BY <2>1, <2>2, RunningFinite
    <2> QED
      BY <2>1, <2>3 DEF SlotInv
  <1>3. CASE ReadEnd
    <2>1. /\ cur \in Clients /\ job[cur] = "none" /\ semaphore' = semaphore
          /\ job' = [job EXCEPT ![cur] = "split"] /\ serve = "read" /\ serve' = "accept"
      BY <1>0, <1>3 DEF ReadEnd, BacklogInv
    <2>2. Cardinality(Running') = Cardinality(Running) + 1
      <3>1. cur \notin Running /\ "split" \in Busy \cup {"over"} /\ "split" # "over"
        BY <2>1 DEF Running, Busy
      <3> QED
        BY <1>0, <2>1, <3>1, RunningStep
    <2>3. semaphore = Cardinality(Running) + 1
      BY <1>0, <2>1 DEF SlotInv
    <2>4. semaphore' = Cardinality(Running') + 0
      BY <2>1, <2>2, <2>3, RunningFinite
    <2> QED
      BY <2>1, <2>4 DEF SlotInv
  <1>4. CASE Exit
    <2>1. Running' = {} /\ semaphore' = 0 /\ serve' = "exited"
      BY <1>4 DEF Exit, Running, Held
    <2>2. Cardinality(Running') = 0
      BY <2>1, FS_EmptySet
    <2> QED
      BY <2>1, <2>2 DEF SlotInv
  <1>5. ASSUME NEW c \in Clients, JobNext(c) PROVE SlotInv'
    <2>1. c \in Running /\ serve' = serve
      BY <1>5, JobMoves DEF Running, Busy
    <2>2. CASE job' = job /\ UNCHANGED semaphore
      BY <1>1, <2>1, <2>2
    <2>3. ASSUME NEW to \in {"close", "handle", "write", "wrote", "error", "release"},
                 job' = [job EXCEPT ![c] = to], UNCHANGED semaphore
          PROVE  SlotInv'
      <3>1. Running' = Running
        BY <1>0, <2>1, <2>3, RunningStep DEF Busy
      <3> QED
        BY <1>0, <2>1, <2>3, <3>1 DEF SlotInv
    <2>4. CASE semaphore' = semaphore - 1 /\ job' = [job EXCEPT ![c] = "over"]
      <3>1. Cardinality(Running') = Cardinality(Running) - 1
        BY <1>0, <2>1, <2>4, RunningStep
      <3> DEFINE k == Cardinality(Running)  r == IF serve = "read" THEN 1 ELSE 0
      <3>2. k \in Nat /\ r \in Nat /\ semaphore = k + r
        BY <1>0, RunningFinite DEF SlotInv
      <3> HIDE DEF k, r
      <3>3. semaphore' = (k - 1) + r
        BY <2>4, <3>2
      <3> QED
        BY <2>1, <3>1, <3>3 DEF SlotInv, k, r
    <2> QED
      BY <1>5, <2>2, <2>3, <2>4, JobMoves
  <1>6. ASSUME NEW c \in Clients, SendNext(c) \/ SendAgain(c) \/ Die(c) \/ Break(c)
        PROVE  SlotInv'
    BY <1>1, <1>6 DEF SendNext, NewTCPSender, SendWrite, SendLost, SendFails,
       SendCloseWrite, SendRead, SendReturn, SendAgain, Die, Break
  <1>7. CASE Accept \/ Read \/ Shutdown \/ UNCHANGED vars
    BY <1>1, <1>7 DEF Accept, Read, Shutdown, vars
  <1> QED
    BY <1>2, <1>3, <1>4, <1>5, <1>6, <1>7 DEF Next, ServeNext

-----------------------------------------------------------------------------
(* Answers *)

\* A broken connection stays broken.
LEMMA BrokenStays == [Next]_vars => broken \subseteq broken'
  <1> SUFFICES ASSUME [Next]_vars PROVE broken \subseteq broken'
    OBVIOUS
  <1>1. CASE (\E c \in Clients : Break(c) \/ SendLost(c)) \/ Shutdown \/ Exit
    BY <1>1 DEF Break, SendLost, Shutdown, Exit, Reset
  <1>2. ASSUME NEW c \in Clients, SendNext(c) \/ SendAgain(c) \/ Die(c)
        PROVE  broken \subseteq broken'
    BY <1>2 DEF SendNext, NewTCPSender, SendWrite, SendLost, Reset, SendFails,
       SendCloseWrite, SendRead, SendReturn, SendAgain, Die
  <1>3. CASE ServeNext \/ UNCHANGED vars
    BY <1>3 DEF ServeNext, Accept, Acquire, Read, ReadEnd, vars
  <1>4. ASSUME NEW c \in Clients, JobNext(c) PROVE broken \subseteq broken'
    BY <1>4, JobMoves
  <1> QED
    BY <1>1, <1>2, <1>3, <1>4 DEF Next

\* A step that writes no answer keeps what is known of it.
LEMMA AnswerFrame ==
  ASSUME NEW c \in Clients, AnswerAt(c), answer'[c] = answer[c], downEnd'[c] = downEnd[c],
         \/ job'[c] = job[c]
         \/ job[c] = "none" /\ job'[c] = "split"
         \/ job[c] # "cut" /\ job'[c] \in {"release", "over"},
         broken \subseteq broken'
  PROVE  AnswerAt(c)'
  BY DEF AnswerAt, Complete, Partial, Error

\* An answer not begun is a part of a response, and complete.
LEMMA NothingYet ==
  ASSUME NEW c
  PROVE  Partial(c, <<>>) /\ Complete(c, <<>>)
  BY OptionTypes DEF Partial, Complete

\* A goroutine takes its own connection a step further.
LEMMA AnswerStep ==
  ASSUME SeqInv, PlainType, AnswerInv, NEW c \in Clients, JobNext(c)
  PROVE  AnswerAt(c)'
  <1>0. /\ AnswerAt(c) /\ answer[c] \in Seq(Writes) /\ downEnd[c] \in BOOLEAN
        /\ job[c] # "cut"
    BY JobMoves DEF AnswerInv, SeqInv, PlainType, Busy
  <1>b. broken' = broken
    BY JobMoves
  <1>p. \A s : (Partial(c, s)' <=> Partial(c, s)) /\ (Complete(c, s)' <=> Complete(c, s))
    BY DEF Partial, Complete, Error
  <1> USE DEF downVars, jobVars, Goto
  <1>1. CASE Split(c)
    <2>1. /\ answer'[c] = <<>> /\ ~ downEnd'[c]
          /\ job'[c] \in {"close", "handle"}
      BY <1>0, <1>1 DEF Split, AnswerAt, PlainType
    <2> QED
      BY <2>1, NothingYet DEF AnswerAt, Complete, Partial
  <1>2. CASE Write(c)
    <2>1. answer'[c] = <<>> /\ ~ downEnd'[c] /\ job'[c] = "write"
      BY <1>0, <1>2 DEF Write, AnswerAt, PlainType
    <2> QED
      BY <2>1, NothingYet DEF AnswerAt, Complete, Partial
  <1>3. CASE WritePiece(c)
    <2> DEFINE n == Len(answer[c])  x == <<c, n + 1>>
    <2>1. /\ Partial(c, answer[c]) /\ n \in Nat /\ n < Responses
          /\ Transmit(c, x) /\ x \in Writes
      BY <1>3, PieceWritten
    <2>2. answer'[c] = Append(answer[c], x)
      BY <2>1, TransmitFacts DEF SeqInv
    <2>3. downEnd'[c] = FALSE /\ job'[c] = "write"
      BY <1>0, <1>3 DEF WritePiece, AnswerAt
    <2>4. /\ Len(answer'[c]) = n + 1 /\ answer'[c][n + 1] = x
          /\ \A i \in 1..n : answer'[c][i] = answer[c][i]
      BY <1>0, <2>1, <2>2, Appended
    <2>5. \A i \in 1..n : answer[c][i] = <<c, i>>
      BY <2>1 DEF Partial
    <2>6. x = <<c, n + 1>>
      OBVIOUS
    <2> HIDE DEF n, x
    <2>7. \A i \in 1..n + 1 : i \in 1..n \/ i = n + 1
      BY <2>1
    <2>8. \A i \in 1..Len(answer'[c]) : answer'[c][i] = <<c, i>>
      BY <2>4, <2>5, <2>6, <2>7
    <2>9. Len(answer'[c]) <= Responses
      BY <2>1, <2>4, OptionTypes
    <2>10. Partial(c, answer'[c])
      BY <2>8, <2>9 DEF Partial
    <2> QED
      BY <1>p, <2>3, <2>10 DEF AnswerAt
  <1>4. CASE WriteEnd(c)
    <2>1. /\ answer'[c] = answer[c] /\ downEnd'[c] = TRUE /\ job'[c] = "wrote"
          /\ Partial(c, answer[c])
          /\ c \in broken \/ Len(answer[c]) = Responses
      BY <1>0, <1>4 DEF WriteEnd, AnswerAt, PlainType, Conn
    <2>2. c \in broken \/ Complete(c, answer[c])
      BY <2>1 DEF Complete
    <2> QED
      BY <1>b, <1>p, <2>1, <2>2 DEF AnswerAt
  <1>5. CASE HandlerEnds(c)
    <2>1. /\ answer'[c] = answer[c] /\ downEnd'[c] = downEnd[c]
          /\ job'[c] \in {"close", "error"}
          /\ answer[c] = <<>> \/ downEnd[c]
      BY <1>0, <1>5 DEF HandlerEnds, AnswerAt, PlainType
    <2>2. c \in broken \/ Complete(c, answer[c])
      BY <1>0, <2>1, NothingYet DEF AnswerAt
    <2>3. Complete(c, answer[c]) \/ Partial(c, answer[c])
      BY <1>0 DEF AnswerAt
    <2> QED
      BY <1>0, <1>b, <1>p, <2>1, <2>2, <2>3 DEF AnswerAt
  <1>6. CASE WriteError(c)
    <2>1. downEnd'[c] = downEnd[c] /\ job'[c] = "close" /\ job[c] = "error"
      BY <1>6 DEF WriteError, PlainType
    <2>2. CASE Transmit(c, <<c, Error>>)
      <3>1. ~ downEnd[c] /\ answer' = [answer EXCEPT ![c] = Append(@, <<c, Error>>)]
        BY <2>2, TransmitFacts
      <3>2. answer[c] = <<>>
        BY <1>0, <2>1, <3>1 DEF AnswerAt
      <3>3. answer'[c] = <<<<c, Error>>>>
        BY <3>1, <3>2 DEF SeqInv
      <3>4. Complete(c, answer'[c])
        BY <3>3 DEF Complete
      <3> QED
        BY <1>p, <2>1, <3>1, <3>4 DEF AnswerAt
    <2>3. CASE (c \in broken \/ downEnd[c]) /\ UNCHANGED <<down, answer>>
      <3>1. c \in broken \/ Complete(c, answer[c])
        BY <1>0, <2>3 DEF AnswerAt
      <3>2. Complete(c, answer[c]) \/ Partial(c, answer[c])
        BY <1>0 DEF AnswerAt
      <3> QED
        BY <1>b, <1>p, <2>1, <2>3, <3>1, <3>2 DEF AnswerAt
    <2> QED
      BY <1>6, <2>2, <2>3 DEF WriteError
  <1>7. CASE Close(c)
    <2>1. /\ answer'[c] = answer[c] /\ downEnd'[c] = TRUE /\ job'[c] = "release"
          /\ c \in broken \/ Complete(c, answer[c])
          /\ Complete(c, answer[c]) \/ Partial(c, answer[c])
      BY <1>0, <1>7 DEF Close, AnswerAt, PlainType, Conn
    <2> QED
      BY <1>b, <1>p, <2>1 DEF AnswerAt
  <1>8. CASE Release(c)
    BY <1>0, <1>8, AnswerFrame DEF Release, PlainType
  <1> QED
    BY <1>1, <1>2, <1>3, <1>4, <1>5, <1>6, <1>7, <1>8 DEF JobNext

\* It leaves the other connections alone.
LEMMA OtherAnswers ==
  ASSUME SeqInv, PlainType, NEW c \in Clients, JobNext(c), NEW e \in Clients, e # c
  PROVE  /\ answer'[e] = answer[e] /\ downEnd'[e] = downEnd[e] /\ job'[e] = job[e]
         /\ down'[e] = down[e]
  <1> USE DEF downVars, jobVars, Goto, Conn
  <1>1. CASE WritePiece(c) \/ WriteError(c)
    <2>1. /\ UNCHANGED <<down, answer>> \/ \E w : Transmit(c, w)
          /\ downEnd' = downEnd /\ job'[e] = job[e]
      BY <1>1 DEF WritePiece, WriteError, PlainType
    <2>2. ASSUME NEW w, Transmit(c, w) PROVE answer'[e] = answer[e] /\ down'[e] = down[e]
      <3>1. answer' = [answer EXCEPT ![c] = Append(@, w)]
        BY <2>2, TransmitFacts
      <3>2. down' = down \/ down' = [down EXCEPT ![c] = Append(@, w)]
        BY <2>2, TransmitFacts
      <3> QED
        BY <3>1, <3>2 DEF SeqInv
    <2> QED
      BY <2>1, <2>2
  <1>2. CASE Split(c) \/ Write(c) \/ WriteEnd(c) \/ HandlerEnds(c) \/ Close(c) \/ Release(c)
    BY <1>2 DEF Split, Write, WriteEnd, HandlerEnds, Close, Release, PlainType
  <1> QED
    BY <1>1, <1>2 DEF JobNext

\* Every step keeps an answer a response or an error.
LEMMA AnswerInvStep == IInv /\ [Next]_vars => AnswerInv'
  <1> SUFFICES ASSUME IInv, [Next]_vars, NEW e \in Clients PROVE AnswerAt(e)'
    BY DEF AnswerInv
  <1>0. SeqInv /\ PlainType /\ BacklogInv /\ AnswerInv /\ AnswerAt(e)
    BY DEF IInv, AnswerInv
  <1>b. broken \subseteq broken'
    BY BrokenStays
  <1> USE DEF clientVars, upVars, downVars, serveVars, slotVars, jobVars
  <1>1. ASSUME UNCHANGED <<answer, downEnd, job>> PROVE AnswerAt(e)'
    BY <1>0, <1>b, <1>1, AnswerFrame
  <1>2. CASE ReadEnd
    <2>1. /\ UNCHANGED <<answer, downEnd>> /\ job[cur] = "none" /\ cur \in Clients
          /\ job' = [job EXCEPT ![cur] = "split"]
      BY <1>0, <1>2 DEF ReadEnd, BacklogInv
    <2>2. job'[e] = job[e] \/ (job[e] = "none" /\ job'[e] = "split")
      BY <1>0, <2>1 DEF PlainType
    <2> QED
      BY <1>0, <1>b, <2>1, <2>2, AnswerFrame
  <1>3. CASE Exit
    <2>1. UNCHANGED answer
      BY <1>3 DEF Exit
    <2>2. CASE e \in Held
      <3>1. job'[e] = "cut"
        BY <1>3, <2>2 DEF Exit
      <3> QED
        BY <1>0, <2>1, <3>1 DEF AnswerAt, Complete, Partial, Error
    <2>3. CASE e \notin Held
      <3>1. job'[e] = job[e] /\ downEnd'[e] = downEnd[e]
        BY <1>0, <1>3, <2>3 DEF Exit, PlainType
      <3> QED
        BY <1>0, <1>b, <2>1, <3>1, AnswerFrame
    <2> QED
      BY <2>2, <2>3
  <1>4. ASSUME NEW c \in Clients, JobNext(c) PROVE AnswerAt(e)'
    <2>1. CASE e = c
      BY <1>0, <1>4, <2>1, AnswerStep
    <2>2. CASE e # c
      BY <1>0, <1>4, <1>b, <2>2, OtherAnswers, AnswerFrame
    <2> QED
      BY <2>1, <2>2
  <1>5. ASSUME NEW c \in Clients, SendNext(c) \/ SendAgain(c) \/ Die(c) \/ Break(c)
        PROVE  AnswerAt(e)'
    BY <1>1, <1>5 DEF SendNext, NewTCPSender, SendWrite, SendLost, SendFails,
       SendCloseWrite, SendRead, SendReturn, SendAgain, Die, Break
  <1>6. CASE Accept \/ Acquire \/ Read \/ Shutdown \/ UNCHANGED vars
    BY <1>1, <1>6 DEF Accept, Acquire, Read, Shutdown, vars
  <1> QED
    BY <1>2, <1>3, <1>4, <1>5, <1>6 DEF Next, ServeNext

-----------------------------------------------------------------------------
(* Responses on their way *)

\* A step that moves nothing to a client keeps what is known of its way.
LEMMA DownFrame ==
  ASSUME NEW c \in Clients, DownAt(c),
         down'[c] = down[c], got'[c] = got[c], answer'[c] = answer[c],
         c \in broken' <=> c \in broken, downEnd[c] => downEnd'[c],
         send'[c] \in {"ok", "refused"} => send[c] \in {"ok", "refused"},
         send[c] = "dead" => send'[c] = "dead"
  PROVE  DownAt(c)'
  BY DEF DownAt

\* A reset keeps what is known of the way to the client.
LEMMA DownReset ==
  ASSUME SeqInv, PlainType, NEW c \in Clients, DownAt(c), NEW C \in SUBSET Clients,
         Reset(C), UNCHANGED <<got, answer, send>>, downEnd[c] => downEnd'[c]
  PROVE  DownAt(c)'
  <1>1. CASE c \notin C
    <2>1. down'[c] = down[c] /\ (c \in broken' <=> c \in broken)
      BY <1>1, ResetFacts
    <2> QED
      BY <2>1, DownFrame
  <1>2. CASE c \in C
    <2>1. down'[c] = <<>> /\ c \in broken'
      BY <1>2, ResetFacts
    <2>2. /\ got[c] \in Seq(Writes) /\ down[c] \in Seq(Writes)
          /\ answer[c] \in Seq(Writes)
      BY DEF SeqInv
    <2>3. Len(answer[c]) \in Nat
      BY <2>2, EmptyLen
    <2>4. Carried(got[c], <<>>, answer[c], Len(answer[c]))
      BY <2>2, <2>3, CarriedLost DEF DownAt
    <2>5. Len(<<>>) <= Window
      BY OptionTypes
    <2> QED
      BY <2>1, <2>4, <2>5 DEF DownAt
  <1> QED
    BY <1>1, <1>2

\* A write sets off, or is swallowed by the kernel of a dead client.
LEMMA DownTransmit ==
  ASSUME SeqInv, NEW c \in Clients, DownAt(c), NEW w \in Writes, Transmit(c, w),
         UNCHANGED <<got, broken, send, downEnd>>
  PROVE  DownAt(c)'
  <1> DEFINE g == got[c]  d == down[c]  s == answer[c]  n == Len(s)  t == Append(s, w)
  <1>1. g \in Seq(Writes) /\ d \in Seq(Writes) /\ s \in Seq(Writes)
    BY DEF SeqInv
  <1>2. /\ n \in Nat /\ Len(t) = n + 1 /\ t[n + 1] = w
        /\ \A i \in 1..n : t[i] = s[i]
    BY <1>1, Appended, EmptyLen
  <1>3. c \notin broken /\ ~ downEnd[c] /\ answer'[c] = t
    BY TransmitFacts DEF SeqInv
  <1>4. Carried(g, d, s, n) /\ send[c] \notin {"ok", "refused"} /\ Len(d) <= Window
    BY <1>3 DEF DownAt
  <1>5. CASE send[c] = "dead"
    <2>1. down'[c] = d
      BY <1>5, TransmitFacts
    <2> HIDE DEF g, d, s, n, t
    <2>2. Carried(g, d, t, n + 1)
      BY <1>1, <1>2, <1>4, CarriedMore
    <2>3. Carried(g, d, t, Len(t))
      BY <1>2, <2>2
    <2> QED
      BY <1>3, <1>4, <1>5, <2>1, <2>3 DEF DownAt, g
  <1>6. CASE send[c] # "dead"
    <2> DEFINE m == Append(d, w)
    <2>1. down'[c] = m /\ Len(d) < Window
      BY <1>6, TransmitFacts DEF SeqInv
    <2>2. Len(g) + Len(d) = n
      BY <1>3, <1>6 DEF DownAt
    <2>3. Len(m) = Len(d) + 1 /\ Len(d) \in Nat
      BY <1>1, Appended, EmptyLen
    <2> HIDE DEF g, d, s, n, t
    <2>4. Carried(g, m, t, n + 1) /\ Len(g) + Len(m) = n + 1
      BY <1>1, <1>2, <1>4, <2>2, CarriedWrite
    <2> HIDE DEF m
    <2>5. Len(m) <= Window
      BY <2>1, <2>3, OptionTypes
    <2>6. Carried(g, m, t, Len(t)) /\ Len(g) + Len(m) = Len(t)
      BY <1>2, <2>4
    <2> QED
      BY <1>3, <1>4, <2>1, <2>5, <2>6 DEF DownAt, g
  <1> QED
    BY <1>5, <1>6

\* The sender reads on.
LEMMA DownRead ==
  ASSUME SeqInv, NEW c \in Clients, DownAt(c), SendRead(c)
  PROVE  DownAt(c)'
  <1> DEFINE g == got[c]  d == down[c]  s == answer[c]  n == Len(s)
             r == Append(g, Head(d))  w == Tail(d)
  <1>1. g \in Seq(Writes) /\ d \in Seq(Writes) /\ s \in Seq(Writes)
    BY DEF SeqInv
  <1>2. /\ d # <<>> /\ got'[c] = r /\ down'[c] = w /\ send[c] = "read"
        /\ UNCHANGED <<answer, broken, send, downEnd>>
    BY DEF SendRead, SeqInv, downVars, jobVars
  <1>3. Carried(g, d, s, n) /\ Len(d) <= Window /\ n \in Nat /\ c \notin broken
    BY <1>1, <1>2, EmptyLen DEF DownAt
  <1>4. Carried(r, w, s, n) /\ Len(r) + Len(w) = Len(g) + Len(d) /\ Len(w) < Len(d)
    BY <1>1, <1>2, <1>3, CarriedRead
  <1>5. Len(w) \in Nat /\ Len(d) \in Nat
    BY <1>1, <1>2, Taken, EmptyLen
  <1>6. Len(g) + Len(d) = n
    BY <1>2, <1>3 DEF DownAt
  <1> HIDE DEF g, d, r, w
  <1>7. Len(w) <= Window
    <2> DEFINE a == Len(w)  b == Len(d)
    <2>1. a \in Nat /\ b \in Nat /\ a < b /\ b <= Window
      BY <1>3, <1>4, <1>5
    <2> HIDE DEF a, b
    <2>2. a <= Window
      BY <2>1, OptionTypes
    <2> QED
      BY <2>2 DEF a
  <1>8. Len(r) + Len(w) = n
    BY <1>4, <1>6
  <1> QED
    BY <1>2, <1>3, <1>4, <1>7, <1>8 DEF DownAt

\* Every step keeps the order of the writes of an answer.
LEMMA DownInvStep == IInv /\ [Next]_vars => DownInv'
  <1> SUFFICES ASSUME IInv, [Next]_vars, NEW e \in Clients PROVE DownAt(e)'
    BY DEF DownInv
  <1>0. SeqInv /\ PlainType /\ AnswerInv /\ DownAt(e)
    BY DEF IInv, DownInv
  <1>d. send[e] = "dead" => send'[e] = "dead"
    BY <1>0, DeadStays
  <1> USE DEF clientVars, upVars, downVars, serveVars, slotVars, jobVars
  <1>1. ASSUME UNCHANGED <<got, down, answer, broken, downEnd>>,
               send'[e] \in {"ok", "refused"} => send[e] \in {"ok", "refused"}
        PROVE  DownAt(e)'
    BY <1>0, <1>d, <1>1, DownFrame
  <1>2. ASSUME NEW c \in Clients,
               \/ NewTCPSender(c) \/ SendWrite(c) \/ SendFails(c) \/ SendCloseWrite(c)
               \/ SendAgain(c) \/ Die(c)
        PROVE  DownAt(e)'
    <2>1. send'[e] \in {"ok", "refused"} => send[e] \in {"ok", "refused"}
      BY <1>0, <1>2 DEF NewTCPSender, SendWrite, SendFails, SendCloseWrite, SendAgain, Die,
         PlainType
    <2>2. UNCHANGED <<got, down, answer, broken, downEnd>>
      BY <1>2 DEF NewTCPSender, SendWrite, SendFails, SendCloseWrite, SendAgain, Die
    <2> QED
      BY <1>1, <2>1, <2>2
  <1>3. ASSUME NEW c \in Clients, SendRead(c) PROVE DownAt(e)'
    <2>1. CASE e = c
      BY <1>0, <1>3, <2>1, DownRead
    <2>2. CASE e # c
      <3>1. /\ got'[e] = got[e] /\ down'[e] = down[e]
            /\ UNCHANGED <<answer, broken, downEnd, send>>
        BY <1>0, <1>3, <2>2 DEF SendRead, SeqInv
      <3> QED
        BY <1>0, <3>1, DownFrame
    <2> QED
      BY <2>1, <2>2
  <1>4. ASSUME NEW c \in Clients, SendReturn(c) PROVE DownAt(e)'
    <2>1. /\ UNCHANGED <<got, down, answer, broken, downEnd>>
          /\ c \in broken \/ (downEnd[c] /\ down[c] = <<>>)
          /\ send[c] = "read" /\ send' = [send EXCEPT ![c] = "ok"]
      BY <1>4 DEF SendReturn
    <2>2. CASE e = c
      <3>1. send[e] # "dead" /\ send'[e] = "ok"
        BY <1>0, <2>1, <2>2 DEF PlainType
      <3> QED
        BY <1>0, <2>1, <2>2, <3>1 DEF DownAt
    <2>3. CASE e # c
      <3>1. send'[e] = send[e]
        BY <1>0, <2>1, <2>3 DEF PlainType
      <3> QED
        BY <1>1, <2>1, <3>1
    <2> QED
      BY <2>2, <2>3
  <1>5. CASE (\E c \in Clients : Break(c) \/ SendLost(c)) \/ Shutdown \/ Exit
    <2>1. UNCHANGED <<got, answer, send>> /\ (downEnd[e] => downEnd'[e])
      BY <1>5 DEF Break, SendLost, Shutdown, Exit
    <2> QED
      BY <1>0, <1>5, <2>1, WhoResets, DownReset
  <1>6. CASE ServeNext \/ UNCHANGED vars
    BY <1>1, <1>6 DEF ServeNext, Accept, Acquire, Read, ReadEnd, vars
  <1>7. ASSUME NEW c \in Clients, JobNext(c) PROVE DownAt(e)'
    <2>1. CASE e # c
      <3>1. /\ answer'[e] = answer[e] /\ downEnd'[e] = downEnd[e] /\ down'[e] = down[e]
        BY <1>0, <1>7, <2>1, OtherAnswers
      <3>2. UNCHANGED <<got, broken, send>>
        BY <1>7 DEF JobNext, Split, Write, WritePiece, WriteEnd, HandlerEnds, WriteError,
           Close, Release
      <3> QED
        BY <1>0, <3>1, <3>2, DownFrame
    <2>2. CASE e = c /\ (WritePiece(c) \/ WriteError(c))
      <3>1. UNCHANGED <<got, broken, send, downEnd>>
        BY <2>2 DEF WritePiece, WriteError
      <3>2. UNCHANGED <<down, answer>> \/ \E w \in Writes : Transmit(c, w)
        BY <1>0, <2>2, PieceWritten, PieceTypes DEF WriteError
      <3>3. CASE UNCHANGED <<down, answer>>
        BY <1>1, <3>1, <3>3
      <3> QED
        BY <1>0, <2>2, <3>1, <3>2, <3>3, DownTransmit
    <2>3. CASE e = c /\ (WriteEnd(c) \/ Close(c))
      <3>1. UNCHANGED <<got, broken, send, down, answer>> /\ downEnd'[e] = TRUE
        BY <1>0, <2>3 DEF WriteEnd, Close, Conn, PlainType
      <3> QED
        BY <1>0, <3>1, DownFrame
    <2>4. CASE Split(c) \/ Write(c) \/ HandlerEnds(c) \/ Release(c)
      BY <1>1, <2>4 DEF Split, Write, HandlerEnds, Release
    <2> QED
      BY <1>7, <2>1, <2>2, <2>3, <2>4 DEF JobNext
  <1> QED
    BY <1>2, <1>3, <1>4, <1>5, <1>6, <1>7 DEF Next, SendNext

-----------------------------------------------------------------------------
(* The other types *)

\* Every step keeps the types.
LEMMA PlainTypeStep == IInv /\ [Next]_vars => PlainType'
  <1> SUFFICES ASSUME IInv, [Next]_vars PROVE PlainType'
    OBVIOUS
  <1>0. SeqInv /\ PlainType /\ BacklogInv /\ SlotInv
    BY DEF IInv
  <1> USE DEF clientVars, upVars, downVars, serveVars, slotVars, jobVars
  <1>1. ASSUME NEW c \in Clients,
               NewTCPSender(c) \/ SendFails(c) \/ SendRead(c) \/ SendReturn(c) \/ SendAgain(c)
        PROVE  PlainType'
    BY <1>0, <1>1 DEF NewTCPSender, SendFails, SendRead, SendReturn, SendAgain, PlainType,
       SendOver
  <1>2. ASSUME NEW c \in Clients, SendWrite(c) PROVE PlainType'
    <2>1. written[c] + 1 \in 0..Requests
      BY <1>0, <1>2, SendWritten, OptionTypes
    <2> QED
      BY <1>0, <1>2, <2>1 DEF SendWrite, PlainType
  <1>3. ASSUME NEW c \in Clients, SendCloseWrite(c) \/ Die(c) PROVE PlainType'
    <2>1. faults' \in 0..MaxFaults
      BY <1>0, <1>3, TcpAssumption DEF SendCloseWrite, Die, PlainType
    <2> QED
      BY <1>0, <1>3, <2>1 DEF SendCloseWrite, Die, PlainType, SendOver
  <1>4. CASE (\E c \in Clients : Break(c) \/ SendLost(c)) \/ Shutdown \/ Exit
    <2>1. broken' \subseteq Clients
      BY <1>0, <1>4, WhoResets, ResetFacts DEF PlainType
    <2>2. faults' \in 0..MaxFaults
      <3>1. faults' = faults \/ (faults < MaxFaults /\ faults' = faults + 1)
        BY <1>4 DEF Break, SendLost, Shutdown, Exit
      <3>2. faults \in 0..MaxFaults /\ MaxFaults \in Nat
        BY <1>0, TcpAssumption DEF PlainType
      <3> QED
        BY <3>1, <3>2
    <2>3. /\ semaphore' \in 0..maxConcurrentClient
          /\ job' \in [Clients -> {"none", "split", "handle", "write", "wrote", "error",
                                   "close", "release", "over", "cut"}]
          /\ downEnd' \in [Clients -> BOOLEAN]
      <3>1. \/ UNCHANGED <<job, downEnd, semaphore>>
            \/ /\ semaphore' = 0
               /\ job' = [c \in Clients |-> IF c \in Held THEN "cut" ELSE job[c]]
               /\ downEnd' = [c \in Clients |-> downEnd[c] \/ c \in Held]
        BY <1>4 DEF Break, SendLost, Shutdown, Exit
      <3>2. 0 \in 0..maxConcurrentClient
        BY <1>0, OptionTypes DEF PlainType
      <3> QED
        BY <1>0, <3>1, <3>2 DEF PlainType
    <2>4. /\ UNCHANGED <<send, upEnd, cur, maxConcurrentClient>>
          /\ open' \in BOOLEAN /\ serve' \in {serve, "exited"}
      BY <1>0, <1>4 DEF Break, SendLost, Shutdown, Exit, PlainType
    <2>5. written' \in [Clients -> 0..Requests]
      <3>1. CASE written' = written
        BY <1>0, <3>1 DEF PlainType
      <3>2. ASSUME NEW c \in Clients, SendLost(c) PROVE written' \in [Clients -> 0..Requests]
        <4>1. written[c] + 1 \in 0..Requests
          BY <1>0, <3>2, SendWritten, OptionTypes
        <4> QED
          BY <1>0, <3>2, <4>1 DEF SendLost, PlainType
      <3> QED
        BY <1>4, <3>1, <3>2 DEF Break, Shutdown, Exit
    <2> QED
      BY <1>0, <2>1, <2>2, <2>3, <2>4, <2>5 DEF PlainType
  <1>5. CASE Accept
    <2>1. cur' \in Clients
      BY <1>0, <1>5, Taken DEF Accept, SeqInv
    <2> QED
      BY <1>0, <1>5, <2>1 DEF Accept, PlainType
  <1>6. CASE Acquire
    <2>1. semaphore' \in 0..maxConcurrentClient
      BY <1>0, <1>6, OptionTypes DEF Acquire, PlainType
    <2> QED
      BY <1>0, <1>6, <2>1 DEF Acquire, PlainType
  <1>7. CASE Read \/ ReadEnd \/ UNCHANGED vars
    BY <1>0, <1>7 DEF Read, ReadEnd, vars, PlainType
  <1>8. ASSUME NEW c \in Clients, JobNext(c) PROVE PlainType'
    <2>1. semaphore' \in 0..maxConcurrentClient
      <3>1. CASE UNCHANGED semaphore
        BY <1>0, <1>8, <3>1 DEF JobNext, Split, Write, WritePiece, WriteEnd, HandlerEnds,
           WriteError, Close, Release, PlainType
      <3>2. CASE Release(c)
        <4>1. c \in Running
          BY <3>2 DEF Release, Running
        <4>2. Cardinality(Running) \in Nat /\ Cardinality(Running) > 0
          BY <4>1, RunningFinite
        <4> DEFINE k == Cardinality(Running)  r == IF serve = "read" THEN 1 ELSE 0
        <4>3. k \in Nat /\ k > 0 /\ r \in Nat /\ semaphore = k + r
          BY <1>0, <4>2 DEF SlotInv
        <4> HIDE DEF k, r
        <4>4. semaphore > 0
          BY <4>3
        <4> QED
          BY <1>0, <3>2, <4>4, OptionTypes DEF Release, PlainType
      <3> QED
        BY <1>8, <3>1, <3>2 DEF JobNext, Split, Write, WritePiece, WriteEnd, HandlerEnds,
           WriteError, Close
    <2>2. job' \in [Clients -> {"none", "split", "handle", "write", "wrote", "error",
                                "close", "release", "over", "cut"}]
      BY <1>0, <1>8, JobMoves DEF PlainType
    <2>3. downEnd' \in [Clients -> BOOLEAN]
      BY <1>0, <1>8 DEF JobNext, Split, Write, WritePiece, WriteEnd, HandlerEnds, WriteError,
         Close, Release, PlainType
    <2>4. UNCHANGED <<send, written, upEnd, broken, open, serve, cur, maxConcurrentClient,
                      faults>>
      BY <1>8 DEF JobNext, Split, Write, WritePiece, WriteEnd, HandlerEnds, WriteError, Close,
         Release
    <2> QED
      BY <1>0, <2>1, <2>2, <2>3, <2>4 DEF PlainType
  <1> QED
    BY <1>1, <1>2, <1>3, <1>4, <1>5, <1>6, <1>7, <1>8 DEF Next, SendNext, ServeNext

-----------------------------------------------------------------------------
(* Theorems *)

\* The server starts in the invariant.
LEMMA InitIInv == Init => IInv
  <1> SUFFICES ASSUME Init PROVE IInv
    OBVIOUS
  <1>1. SeqInv
    BY EmptyTyped DEF Init, SeqInv
  <1>2. PlainType
    <2>1. /\ 0 \in 0..Requests /\ 0 \in 0..MaxFaults
          /\ \A m \in MaxClients : 0 \in 0..m
      BY OptionTypes, TcpAssumption
    <2> QED
      BY <2>1 DEF Init, PlainType
  <1>3. SlotInv
    <2>1. Running = {} /\ semaphore = 0 /\ serve # "read"
      BY DEF Init, Running
    <2>2. Cardinality(Running) = 0
      BY <2>1, FS_EmptySet
    <2> QED
      BY <2>1, <2>2 DEF SlotInv
  <1>4. BacklogInv
    <2>1. backlog = <<>> /\ serve = "accept" /\ \A c \in Clients : job[c] = "none"
      BY DEF Init
    <2>2. \A i \in 1..Len(backlog) : FALSE
      BY <2>1
    <2> QED
      BY <2>1, <2>2 DEF BacklogInv
  <1>5. \A c \in Clients : Carried(<<>>, <<>>, Request(c), 0) /\ Carried(<<>>, <<>>, <<>>, 0)
    BY DEF Carried
  <1>6. UpInv /\ DownInv
    <2>1. Len(<<>>) = 0 /\ 0 <= Window
      BY OptionTypes
    <2> QED
      BY <1>5, <2>1 DEF Init, UpInv, UpAt, DownInv, DownAt
  <1>7. RequestInv /\ AnswerInv
    BY NothingYet DEF Init, RequestInv, RequestAt, AnswerInv, AnswerAt
  <1> QED
    BY <1>1, <1>2, <1>3, <1>4, <1>6, <1>7 DEF IInv

\* IInv holds in every reachable state of the server and its senders (p2p/tcp.go,
\* p2p/context.go, p2p/sender/sender_tcp.go).
THEOREM TcpInductive == Spec => []IInv
  <1>1. IInv /\ [Next]_vars => IInv'
    BY SeqInvStep, PlainTypeStep, SlotInvStep, BacklogInvStep, UpInvStep, RequestInvStep,
       AnswerInvStep, DownInvStep DEF IInv
  <1> QED
    BY InitIInv, <1>1, PTL DEF Spec

\* What was read is no longer than what was written.
LEMMA CarriedBounds ==
  ASSUME NEW S, NEW read \in Seq(S), NEW way \in Seq(S), NEW whole, NEW n \in Nat,
         Carried(read, way, whole, n)
  PROVE  Len(read) \in Nat /\ Len(read) <= n
  <1> DEFINE a == Len(read)  b == Len(way)
  <1>1. a \in Nat /\ b \in Nat /\ a + b <= n
    BY DEF Carried
  <1> HIDE DEF a, b
  <1>2. a <= n
    BY <1>1
  <1> QED
    BY <1>1, <1>2 DEF a

\* An answer is not longer than a response and an error.
LEMMA AnswerLength ==
  ASSUME IInv, NEW c \in Clients
  PROVE  Len(answer[c]) \in Nat /\ Len(answer[c]) <= Responses + 1
  <1>1. Complete(c, answer[c]) \/ Partial(c, answer[c])
    BY DEF IInv, AnswerInv, AnswerAt
  <1>2. answer[c] \in Seq(Writes) /\ Responses \in Nat
    BY OptionTypes DEF IInv, SeqInv
  <1> QED
    BY <1>1, <1>2 DEF Complete, Partial

\* The invariant bounds what TypeOK bounds.
LEMMA Typed == IInv => TypeOK
  <1> SUFFICES ASSUME IInv PROVE TypeOK
    OBVIOUS
  <1>1. PlainType /\ SeqInv
    BY DEF IInv
  <1>2. ASSUME NEW c \in Clients
        PROVE  /\ Len(up[c]) <= Window /\ Len(down[c]) <= Window
               /\ Len(request[c]) <= Requests /\ Len(got[c]) <= Responses + 1
    <2>1. UpAt(c) /\ DownAt(c)
      BY DEF IInv, UpInv, DownInv
    <2>2. Len(request[c]) <= Requests
      <3> DEFINE a == Len(request[c])  n == written[c]
      <3>1. n \in Nat /\ n <= Requests
        BY <1>1, OptionTypes DEF PlainType
      <3>2. a \in Nat /\ a <= n
        BY <1>1, <2>1, <3>1, CarriedBounds DEF UpAt, SeqInv
      <3> HIDE DEF a, n
      <3>3. a <= Requests
        BY <3>1, <3>2, OptionTypes
      <3> QED
        BY <3>3 DEF a
    <2>3. Len(got[c]) <= Responses + 1
      <3> DEFINE a == Len(got[c])  n == Len(answer[c])
      <3>1. n \in Nat /\ n <= Responses + 1
        BY AnswerLength
      <3>2. a \in Nat /\ a <= n
        BY <1>1, <2>1, <3>1, CarriedBounds DEF DownAt, SeqInv
      <3> HIDE DEF a, n
      <3>3. a <= Responses + 1
        BY <3>1, <3>2, OptionTypes
      <3> QED
        BY <3>3 DEF a
    <2> QED
      BY <2>1, <2>2, <2>3 DEF UpAt, DownAt
  <1>3. ToSet(backlog) \subseteq Clients
    BY <1>1 DEF SeqInv, ToSet
  <1> QED
    BY <1>1, <1>2, <1>3 DEF TypeOK, PlainType

\* Every variable has its type: no more than Window writes are on the way in either
\* direction, Serve reads no more than a request, a sender no more than a response and
\* the semaphore stays between 0 and maxConcurrentClient.
THEOREM TcpTypeCorrect == Spec => []TypeOK
  BY Typed, TcpInductive, PTL

\* Until the process ends the slots in use are those of the goroutines that run and of
\* the connection Serve reads from.
THEOREM TcpSlotsSafe == Spec => []SlotsAccounted
  <1>1. IInv => SlotsAccounted
    BY DEF IInv, SlotInv, SlotsAccounted
  <1> QED
    BY <1>1, TcpInductive, PTL

\* Writes that agree with a sequence one by one are a prefix of it.
LEMMA PrefixOf ==
  ASSUME NEW S, NEW s \in Seq(S), NEW t \in Seq(S), Len(s) <= Len(t),
         \A i \in 1..Len(s) : s[i] = t[i]
  PROVE  IsPrefix(s, t) /\ (Len(s) = Len(t) => s = t)
  <1> DEFINE n == Len(s)
  <1>1. n \in Nat /\ Len(t) \in Nat /\ n <= Len(t)
    OBVIOUS
  <1>2. SubSeq(t, 1, n) \in Seq(S) /\ Len(SubSeq(t, 1, n)) = n
    BY <1>1
  <1>3. \A i \in 1..n : SubSeq(t, 1, n)[i] = t[i]
    BY <1>1
  <1>4. SubSeq(s, 1, n) \in Seq(S) /\ Len(SubSeq(s, 1, n)) = n
    BY <1>1
  <1>5. \A i \in 1..n : SubSeq(s, 1, n)[i] = s[i]
    BY <1>1
  <1>6. SubSeq(s, 1, n) = SubSeq(t, 1, n)
    BY <1>2, <1>3, <1>4, <1>5
  <1> QED
    BY <1>1, <1>6 DEF IsPrefix

\* What goes to the handler is the request of the client of that connection, whole
\* unless that client died, although Serve reads the next request meanwhile.
LEMMA RequestsWhole == IInv => WholeRequest
  <1> SUFFICES ASSUME IInv, NEW c \in Clients,
                      job[c] \in {"handle", "write", "wrote", "error"}
               PROVE  \/ request[c] = Request(c)
                      \/ send[c] = "dead" /\ IsPrefix(request[c], Request(c))
    BY DEF WholeRequest
  <1>1. /\ request[c] \in Seq(Writes) /\ up[c] \in Seq(Writes)
        /\ Request(c) \in Seq(Writes) /\ Len(Request(c)) = Requests
    BY PieceTypes DEF IInv, SeqInv
  <1>2. Len(request[c]) = Requests \/ send[c] = "dead"
    <2>1. RequestAt(c) /\ job[c] # "none"
      BY DEF IInv, RequestInv
    <2> QED
      BY <2>1 DEF RequestAt
  <1>3. /\ Carried(request[c], up[c], Request(c), written[c])
        /\ written[c] \in Nat /\ written[c] <= Requests
    <2>1. Carried(request[c], up[c], Request(c), written[c])
      BY DEF IInv, UpInv, UpAt
    <2>2. written[c] \in 0..Requests
      BY DEF IInv, PlainType
    <2> QED
      BY <2>1, <2>2, OptionTypes
  <1>4. Len(request[c]) \in Nat /\ Len(request[c]) <= written[c]
    BY <1>1, <1>3, CarriedBounds
  <1>5. Len(request[c]) <= Len(Request(c))
    <2> DEFINE a == Len(request[c])  n == written[c]
    <2>1. a \in Nat /\ n \in Nat /\ a <= n /\ n <= Requests
      BY <1>3, <1>4
    <2> HIDE DEF a, n
    <2>2. a <= Requests
      BY <2>1, OptionTypes
    <2> QED
      BY <1>1, <2>2 DEF a
  <1>6. \A i \in 1..Len(request[c]) : request[c][i] = Request(c)[i]
    BY <1>3 DEF Carried
  <1>7. /\ IsPrefix(request[c], Request(c))
        /\ Len(request[c]) = Len(Request(c)) => request[c] = Request(c)
    BY <1>1, <1>5, <1>6, PrefixOf
  <1> QED
    BY <1>1, <1>2, <1>7

\* A handler is given the whole request of its own client, or a part of it when that
\* client died while writing.
THEOREM TcpRequestsWhole == Spec => []WholeRequest
  BY RequestsWhole, TcpInductive, PTL

\* A part of a response is a prefix of it, a complete answer one of the three.
LEMMA AnswerCases ==
  ASSUME NEW c \in Clients, NEW s \in Seq(Writes)
  PROVE  /\ Partial(c, s) => IsPrefix(s, Response(c))
         /\ Complete(c, s) => s \in {<<>>, Response(c), <<<<c, Error>>>>}
  <1>1. /\ Response(c) \in Seq(Writes) /\ Len(Response(c)) = Responses
        /\ \A i \in 1..Responses : Response(c)[i] = <<c, i>>
    BY PieceTypes
  <1>2. ASSUME Partial(c, s)
        PROVE  /\ IsPrefix(s, Response(c))
               /\ Len(s) = Responses => s = Response(c)
    <2>1. Len(s) \in Nat /\ Len(s) <= Responses /\ \A i \in 1..Len(s) : s[i] = <<c, i>>
      BY <1>2 DEF Partial
    <2>2. \A i \in 1..Len(s) : i \in 1..Responses
      BY <2>1, OptionTypes
    <2>3. \A i \in 1..Len(s) : s[i] = Response(c)[i]
      BY <1>1, <2>1, <2>2
    <2> QED
      BY <1>1, <2>1, <2>3, PrefixOf
  <1> QED
    BY <1>2 DEF Complete

\* What a sender has read in the invariant is whole, an error, or was cut off by a
\* reset or the end of the process.
LEMMA ResponsesWhole == IInv => ResponseWhole
  <1> SUFFICES ASSUME IInv, NEW c \in Clients, send[c] \in {"ok", "refused"}
               PROVE  /\ c \notin broken => got[c] = answer[c]
                      /\ \/ got[c] \in {<<>>, Response(c), <<<<c, Error>>>>}
                         \/ /\ c \in broken \/ job[c] = "cut"
                            /\ IsPrefix(got[c], Response(c))
    BY DEF ResponseWhole
  <1>1. /\ got[c] \in Seq(Writes) /\ down[c] \in Seq(Writes) /\ answer[c] \in Seq(Writes)
        /\ DownAt(c) /\ AnswerAt(c)
    BY DEF IInv, SeqInv, DownInv, AnswerInv
  <1>2. Len(answer[c]) \in Nat
    BY <1>1, EmptyLen
  <1>3. /\ Carried(got[c], down[c], answer[c], Len(answer[c]))
        /\ Len(got[c]) \in Nat /\ Len(got[c]) <= Len(answer[c])
    BY <1>1, <1>2, CarriedBounds DEF DownAt
  <1>4. \A i \in 1..Len(got[c]) : got[c][i] = answer[c][i]
    BY <1>3 DEF Carried
  <1>5. IsPrefix(got[c], answer[c]) /\ (Len(got[c]) = Len(answer[c]) => got[c] = answer[c])
    BY <1>1, <1>3, <1>4, PrefixOf
  <1>6. CASE c \notin broken
    <2>1. downEnd[c] /\ down[c] = <<>> /\ send[c] # "dead"
      BY <1>1, <1>6 DEF DownAt
    <2>2. Len(got[c]) + Len(down[c]) = Len(answer[c]) /\ Len(down[c]) = 0
      BY <1>1, <1>6, <2>1, EmptyLen DEF DownAt
    <2>3. Len(got[c]) = Len(answer[c])
      <3> DEFINE a == Len(got[c])  b == Len(down[c])
      <3>1. a \in Nat /\ b = 0 /\ a + b = Len(answer[c])
        BY <1>3, <2>2
      <3> HIDE DEF a, b
      <3>2. a = Len(answer[c])
        BY <3>1
      <3> QED
        BY <3>2 DEF a
    <2>4. Complete(c, answer[c]) \/ (job[c] = "cut" /\ Partial(c, answer[c]))
      BY <1>1, <1>6, <2>1 DEF AnswerAt
    <2> QED
      BY <1>1, <1>5, <1>6, <2>3, <2>4, AnswerCases
  <1>7. CASE c \in broken
    <2> DEFINE g == got[c]  s == answer[c]
    <2>1. Complete(c, s) \/ Partial(c, s)
      BY <1>1 DEF AnswerAt
    <2>2. /\ g \in Seq(Writes) /\ s \in Seq(Writes) /\ Len(g) \in Nat /\ Len(g) <= Len(s)
          /\ \A i \in 1..Len(g) : g[i] = s[i]
          /\ Len(g) = Len(s) => g = s
      BY <1>1, <1>3, <1>4, <1>5
    <2> HIDE DEF g, s
    <2>3. CASE Partial(c, s)
      <3>1. Len(s) \in Nat /\ Len(s) <= Responses /\ \A i \in 1..Len(s) : s[i] = <<c, i>>
        BY <2>2, <2>3 DEF Partial
      <3>2. Len(g) <= Responses /\ \A i \in 1..Len(g) : i \in 1..Len(s)
        <4> DEFINE a == Len(g)  b == Len(s)
        <4>1. a \in Nat /\ b \in Nat /\ a <= b /\ b <= Responses
          BY <2>2, <3>1
        <4> HIDE DEF a, b
        <4>2. a <= Responses /\ \A i \in 1..a : i \in 1..b
          BY <4>1, OptionTypes
        <4> QED
          BY <4>2 DEF a, b
      <3>3. Partial(c, g)
        BY <2>2, <3>1, <3>2 DEF Partial
      <3> QED
        BY <1>7, <2>2, <3>3, AnswerCases DEF g
    <2>4. CASE s = <<>> \/ s = <<<<c, Error>>>>
      <3>1. Len(s) = 0 \/ (Len(s) = 1 /\ s = <<<<c, Error>>>>)
        BY <2>4
      <3>2. Len(g) = 0 \/ g = <<<<c, Error>>>>
        BY <2>2, <3>1
      <3>3. Len(g) = 0 => g = <<>>
        BY <2>2, EmptyLen
      <3> QED
        BY <1>7, <2>2, <3>2, <3>3, NothingYet, AnswerCases DEF g
    <2> QED
      BY <2>1, <2>3, <2>4 DEF Complete
  <1> QED
    BY <1>6, <1>7

\* What a Send has returned is what the goroutine of its connection wrote, whole: a
\* response or an error, never both, and a part of a response only when the connection
\* was reset or the process of the server ended before its goroutine.
THEOREM TcpResponsesWhole == Spec => []ResponseWhole
  BY ResponsesWhole, TcpInductive, PTL
-----------------------------------------------------------------------------
(* No standstill: somebody can always go on *)

\* There is room for another write to the client, or nobody left to take it.
Room(c) == c \notin broken /\ ~ downEnd[c] /\ (send[c] = "dead" \/ Len(down[c]) < Window)

\* What the actions of Serve, of a goroutine and of a sender that has connected wait for.
CanServe ==
    \/ serve = "accept" /\ backlog # <<>>
    \/ serve = "acquire" /\ semaphore < maxConcurrentClient
    \/ serve = "read" /\ (cur \in broken \/ up[cur] # <<>> \/ upEnd[cur])

CanJob(c) ==
    \/ job[c] \in {"split", "handle", "wrote", "close", "release"}
    \/ job[c] = "write" /\ (c \in broken \/ Len(answer[c]) = Responses \/ Room(c))
    \/ job[c] = "error" /\ (c \in broken \/ downEnd[c] \/ Room(c))

CanSend(c) ==
    \/ /\ send[c] = "write"
       /\ \/ c \in broken \/ written[c] = Requests
          \/ serve = "exited" \/ Len(up[c]) < Window
    \/ send[c] = "read" /\ (c \in broken \/ downEnd[c] \/ down[c] # <<>>)

\* While a Send is under way whose client does not stall, the server or such a client can
\* go on, unless the server is held up by clients that stall.
NoStandstill ==
    (\E c \in Clients \ Stalling : send[c] \in {"write", "read"})
        => \/ CanServe \/ HeldUp
           \/ \E c \in Clients : CanJob(c)
           \/ \E c \in Clients \ Stalling : CanSend(c)

\* Who has to do with a connection that is not ended yet: nobody has accepted it, Serve
\* works on it, or its goroutine was started.
Queued(c) == \E i \in 1..Len(backlog) : backlog[i] = c
Served(c) == cur = c /\ serve \in {"acquire", "read"}

\* A sender has ended its request before it reads, and a goroutine starts behind that
\* end; a goroutine gives up its connection only when it has ended it, and so does the
\* process.
EndAt(c) ==
    /\ send[c] \in {"read", "ok", "refused", "dead"} <=> upEnd[c]
    /\ job[c] \notin {"none", "cut"} => upEnd[c] \/ c \in broken
    /\ job[c] \in {"release", "cut"} => downEnd[c]
    /\ job[c] = "cut" => serve = "exited"
    /\ job[c] = "over" /\ send[c] \in {"write", "read"} => downEnd[c] \/ c \in broken
    /\ send[c] \in {"write", "read"} /\ c \notin broken
           => Queued(c) \/ Served(c) \/ job[c] # "none"
    /\ send[c] = "failed" => c \in broken \/ ~ (Queued(c) \/ Served(c) \/ job[c] # "none")

EndInv == (\A c \in Clients : EndAt(c)) /\ (~ open => backlog = <<>>)
                                        /\ (serve = "exited" => ~ open)

\* A step keeps EndInv at a connection it takes no further, even when it resets it.
LEMMA EndFrame ==
  ASSUME NEW c \in Clients, EndAt(c), send'[c] = send[c], upEnd'[c] = upEnd[c],
         job'[c] = job[c], downEnd[c] => downEnd'[c], c \in broken => c \in broken',
         Queued(c)' \/ Served(c)' => Queued(c) \/ Served(c),
         Queued(c) \/ Served(c) => Queued(c)' \/ Served(c)' \/ c \in broken',
         serve = "exited" => serve' = "exited"
  PROVE  EndAt(c)'
  BY DEF EndAt

\* A connection is appended to the backlog, and taken from its head.
LEMMA QueueSteps ==
  ASSUME SeqInv, NEW c \in Clients
  PROVE  /\ backlog' = backlog => (Queued(c)' <=> Queued(c))
         /\ \A e \in Clients :
               backlog' = Append(backlog, e) => (Queued(c)' <=> Queued(c) \/ c = e)
         /\ backlog # <<>> /\ backlog' = Tail(backlog)
               => (Queued(c) <=> Queued(c)' \/ c = Head(backlog))
         /\ backlog' = <<>> => ~ Queued(c)'
         /\ Queued(c) => c \in ToSet(backlog)
  <1> DEFINE n == Len(backlog)
  <1>0. n \in Nat /\ backlog \in Seq(Clients)
    BY DEF SeqInv
  <1>1. ASSUME NEW e \in Clients, backlog' = Append(backlog, e)
        PROVE  Queued(c)' <=> Queued(c) \/ c = e
    <2>1. /\ Len(backlog') = n + 1 /\ backlog'[n + 1] = e
          /\ \A i \in 1..n : backlog'[i] = backlog[i]
      BY <1>0, <1>1, Appended
    <2> HIDE DEF n
    <2>2. \A i : i \in 1..n + 1 <=> i \in 1..n \/ i = n + 1
      BY <1>0
    <2>3. Queued(c) <=> \E i \in 1..n : backlog[i] = c
      BY DEF Queued, n
    <2>4. Queued(c)' <=> \E i \in 1..n + 1 : backlog'[i] = c
      BY <2>1 DEF Queued
    <2> QED
      BY <2>1, <2>2, <2>3, <2>4
  <1>2. ASSUME backlog # <<>>, backlog' = Tail(backlog)
        PROVE  Queued(c) <=> Queued(c)' \/ c = Head(backlog)
    <2>1. /\ Len(backlog') = n - 1 /\ n > 0 /\ Head(backlog) = backlog[1]
          /\ \A i \in 1..n - 1 : backlog'[i] = backlog[i + 1]
      BY <1>0, <1>2, Taken
    <2> HIDE DEF n
    <2>2. /\ \A i \in 1..n : i = 1 \/ (i - 1 \in 1..n - 1 /\ (i - 1) + 1 = i)
          /\ \A i \in 1..n - 1 : i + 1 \in 1..n
          /\ 1 \in 1..n
      BY <1>0, <2>1
    <2>3. Queued(c) <=> \E i \in 1..n : backlog[i] = c
      BY DEF Queued, n
    <2>4. Queued(c)' <=> \E i \in 1..n - 1 : backlog'[i] = c
      BY <2>1 DEF Queued
    <2>5. \A i \in 1..n : backlog[i] = c => i = 1 \/ backlog'[i - 1] = c
      BY <2>1, <2>2
    <2>6. \A i \in 1..n - 1 : backlog'[i] = c => backlog[i + 1] = c
      BY <2>1
    <2> QED
      BY <2>1, <2>2, <2>3, <2>4, <2>5, <2>6
  <1>3. backlog' = backlog => (Queued(c)' <=> Queued(c))
    BY DEF Queued
  <1>4. backlog' = <<>> => ~ Queued(c)'
    BY DEF Queued
  <1>5. Queued(c) => c \in ToSet(backlog)
    BY DEF Queued, ToSet
  <1> QED
    BY <1>1, <1>2, <1>3, <1>4, <1>5

\* A goroutine ends its direction of the connection before it gives the slot back.
LEMMA GivesUp ==
  ASSUME PlainType, NEW c \in Clients, JobNext(c)
  PROVE  /\ \A e \in Clients : downEnd[e] => downEnd'[e]
         /\ job'[c] = "release" => downEnd'[c]
         /\ open' = open
  <1> USE DEF downVars, serveVars, jobVars, Goto, Conn, PlainType
  <1>1. CASE Split(c)
    BY <1>1 DEF Split
  <1>2. CASE Write(c) \/ WritePiece(c) \/ WriteEnd(c)
    BY <1>2 DEF Write, WritePiece, WriteEnd
  <1>3. CASE HandlerEnds(c) \/ WriteError(c)
    BY <1>3 DEF HandlerEnds, WriteError
  <1>4. CASE Close(c) \/ Release(c)
    BY <1>4 DEF Close, Release
  <1> QED
    BY <1>1, <1>2, <1>3, <1>4 DEF JobNext

\* Once the listener is closed the backlog is empty, and only then the process ends.
LEMMA ClosedStep ==
  ASSUME IInv, EndInv, [Next]_vars
  PROVE  (~ open' => backlog' = <<>>) /\ (serve' = "exited" => ~ open')
  <1>0. /\ PlainType /\ (~ open => backlog = <<>>) /\ (serve = "exited" => ~ open)
    BY DEF IInv, EndInv
  <1> USE DEF serveVars
  <1>1. ASSUME NEW c \in Clients,
               \/ SendWrite(c) \/ SendLost(c) \/ SendFails(c) \/ SendCloseWrite(c) \/ SendRead(c)
               \/ SendReturn(c) \/ SendAgain(c) \/ Die(c) \/ Break(c)
        PROVE  UNCHANGED <<open, backlog, serve>>
    BY <1>1 DEF SendWrite, SendLost, SendFails, SendCloseWrite, SendRead, SendReturn, SendAgain,
       Die, Break
  <1>2. ASSUME NEW c \in Clients, NewTCPSender(c)
        PROVE  UNCHANGED <<open, serve>> /\ (~ open => backlog' = backlog)
    BY <1>2 DEF NewTCPSender
  <1>3. CASE ServeNext \/ Shutdown \/ Exit
    BY <1>0, <1>3 DEF ServeNext, Accept, Acquire, Read, ReadEnd, Shutdown, Exit
  <1>4. ASSUME NEW c \in Clients, JobNext(c)
        PROVE  UNCHANGED <<open, backlog, serve>>
    BY <1>0, <1>4, JobMoves, GivesUp
  <1>5. CASE UNCHANGED vars
    BY <1>0, <1>5 DEF vars
  <1> QED
    BY <1>0, <1>1, <1>2, <1>3, <1>4, <1>5 DEF Next, SendNext

\* What a sender does.
LEMMA EndSend ==
  ASSUME IInv, EndInv, NEW e \in Clients, NEW c \in Clients,
         SendNext(c) \/ SendAgain(c) \/ Die(c) \/ Break(c)
  PROVE  EndAt(e)'
  <1>0. /\ SeqInv /\ PlainType /\ BacklogInv /\ EndAt(e) /\ EndAt(c)
        /\ (~ open => backlog = <<>>)
    BY DEF IInv, EndInv
  <1> USE DEF downVars, upVars, serveVars, jobVars, clientVars
  <1>1. CASE NewTCPSender(c)
    <2>1. /\ send[c] = "new" /\ job[c] = "none" /\ ~ Served(c)
          /\ UNCHANGED <<upEnd, downEnd, broken, job, serve, cur>>
          /\ send' = [send EXCEPT ![c] = IF open THEN "write" ELSE "failed"]
          /\ backlog' = IF open THEN Append(backlog, c) ELSE backlog
      BY <1>0, <1>1 DEF NewTCPSender, BacklogInv, Served
    <2>2. Served(e)' <=> Served(e)
      BY <2>1 DEF Served
    <2>3. CASE e # c
      <3>1. Queued(e)' <=> Queued(e)
        BY <1>0, <2>1, <2>3, QueueSteps
      <3>2. send'[e] = send[e]
        BY <1>0, <2>1, <2>3 DEF PlainType
      <3> QED
        BY <1>0, <2>1, <2>2, <3>1, <3>2, EndFrame
    <2>4. CASE e = c /\ open
      <3>1. Queued(c)' /\ send'[c] = "write" /\ ~ upEnd[c]
        BY <1>0, <2>1, <2>4, QueueSteps DEF PlainType, EndAt
      <3> QED
        BY <2>1, <2>4, <3>1 DEF EndAt
    <2>5. CASE e = c /\ ~ open
      <3>1. ~ Queued(c)' /\ ~ Served(c)' /\ send'[c] = "failed" /\ ~ upEnd[c]
        BY <1>0, <2>1, <2>2, <2>5, QueueSteps DEF PlainType, EndAt
      <3> QED
        BY <2>1, <2>5, <3>1 DEF EndAt
    <2> QED
      BY <2>3, <2>4, <2>5
  <1>2. ASSUME \/ SendWrite(c) \/ SendLost(c) \/ SendFails(c) \/ SendCloseWrite(c) \/ SendRead(c)
               \/ SendReturn(c) \/ SendAgain(c) \/ Die(c) \/ Break(c)
        PROVE  EndAt(e)'
    <2>1. /\ UNCHANGED <<backlog, serve, cur, job, downEnd>>
          /\ \A d \in Clients : d \in broken => d \in broken'
      BY <1>2 DEF SendWrite, SendLost, SendFails, SendCloseWrite, SendRead, SendReturn, SendAgain,
         Die, Break, Reset
    <2>2. (Queued(e)' <=> Queued(e)) /\ (Served(e)' <=> Served(e))
      BY <1>0, <2>1, QueueSteps DEF Served
    <2>3. \/ send'[e] = send[e] /\ upEnd'[e] = upEnd[e]
          \/ e = c /\ send[c] = "write" /\ c \in broken /\ send'[c] = "failed"
             /\ upEnd'[c] = upEnd[c]
          \/ e = c /\ send[c] = "write" /\ send'[c] = "read" /\ upEnd'[c]
          \/ e = c /\ send[c] \in {"read", "ok"} /\ send'[c] \in {"ok", "refused"}
             /\ upEnd'[c] = upEnd[c]
          \/ e = c /\ send[c] \in {"write", "read"} /\ send'[c] = "dead" /\ upEnd'[c]
      BY <1>0, <1>2 DEF SendWrite, SendLost, SendFails, SendCloseWrite, SendRead, SendReturn,
         SendAgain, Die, Break, PlainType
    <2>4. CASE send'[e] = send[e] /\ upEnd'[e] = upEnd[e]
      BY <1>0, <2>1, <2>2, <2>4, EndFrame
    <2>5. CASE ~ (send'[e] = send[e] /\ upEnd'[e] = upEnd[e])
      BY <1>0, <2>1, <2>2, <2>3, <2>5 DEF EndAt
    <2> QED
      BY <2>4, <2>5
  <1> QED
    BY <1>1, <1>2 DEF SendNext

\* What Serve does, and the end of the listener and of the process.
LEMMA EndServe ==
  ASSUME IInv, EndInv, NEW e \in Clients, ServeNext \/ Shutdown \/ Exit
  PROVE  EndAt(e)'
  <1>0. SeqInv /\ PlainType /\ BacklogInv /\ EndAt(e) /\ AnswerAt(e)
    BY DEF IInv, EndInv, AnswerInv
  <1> USE DEF downVars, upVars, serveVars, jobVars, clientVars
  <1>1. CASE Accept
    <2>1. /\ UNCHANGED <<send, upEnd, downEnd, broken, job>>
          /\ serve = "accept" /\ serve' = "acquire" /\ backlog # <<>>
          /\ cur' = Head(backlog) /\ backlog' = Tail(backlog)
      BY <1>1 DEF Accept
    <2>2. Queued(e) <=> Queued(e)' \/ e = Head(backlog)
      BY <1>0, <2>1, QueueSteps
    <2>3. ~ Served(e) /\ (Served(e)' <=> e = Head(backlog))
      BY <2>1 DEF Served
    <2> QED
      BY <1>0, <2>1, <2>2, <2>3, EndFrame
  <1>2. CASE Acquire \/ Read
    <2>1. /\ UNCHANGED <<send, upEnd, downEnd, broken, job, backlog, cur>>
          /\ serve \in {"acquire", "read"} /\ serve' \in {"acquire", "read"}
      BY <1>2 DEF Acquire, Read
    <2>2. (Queued(e)' <=> Queued(e)) /\ (Served(e)' <=> Served(e))
      BY <1>0, <2>1, QueueSteps DEF Served
    <2> QED
      BY <1>0, <2>1, <2>2, EndFrame
  <1>3. CASE ReadEnd
    <2>1. /\ UNCHANGED <<send, upEnd, downEnd, broken, backlog, cur>>
          /\ serve = "read" /\ serve' = "accept" /\ cur \in Clients
          /\ job' = [job EXCEPT ![cur] = "split"]
          /\ cur \in broken \/ upEnd[cur]
      BY <1>0, <1>3 DEF ReadEnd, BacklogInv
    <2>2. (Queued(e)' <=> Queued(e)) /\ ~ Served(e)' /\ (Served(e) <=> e = cur)
      BY <1>0, <2>1, QueueSteps DEF Served
    <2>3. CASE e = cur
      <3>1. job'[e] = "split" /\ Served(e)
        BY <1>0, <2>1, <2>2, <2>3 DEF PlainType
      <3> QED
        BY <1>0, <2>1, <2>3, <3>1 DEF EndAt
    <2>4. CASE e # cur
      <3>1. job'[e] = job[e]
        BY <1>0, <2>1, <2>4 DEF PlainType
      <3> QED
        BY <1>0, <2>1, <2>2, <2>4, <3>1, EndFrame
    <2> QED
      BY <2>3, <2>4
  <1>4. CASE Shutdown
    <2>1. /\ UNCHANGED <<send, upEnd, downEnd, job, serve, cur>> /\ backlog' = <<>>
          /\ broken' = broken \cup ToSet(backlog)
      BY <1>4 DEF Shutdown, Reset
    <2>2. /\ ~ Queued(e)' /\ (Served(e)' <=> Served(e)) /\ (Queued(e) => e \in broken')
      BY <1>0, <2>1, QueueSteps DEF Served
    <2> QED
      BY <1>0, <2>1, <2>2, EndFrame
  <1>5. CASE Exit
    <2>1. /\ UNCHANGED <<send, upEnd, backlog>> /\ serve' = "exited"
          /\ job'[e] = IF e \in Held THEN "cut" ELSE job[e]
          /\ downEnd'[e] = (downEnd[e] \/ e \in Held)
          /\ e \in broken => e \in broken'
      BY <1>5 DEF Exit, Reset
    <2>2. ~ Served(e)' /\ (Queued(e)' <=> Queued(e))
      BY <1>0, <2>1, QueueSteps DEF Served
    <2>3. CASE e \in Held
      <3>1. Served(e) \/ job[e] # "none"
        BY <2>3 DEF Held, Running, Served
      <3> QED
        BY <1>0, <2>1, <2>2, <2>3, <3>1 DEF EndAt
    <2>4. CASE e \notin Held
      <3>1. ~ Served(e) /\ job[e] \in {"none", "over", "cut"}
        BY <2>4 DEF Held, Running, Served
      <3> QED
        BY <1>0, <2>1, <2>2, <2>4, <3>1 DEF EndAt
    <2> QED
      BY <2>3, <2>4
  <1> QED
    BY <1>1, <1>2, <1>3, <1>4, <1>5 DEF ServeNext

\* What a goroutine does.
LEMMA EndJob ==
  ASSUME IInv, EndInv, NEW e \in Clients, NEW c \in Clients, JobNext(c)
  PROVE  EndAt(e)'
  <1>0. SeqInv /\ PlainType /\ EndAt(e)
    BY DEF IInv, EndInv
  <1>1. /\ UNCHANGED <<send, serve, cur, upEnd, broken, backlog>> /\ job[c] \in Busy
        /\ \E to \in Busy \cup {"over"} :
              /\ job' = [job EXCEPT ![c] = to]
              /\ to = "over" => job[c] = "release"
        /\ downEnd[e] => downEnd'[e]
        /\ job'[c] = "release" => downEnd'[c]
    <2>1. job' = job => job' = [job EXCEPT ![c] = job[c]]
      BY <1>0 DEF PlainType
    <2> QED
      BY <1>0, <2>1, JobMoves, GivesUp DEF Busy
  <1>2. (Queued(e)' <=> Queued(e)) /\ (Served(e)' <=> Served(e))
    BY <1>0, <1>1, QueueSteps DEF Served
  <1>3. CASE e # c
    <2>1. job'[e] = job[e]
      BY <1>0, <1>1, <1>3 DEF PlainType
    <2> QED
      BY <1>0, <1>1, <1>2, <2>1, EndFrame
  <1>4. CASE e = c
    <2>1. /\ job[c] \in Busy /\ job'[c] \in Busy \cup {"over"}
          /\ job'[c] = "over" => job[c] = "release"
      BY <1>0, <1>1 DEF PlainType
    <2> QED
      BY <1>0, <1>1, <1>2, <1>4, <2>1 DEF EndAt, Busy
  <1> QED
    BY <1>3, <1>4

\* Every step keeps track of who has to do with a connection.
LEMMA EndStep == IInv /\ EndInv /\ [Next]_vars => EndInv'
  <1> SUFFICES ASSUME IInv, EndInv, [Next]_vars PROVE EndInv'
    OBVIOUS
  <1>1. ASSUME NEW e \in Clients PROVE EndAt(e)'
    <2>1. CASE ServeNext \/ Shutdown \/ Exit
      BY <2>1, EndServe
    <2>2. ASSUME NEW c \in Clients, SendNext(c) \/ SendAgain(c) \/ Die(c) \/ Break(c)
          PROVE  EndAt(e)'
      BY <2>2, EndSend
    <2>3. ASSUME NEW c \in Clients, JobNext(c) PROVE EndAt(e)'
      BY <2>3, EndJob
    <2>4. CASE UNCHANGED vars
      BY <2>4 DEF vars, clientVars, upVars, downVars, serveVars, jobVars, EndInv, EndAt,
         Queued, Served
    <2> QED
      BY <2>1, <2>2, <2>3, <2>4 DEF Next
  <1> QED
    BY <1>1, ClosedStep DEF EndInv

\* The inductive invariant, with who has to do with each connection.
THEOREM TcpEndsInductive == Spec => [](IInv /\ EndInv)
  <1>1. Init => EndInv
    BY DEF Init, EndInv, EndAt
  <1>2. EndInv /\ UNCHANGED vars => EndInv'
    BY DEF vars, clientVars, upVars, downVars, serveVars, jobVars, EndInv, EndAt, Queued,
       Served
  <1> QED
    BY <1>1, EndStep, TcpInductive, PTL DEF Spec

\* A goroutine that cannot go on has a client behind it that reads and does not.
LEMMA StuckJob ==
  ASSUME IInv, EndInv, NEW c \in Running, ~ CanJob(c)
  PROVE  job[c] \in {"write", "error"} /\ send[c] = "read" /\ down[c] # <<>>
  <1>0. /\ c \in Clients /\ job[c] \notin {"none", "over", "cut"}
        /\ SeqInv /\ PlainType /\ AnswerAt(c) /\ DownAt(c) /\ EndAt(c)
    BY DEF IInv, EndInv, AnswerInv, DownInv, Running
  <1>1. job[c] \in {"write", "error"}
    BY <1>0 DEF PlainType, CanJob
  <1>2. c \notin broken /\ ~ downEnd[c] /\ ~ Room(c)
    BY <1>0, <1>1 DEF CanJob, AnswerAt
  <1>3. send[c] # "dead" /\ ~ (Len(down[c]) < Window)
    BY <1>2 DEF Room
  <1>4. down[c] # <<>>
    <2>1. Len(down[c]) \in Nat /\ (down[c] = <<>> => Len(down[c]) = 0)
      BY <1>0, EmptyLen DEF SeqInv
    <2> QED
      BY <1>3, <2>1, OptionTypes
  <1>5. send[c] \in {"read", "ok", "refused"}
    BY <1>0, <1>2, <1>3 DEF EndAt
  <1> QED
    BY <1>0, <1>1, <1>2, <1>4, <1>5 DEF DownAt

\* When nobody can go on, every goroutine that runs writes to a client that stalls.
LEMMA StuckRunning ==
  ASSUME IInv, EndInv, \A c \in Clients : ~ CanJob(c),
         \A c \in Clients \ Stalling : ~ CanSend(c)
  PROVE  Running = {c \in Stalling : job[c] \in {"write", "error"}}
  <1>1. ASSUME NEW c \in Running
        PROVE  c \in Stalling /\ job[c] \in {"write", "error"}
    <2>1. c \in Clients /\ ~ CanJob(c)
      BY DEF Running
    <2>2. job[c] \in {"write", "error"} /\ send[c] = "read" /\ down[c] # <<>>
      BY <2>1, StuckJob
    <2> QED
      BY <2>1, <2>2 DEF CanSend
  <1> QED
    BY <1>1, TcpAssumption DEF Running

\* Serve waits for a client that stalls, when it is one that is to go on.
LEMMA StuckReading ==
  ASSUME IInv, EndInv, serve = "read", ~ CanServe,
         \A c \in Clients \ Stalling : ~ CanSend(c)
  PROVE  cur \in Stalling
  <1> SUFFICES ASSUME cur \notin Stalling PROVE FALSE
    OBVIOUS
  <1>1. cur \in Clients /\ send[cur] # "new" /\ SeqInv /\ PlainType /\ EndAt(cur)
    BY DEF IInv, EndInv, BacklogInv
  <1>2. cur \notin broken /\ up[cur] = <<>> /\ ~ upEnd[cur]
    BY DEF CanServe
  <1>3. Served(cur)
    BY DEF Served
  <1>4. send[cur] = "write"
    BY <1>1, <1>2, <1>3 DEF EndAt, PlainType, SendOver
  <1>5. Len(up[cur]) = 0 /\ 0 < Window
    BY <1>1, <1>2, EmptyLen, OptionTypes DEF SeqInv
  <1>6. CanSend(cur)
    BY <1>4, <1>5 DEF CanSend
  <1> QED
    BY <1>1, <1>6

\* A connection nobody has in the backlog or before him is with its goroutine, or ended.
LEMMA StuckSend ==
  ASSUME IInv, EndInv, NEW c \in Clients \ Stalling, send[c] \in {"write", "read"},
         ~ CanSend(c), ~ Queued(c), ~ Served(c)
  PROVE  c \in Running
  <1>1. EndAt(c) /\ PlainType
    BY DEF IInv, EndInv
  <1>2. c \notin broken /\ (send[c] = "read" => ~ downEnd[c])
    BY DEF CanSend
  <1>3. job[c] # "none" /\ job[c] # "cut"
    BY <1>1, <1>2 DEF EndAt, CanSend
  <1>4. send[c] = "read"
    BY <1>1, <1>2, <1>3 DEF EndAt
  <1>5. job[c] # "over"
    BY <1>1, <1>2, <1>4 DEF EndAt
  <1> QED
    BY <1>1, <1>3, <1>5 DEF Running

\* Nobody waits for nobody: clients, connections of limited capacity, slots and the one
\* Serve that reads the requests of all do not lock each other up.
LEMMA Standing == IInv /\ EndInv => NoStandstill
  <1> SUFFICES ASSUME IInv, EndInv, NEW c \in Clients \ Stalling,
                      send[c] \in {"write", "read"}, ~ CanServe,
                      \A d \in Clients : ~ CanJob(d),
                      \A d \in Clients \ Stalling : ~ CanSend(d)
               PROVE  HeldUp
    BY DEF NoStandstill
  <1>0. PlainType /\ SlotInv /\ (~ open => backlog = <<>>) /\ (serve = "exited" => ~ open)
    BY DEF IInv, EndInv
  <1>1. Running = {d \in Stalling : job[d] \in {"write", "error"}}
    BY StuckRunning
  <1>2. CASE serve = "acquire"
    <2>1. ~ (semaphore < maxConcurrentClient) /\ semaphore \in 0..maxConcurrentClient
          /\ maxConcurrentClient \in Nat
      BY <1>0, <1>2, OptionTypes DEF CanServe, PlainType
    <2>2. semaphore = Cardinality(Running)
      BY <1>0, <1>2, RunningFinite DEF SlotInv
    <2> QED
      BY <1>1, <2>1, <2>2 DEF HeldUp
  <1>3. CASE serve = "read"
    BY <1>3, StuckReading DEF HeldUp
  <1>4. CASE serve \in {"accept", "exited"}
    <2>1. backlog = <<>>
      BY <1>0, <1>4 DEF CanServe
    <2>2. ~ Queued(c) /\ ~ Served(c)
      BY <1>4, <2>1 DEF Queued, Served
    <2>3. c \in Running
      BY <2>2, StuckSend
    <2> QED
      BY <1>1, <2>3
  <1> QED
    BY <1>0, <1>2, <1>3, <1>4 DEF PlainType

\* As long as a Send is under way whose client does not stall, the server or such a
\* client can go on, unless stalling clients hold the server up: the part of SendReturns
\* that needs no fairness, for any capacity of the connections and any number of slots.
THEOREM TcpNoStandstill == Spec => []NoStandstill
  BY Standing, TcpEndsInductive, PTL
=============================================================================
