-------------------------- MODULE UdpServerProofs --------------------------
(***************************************************************************)
(* The safety of the UDP server for any datagrams from any clients, any    *)
(* kinds of request and any number of client slots.                        *)
(***************************************************************************)
EXTENDS UdpServer, FiniteSetTheorems, TLAPS

-----------------------------------------------------------------------------
(* The inductive invariant *)

\* A datagram that was not sent, that the socket still holds, or that Serve waits
\* for a slot with, has no goroutine.
ReadInv ==
    /\ socket \subseteq sent
    /\ \A d \in Datagrams : job[d] # "none" => d \in sent \ socket
    /\ serve # "read" => cur \in sent \ socket /\ job[cur] = "none"

\* What a goroutine has written it has written in order, to the address it was
\* started with, and a refusal or an error text last.
ReplyInv ==
    /\ \A r \in replies :
          /\ r.to = SenderOf[r.by] /\ r.by \in sent /\ r.nth <= written[r.by]
          /\ r.text # "handler" => job[r.by] \in {"release", "over"}
          /\ r.text = "handler" => r.nth <= MaxWrites /\ message[r.by] # {}
    /\ \A r, s \in replies : r.by = s.by /\ r.nth = s.nth => r = s
    /\ \A r, s \in replies : r.by = s.by /\ r.text # "handler" => s.nth <= r.nth

\* A goroutine has written nothing before its handler, which writes no more than
\* MaxWrites responses.
WrittenInv ==
    /\ \A d \in Datagrams : job[d] \in {"none", "split", "join"} => written[d] = 0
    /\ \A d \in Datagrams : job[d] = "handle" => written[d] <= MaxWrites

\* The handler is given the bytes of some datagram.
MessageInv ==
    /\ \A d \in Datagrams : job[d] # "none" => buffer # {}
    /\ serve # "read" => buffer # {}
    /\ \A d \in Datagrams : job[d] = "handle" => message[d] # {}

IInv == TypeOK /\ SlotsAccounted /\ ReadInv /\ ReplyInv /\ WrittenInv /\ MessageInv

-----------------------------------------------------------------------------
(* Slots *)

\* Finitely many goroutines run.
LEMMA RunningFinite ==
  /\ IsFiniteSet(Running) /\ Cardinality(Running) \in Nat
  /\ \A d \in Running : Cardinality(Running) > 0
  <1>1. Running \in SUBSET Datagrams
    BY DEF Running
  <1>2. IsFiniteSet(Running)
    BY <1>1, FS_Subset, UdpAssumption
  <1> QED
    BY <1>2, FS_CardinalityType, FS_EmptySet

\* A goroutine that starts takes one slot, one that moves on keeps its own, one
\* that ends gives it back.
LEMMA RunningStep ==
  ASSUME TypeOK, NEW d \in Datagrams, NEW to \in JobStates,
         job' = [job EXCEPT ![d] = to]
  PROVE  /\ d \notin Running /\ to = "split"
              => Cardinality(Running') = Cardinality(Running) + 1
         /\ d \in Running /\ to \in {"join", "handle", "release"}
              => Running' = Running
         /\ d \in Running /\ to = "over"
              => Cardinality(Running') = Cardinality(Running) - 1
  <1>1. \A e \in Datagrams : job'[e] = IF e = d THEN to ELSE job[e]
    BY DEF TypeOK
  <1>2. d \notin Running /\ to = "split" => Running' = Running \cup {d}
    BY <1>1 DEF Running
  <1>3. d \in Running /\ to = "over" => Running' = Running \ {d}
    BY <1>1 DEF Running
  <1>4. d \in Running /\ to \in {"join", "handle", "release"} => Running' = Running
    BY <1>1 DEF Running
  <1>5. /\ d \notin Running
              => Cardinality(Running \cup {d}) = Cardinality(Running) + 1
        /\ d \in Running
              => Cardinality(Running \ {d}) = Cardinality(Running) - 1
    BY RunningFinite, FS_AddElement, FS_RemoveElement
  <1> QED
    BY <1>2, <1>3, <1>4, <1>5

\* Every step keeps as many slots as goroutines.
LEMMA SlotsStep == IInv /\ [Next]_vars => SlotsAccounted'
  <1> SUFFICES ASSUME IInv, [Next]_vars PROVE SlotsAccounted'
    OBVIOUS
  <1>0. TypeOK /\ SlotsAccounted /\ ReadInv
    BY DEF IInv
  <1>1. ASSUME UNCHANGED <<job, semaphore>> PROVE SlotsAccounted'
    BY <1>0, <1>1 DEF SlotsAccounted, Running
  <1>2. CASE Acquire
    <2>1. /\ cur \in Datagrams /\ job[cur] = "none"
          /\ job' = [job EXCEPT ![cur] = "split"] /\ semaphore' = semaphore + 1
      BY <1>0, <1>2 DEF Acquire, ReadInv, TypeOK
    <2>2. cur \notin Running /\ "split" \in JobStates
      BY <2>1 DEF Running, JobStates
    <2>3. Cardinality(Running') = Cardinality(Running) + 1
      BY <1>0, <2>1, <2>2, RunningStep
    <2> QED
      BY <1>0, <2>1, <2>3 DEF SlotsAccounted
  <1>3. ASSUME NEW d \in Datagrams, Split(d) \/ Join(d) \/ HandlerEnds(d)
        PROVE  SlotsAccounted'
    <2>1. PICK to \in {"join", "handle", "release"} :
              job' = [job EXCEPT ![d] = to]
      BY <1>3 DEF Split, Join, HandlerEnds
    <2>2. d \in Running /\ to \in JobStates /\ semaphore' = semaphore
      BY <1>3, <2>1 DEF Split, Join, HandlerEnds, Running, JobStates
    <2>3. Running' = Running
      BY <1>0, <2>1, <2>2, RunningStep
    <2> QED
      BY <1>0, <2>2, <2>3 DEF SlotsAccounted
  <1>4. ASSUME NEW d \in Datagrams, Release(d) PROVE SlotsAccounted'
    <2>1. /\ d \in Running /\ "over" \in JobStates
          /\ job' = [job EXCEPT ![d] = "over"] /\ semaphore' = semaphore - 1
      BY <1>4 DEF Release, Running, JobStates
    <2>2. Cardinality(Running') = Cardinality(Running) - 1
      BY <1>0, <2>1, RunningStep
    <2> QED
      BY <1>0, <2>1, <2>2 DEF SlotsAccounted
  <1>5. CASE Filled \/ Shutdown
    BY <1>1, <1>5 DEF Filled, Shutdown
  <1>6. ASSUME NEW d \in Datagrams, Send(d) \/ Read(d) PROVE SlotsAccounted'
    BY <1>1, <1>6 DEF Send, Read
  <1>7. CASE UNCHANGED vars
    BY <1>1, <1>7 DEF vars
  <1>8. ASSUME NEW d \in Datagrams, HandlerWrites(d) PROVE SlotsAccounted'
    BY <1>1, <1>8 DEF HandlerWrites
  <1> QED
    BY <1>2, <1>3, <1>4, <1>5, <1>6, <1>7, <1>8 DEF Next, JobNext

-----------------------------------------------------------------------------
(* Typing *)

\* A goroutine that has written less than MaxWrites + 1 responses writes the next.
LEMMA WriteType ==
  ASSUME TypeOK, NEW d \in Datagrams, NEW about \in SUBSET Datagrams,
         NEW text \in {"handler", "refusal", "error"},
         written[d] <= MaxWrites, Write(d, about, text)
  PROVE  /\ written' \in [Datagrams -> 0..(MaxWrites + 1)]
         /\ replies' \subseteq Replies
  <1>1. written[d] + 1 \in 1..(MaxWrites + 1)
    BY UdpAssumption DEF TypeOK
  <1>2. SenderOf[d] \in Clients
    BY DEF Clients
  <1>3. [by |-> d, nth |-> written[d] + 1, to |-> SenderOf[d], about |-> about,
         text |-> text] \in Replies
    BY <1>1, <1>2 DEF Replies
  <1>4. written' \in [Datagrams -> 0..(MaxWrites + 1)]
    BY <1>1, UdpAssumption DEF TypeOK, Write, replyVars
  <1> QED
    BY <1>3, <1>4 DEF TypeOK, Write, Address, replyVars

\* Every step keeps the types.
LEMMA TypeOKStep == IInv /\ [Next]_vars => TypeOK'
  <1> SUFFICES ASSUME IInv, [Next]_vars PROVE TypeOK'
    OBVIOUS
  <1>0. TypeOK /\ SlotsAccounted /\ ReadInv
    BY DEF IInv
  <1>00. WrittenInv
    BY DEF IInv
  <1> USE DEF JobStates, netVars, replyVars
  <1>1. CASE Filled
    BY <1>0, <1>1 DEF Filled, TypeOK, ReadInv
  <1>2. CASE Acquire
    <2>1. cur \in Datagrams /\ semaphore' \in 0..maxConcurrentClient
      BY <1>0, <1>2, UdpAssumption DEF Acquire, TypeOK, ReadInv
    <2>2. job' \in [Datagrams -> JobStates]
      BY <1>0, <1>2, <2>1 DEF Acquire, TypeOK
    <2> QED
      BY <1>0, <1>2, <2>1, <2>2 DEF Acquire, TypeOK
  <1>3. CASE Shutdown
    BY <1>0, <1>3 DEF Shutdown, TypeOK
  <1>4. ASSUME NEW d \in Datagrams, Send(d) \/ Read(d) PROVE TypeOK'
    BY <1>0, <1>4 DEF Send, Read, TypeOK
  <1>5. ASSUME NEW d \in Datagrams, Split(d) PROVE TypeOK'
    <2>1. /\ buffer \in SUBSET Datagrams /\ job' \in [Datagrams -> JobStates]
          /\ written[d] <= MaxWrites
      BY <1>0, <1>00, <1>5, UdpAssumption DEF Split, TypeOK, WrittenInv
    <2>2. CASE UNCHANGED replyVars
      BY <1>0, <1>5, <2>1, <2>2 DEF Split, TypeOK
    <2>3. CASE Write(d, buffer, "refusal")
      <3>1. /\ written' \in [Datagrams -> 0..(MaxWrites + 1)]
            /\ replies' \subseteq Replies
        BY <1>0, <2>1, <2>3, WriteType
      <3> QED
        BY <1>0, <1>5, <2>1, <3>1 DEF Split, TypeOK
    <2> QED
      BY <1>5, <2>2, <2>3 DEF Split
  <1>6. ASSUME NEW d \in Datagrams, Join(d) PROVE TypeOK'
    BY <1>0, <1>6 DEF Join, TypeOK
  <1>7. ASSUME NEW d \in Datagrams, HandlerEnds(d) \/ HandlerWrites(d) PROVE TypeOK'
    <2>1. /\ message[d] \in SUBSET Datagrams /\ job' \in [Datagrams -> JobStates]
          /\ written[d] <= MaxWrites
      BY <1>0, <1>00, <1>7 DEF HandlerEnds, HandlerWrites, TypeOK, WrittenInv
    <2>2. PICK text \in {"handler", "refusal", "error"} :
              Write(d, message[d], text) \/ UNCHANGED replyVars
      BY <1>7 DEF HandlerEnds, HandlerWrites
    <2>3. /\ written' \in [Datagrams -> 0..(MaxWrites + 1)]
          /\ replies' \subseteq Replies
      <3>1. CASE UNCHANGED replyVars
        BY <1>0, <3>1 DEF TypeOK
      <3> QED
        BY <1>0, <2>1, <2>2, <3>1, WriteType
    <2> QED
      BY <1>0, <1>7, <2>1, <2>3 DEF HandlerEnds, HandlerWrites, TypeOK
  <1>8. ASSUME NEW d \in Datagrams, Release(d) PROVE TypeOK'
    <2>1. d \in Running
      BY <1>8 DEF Release, Running
    <2>2. semaphore > 0
      BY <1>0, <2>1, RunningFinite DEF SlotsAccounted
    <2>3. semaphore - 1 \in 0..maxConcurrentClient
      BY <1>0, <2>2, UdpAssumption DEF TypeOK
    <2> QED
      BY <1>0, <1>8, <2>3 DEF Release, TypeOK
  <1>9. CASE UNCHANGED vars
    BY <1>0, <1>9 DEF vars, TypeOK
  <1> QED
    BY <1>1, <1>2, <1>3, <1>4, <1>5, <1>6, <1>7, <1>8, <1>9 DEF Next, JobNext

-----------------------------------------------------------------------------
(* Reading *)

\* A datagram stays in one place.
LEMMA ReadInvStep == IInv /\ [Next]_vars => ReadInv'
  <1> SUFFICES ASSUME IInv, [Next]_vars PROVE ReadInv'
    OBVIOUS
  <1>0. TypeOK /\ ReadInv
    BY DEF IInv
  <1> USE DEF netVars, replyVars
  <1>1. CASE Filled \/ Shutdown
    BY <1>0, <1>1 DEF Filled, Shutdown, ReadInv
  <1>2. CASE Acquire
    <2>1. /\ cur \in sent \ socket /\ serve' = "read"
          /\ job' = [job EXCEPT ![cur] = "split"] /\ UNCHANGED <<sent, socket>>
      BY <1>0, <1>2 DEF Acquire, ReadInv
    <2> QED
      BY <1>0, <2>1 DEF ReadInv, TypeOK
  <1>3. ASSUME NEW d \in Datagrams, Send(d) PROVE ReadInv'
    BY <1>0, <1>3 DEF Send, ReadInv, TypeOK
  <1>4. ASSUME NEW d \in Datagrams, Read(d) PROVE ReadInv'
    BY <1>0, <1>4 DEF Read, ReadInv, TypeOK
  <1>5. ASSUME NEW d \in Datagrams, Split(d) \/ Join(d) \/ HandlerEnds(d) \/ Release(d)
        PROVE  ReadInv'
    <2>1. PICK to \in JobStates : job' = [job EXCEPT ![d] = to]
      BY <1>5 DEF Split, Join, HandlerEnds, Release, JobStates
    <2>2. /\ job[d] # "none" /\ UNCHANGED <<sent, socket, serve, cur>>
      BY <1>5 DEF Split, Join, HandlerEnds, Release
    <2>3. d \in sent \ socket /\ serve # "read" => cur # d
      BY <1>0, <2>2 DEF ReadInv
    <2> QED
      BY <1>0, <2>1, <2>2, <2>3 DEF ReadInv, TypeOK
  <1>6. CASE UNCHANGED vars
    BY <1>0, <1>6 DEF vars, ReadInv
  <1>7. ASSUME NEW d \in Datagrams, HandlerWrites(d) PROVE ReadInv'
    BY <1>0, <1>7 DEF HandlerWrites, ReadInv
  <1> QED
    BY <1>1, <1>2, <1>3, <1>4, <1>5, <1>6, <1>7 DEF Next, JobNext

-----------------------------------------------------------------------------
(* Responses *)

\* Every step keeps the bytes a goroutine works on and its handler was given.
LEMMA MessageStep == IInv /\ [Next]_vars => MessageInv'
  <1> SUFFICES ASSUME IInv, [Next]_vars PROVE MessageInv'
    OBVIOUS
  <1>0. TypeOK /\ ReadInv /\ MessageInv
    BY DEF IInv
  <1> USE DEF netVars, replyVars
  <1>1. CASE Filled \/ Shutdown
    BY <1>0, <1>1 DEF Filled, Shutdown, MessageInv
  <1>2. CASE Acquire
    BY <1>0, <1>2 DEF Acquire, MessageInv, TypeOK
  <1>3. ASSUME NEW d \in Datagrams, Send(d) \/ Read(d) PROVE MessageInv'
    BY <1>0, <1>3 DEF Send, Read, MessageInv
  <1>4. ASSUME NEW d \in Datagrams, JobNext(d) PROVE MessageInv'
    <2>1. CASE Split(d)
      BY <1>0, <2>1 DEF Split, MessageInv, TypeOK
    <2>2. CASE Join(d)
      BY <1>0, <2>2 DEF Join, MessageInv, TypeOK
    <2>3. CASE HandlerWrites(d)
      BY <1>0, <2>3 DEF HandlerWrites, MessageInv
    <2>4. CASE HandlerEnds(d) \/ Release(d)
      BY <1>0, <2>4 DEF HandlerEnds, Release, MessageInv, TypeOK
    <2> QED
      BY <1>4, <2>1, <2>2, <2>3, <2>4 DEF JobNext
  <1>5. CASE UNCHANGED vars
    BY <1>0, <1>5 DEF vars, MessageInv
  <1> QED
    BY <1>1, <1>2, <1>3, <1>4, <1>5 DEF Next

\* Every step keeps the bound of what a goroutine has written.
LEMMA WrittenStep == IInv /\ [Next]_vars => WrittenInv'
  <1> SUFFICES ASSUME IInv, [Next]_vars PROVE WrittenInv'
    OBVIOUS
  <1>0. TypeOK /\ ReadInv /\ WrittenInv
    BY DEF IInv
  <1> USE DEF netVars, replyVars
  <1>1. CASE Filled \/ Shutdown
    BY <1>0, <1>1 DEF Filled, Shutdown, WrittenInv
  <1>2. CASE Acquire
    BY <1>0, <1>2, UdpAssumption DEF Acquire, WrittenInv, ReadInv, TypeOK
  <1>3. ASSUME NEW d \in Datagrams, Send(d) \/ Read(d) PROVE WrittenInv'
    BY <1>0, <1>3 DEF Send, Read, WrittenInv
  <1>4. ASSUME NEW d \in Datagrams, JobNext(d) PROVE WrittenInv'
    <2>1. CASE Split(d)
      BY <1>0, <2>1 DEF Split, Write, WrittenInv, TypeOK
    <2>2. CASE Join(d)
      BY <1>0, <2>2, UdpAssumption DEF Join, WrittenInv, TypeOK
    <2>3. CASE HandlerWrites(d)
      <3>1. UNCHANGED job /\ \A e \in Datagrams : e # d => written'[e] = written[e]
        BY <1>0, <2>3 DEF HandlerWrites, Write, TypeOK
      <3>2. job[d] = "handle" /\ written'[d] <= MaxWrites
        BY <1>0, <2>3, UdpAssumption DEF HandlerWrites, Write, TypeOK
      <3> QED
        BY <1>0, <3>1, <3>2 DEF WrittenInv
    <2>4. CASE HandlerEnds(d) \/ Release(d)
      BY <1>0, <2>4 DEF HandlerEnds, Release, Write, WrittenInv, TypeOK
    <2> QED
      BY <1>4, <2>1, <2>2, <2>3, <2>4 DEF JobNext
  <1>5. CASE UNCHANGED vars
    BY <1>0, <1>5 DEF vars, WrittenInv
  <1> QED
    BY <1>1, <1>2, <1>3, <1>4, <1>5 DEF Next

\* Steps that write nothing and move no goroutine back.
LEMMA ReplyFrame ==
  ASSUME TypeOK, ReplyInv, UNCHANGED <<written, replies>>, sent \subseteq sent',
         \A d \in Datagrams :
             /\ job[d] \in {"release", "over"} => job'[d] \in {"release", "over"}
             /\ message[d] # {} => message'[d] # {}
  PROVE  ReplyInv'
  <1>1. \A r \in replies : r.by \in Datagrams
    BY DEF TypeOK, Replies
  <1> QED
    BY <1>1 DEF ReplyInv

\* A goroutine that has not refused and whose handler has not ended writes.
LEMMA ReplyWritten ==
  ASSUME TypeOK, ReplyInv, ReadInv, NEW d \in Datagrams,
         NEW about \in SUBSET Datagrams,
         NEW text \in {"handler", "refusal", "error"},
         job[d] \in {"split", "handle"}, written[d] <= MaxWrites,
         Write(d, about, text),
         text # "handler" => job' = [job EXCEPT ![d] = "release"],
         text = "handler" => /\ UNCHANGED job
                             /\ message[d] # {} /\ written[d] < MaxWrites,
         UNCHANGED <<sent, message>>
  PROVE  ReplyInv'
  <1>1. /\ d \in sent /\ written[d] \in Nat
        /\ \A r \in replies : r.by = d => r.text = "handler" /\ r.nth <= written[d]
    BY UdpAssumption DEF ReadInv, ReplyInv, TypeOK
  <1>2. \A r \in replies : r.by \in Datagrams /\ r.nth \in Nat
    BY UdpAssumption DEF TypeOK, Replies
  <1>3. \A e \in Datagrams : e # d => job'[e] = job[e]
    BY DEF TypeOK
  <1>4. text # "handler" => job'[d] = "release"
    BY DEF TypeOK
  <1>5. CASE UNCHANGED <<written, replies>>
    <2>1. \A e \in Datagrams :
             /\ job[e] \in {"release", "over"} => job'[e] \in {"release", "over"}
             /\ message[e] # {} => message'[e] # {}
      BY <1>3 DEF TypeOK
    <2> QED
      BY <1>5, <2>1, ReplyFrame
  <1>6. CASE open
    <2> DEFINE new == [by |-> d, nth |-> written[d] + 1, to |-> SenderOf[d],
                       about |-> about, text |-> text]
    <2>1. /\ new.by = d /\ new.nth = written[d] + 1 /\ new.to = SenderOf[d]
          /\ new.text = text
      OBVIOUS
    <2> HIDE DEF new
    <2>2. \A r \in replies' : r \in replies \/ r = new
      BY <1>6 DEF Write, Address, new
    <2>3. \A e \in Datagrams :
             written'[e] = IF e = d THEN written[d] + 1 ELSE written[e]
      BY <1>6 DEF Write, TypeOK
    <2>4. ASSUME NEW r \in replies'
          PROVE  /\ r.to = SenderOf[r.by] /\ r.by \in sent' /\ r.nth <= written'[r.by]
                 /\ r.text # "handler" => job'[r.by] \in {"release", "over"}
                 /\ r.text = "handler" => r.nth <= MaxWrites /\ message'[r.by] # {}
      <3>1. CASE r = new
        BY <1>1, <1>4, <2>1, <2>3, <3>1, UdpAssumption
      <3>2. CASE r \in replies
        BY <1>1, <1>2, <1>3, <2>3, <3>2 DEF ReplyInv
      <3> QED
        BY <2>2, <3>1, <3>2
    <2>5. ASSUME NEW r \in replies', NEW s \in replies', r.by = s.by
          PROVE  /\ r.nth = s.nth => r = s
                 /\ r.text # "handler" => s.nth <= r.nth
      <3>1. CASE r \in replies /\ s \in replies
        BY <2>5, <3>1 DEF ReplyInv
      <3>2. CASE r = new /\ s = new
        BY <1>1, <2>1, <3>2
      <3>3. CASE r = new /\ s \in replies
        <4>1. s.nth <= written[d] /\ s.nth \in Nat
          BY <1>1, <1>2, <2>1, <2>5, <3>3
        <4> QED
          BY <1>1, <2>1, <3>3, <4>1
      <3>4. CASE s = new /\ r \in replies
        <4>1. r.nth <= written[d] /\ r.nth \in Nat /\ r.text = "handler"
          BY <1>1, <1>2, <2>1, <2>5, <3>4
        <4> QED
          BY <1>1, <2>1, <3>4, <4>1
      <3> QED
        BY <2>2, <3>1, <3>2, <3>3, <3>4
    <2> QED
      BY <2>4, <2>5 DEF ReplyInv
  <1> QED
    BY <1>5, <1>6 DEF Write, replyVars

\* Every step writes to the client of its goroutine, and in order.
LEMMA ReplyInvStep == IInv /\ [Next]_vars => ReplyInv'
  <1> SUFFICES ASSUME IInv, [Next]_vars PROVE ReplyInv'
    OBVIOUS
  <1>0. /\ TypeOK /\ ReplyInv /\ ReadInv /\ WrittenInv /\ MessageInv
        /\ MaxWrites \in Nat
    BY UdpAssumption DEF IInv
  <1> USE DEF netVars, replyVars
  <1>1. CASE Filled \/ Shutdown
    BY <1>0, <1>1, ReplyFrame DEF Filled, Shutdown
  <1>2. CASE Acquire
    <2>1. /\ cur \in Datagrams /\ job[cur] = "none"
          /\ job' = [job EXCEPT ![cur] = "split"]
          /\ UNCHANGED <<sent, written, replies, message>>
      BY <1>0, <1>2 DEF Acquire, ReadInv, TypeOK
    <2>2. \A d \in Datagrams :
             job[d] \in {"release", "over"} => job'[d] \in {"release", "over"}
      BY <1>0, <2>1 DEF TypeOK
    <2> QED
      BY <1>0, <2>1, <2>2, ReplyFrame
  <1>3. ASSUME NEW d \in Datagrams, Send(d) \/ Read(d) PROVE ReplyInv'
    BY <1>0, <1>3, ReplyFrame DEF Send, Read
  <1>4. ASSUME NEW d \in Datagrams, UNCHANGED <<written, replies>>,
               Split(d) \/ Join(d) \/ HandlerEnds(d) \/ Release(d)
        PROVE  ReplyInv'
    <2>1. PICK to \in JobStates : job' = [job EXCEPT ![d] = to]
      BY <1>4 DEF Split, Join, HandlerEnds, Release, JobStates
    <2>2. job[d] \in {"release", "over"} => to \in {"release", "over"}
      BY <1>0, <1>4, <2>1 DEF Split, Join, HandlerEnds, Release, TypeOK
    <2>3. \A e \in Datagrams :
             job[e] \in {"release", "over"} => job'[e] \in {"release", "over"}
      BY <1>0, <2>1, <2>2 DEF TypeOK
    <2>4. UNCHANGED sent
      BY <1>4 DEF Split, Join, HandlerEnds, Release
    <2>5. \A e \in Datagrams : message[e] # {} => message'[e] # {}
      <3>1. CASE Join(d)
        <4>1. buffer # {}
          BY <1>0, <3>1 DEF Join, MessageInv
        <4> QED
          BY <1>0, <3>1, <4>1 DEF Join, TypeOK
      <3>2. CASE Split(d) \/ HandlerEnds(d) \/ Release(d)
        BY <3>2 DEF Split, HandlerEnds, Release
      <3> QED
        BY <1>4, <3>1, <3>2
    <2> QED
      BY <1>0, <1>4, <2>3, <2>4, <2>5, ReplyFrame
  <1>5. ASSUME NEW d \in Datagrams, JobNext(d) PROVE ReplyInv'
    <2>1. CASE Split(d) /\ Write(d, buffer, "refusal")
      <3>1. /\ job[d] \in {"split", "handle"} /\ written[d] <= MaxWrites
            /\ buffer \in SUBSET Datagrams /\ UNCHANGED <<sent, message>>
        BY <1>0, <2>1 DEF Split, TypeOK, WrittenInv
      <3>2. CASE job' = [job EXCEPT ![d] = "release"]
        BY <1>0, <2>1, <3>1, <3>2, ReplyWritten
      <3>3. CASE UNCHANGED replyVars
        BY <1>4, <2>1, <3>3
      <3> QED
        BY <2>1, <3>2, <3>3 DEF Split
    <2>2. CASE HandlerWrites(d)
      <3>1. /\ job[d] \in {"split", "handle"} /\ written[d] <= MaxWrites
            /\ message[d] \in SUBSET Datagrams /\ message[d] # {}
            /\ written[d] < MaxWrites /\ UNCHANGED <<job, sent, message>>
            /\ Write(d, message[d], "handler")
        BY <1>0, <2>2 DEF HandlerWrites, TypeOK, MessageInv, WrittenInv
      <3> QED
        BY <1>0, <3>1, ReplyWritten
    <2>3. CASE HandlerEnds(d) /\ Write(d, message[d], "error")
      <3>1. /\ job[d] \in {"split", "handle"} /\ written[d] <= MaxWrites
            /\ message[d] \in SUBSET Datagrams /\ UNCHANGED <<sent, message>>
            /\ job' = [job EXCEPT ![d] = "release"]
        BY <1>0, <2>3 DEF HandlerEnds, TypeOK, WrittenInv
      <3> QED
        BY <1>0, <2>3, <3>1, ReplyWritten
    <2>4. CASE /\ UNCHANGED <<written, replies>>
               /\ Split(d) \/ Join(d) \/ HandlerEnds(d) \/ Release(d)
      BY <1>4, <2>4
    <2> QED
      BY <1>5, <2>1, <2>2, <2>3, <2>4 DEF JobNext, Split, HandlerEnds, Join, Release
  <1>7. CASE UNCHANGED vars
    BY <1>0, <1>7, ReplyFrame DEF vars
  <1> QED
    BY <1>1, <1>2, <1>3, <1>5, <1>7 DEF Next

-----------------------------------------------------------------------------
(* Theorems *)

\* The server starts in the invariant.
LEMMA InitIInv == Init => IInv
  <1> SUFFICES ASSUME Init PROVE IInv
    OBVIOUS
  <1>1. TypeOK
    BY UdpAssumption DEF Init, TypeOK, JobStates
  <1>2. Running = {}
    BY DEF Init, Running
  <1>3. SlotsAccounted
    BY <1>2, FS_EmptySet DEF Init, SlotsAccounted
  <1>4. ReadInv /\ ReplyInv /\ WrittenInv /\ MessageInv
    BY UdpAssumption DEF Init, ReadInv, ReplyInv, WrittenInv, MessageInv
  <1> QED
    BY <1>1, <1>3, <1>4 DEF IInv

\* IInv holds in every reachable state of the server (p2p/udp.go).
THEOREM UdpInductive == Spec => []IInv
  <1>1. IInv /\ [Next]_vars => IInv'
    BY TypeOKStep, SlotsStep, ReadInvStep, ReplyInvStep, WrittenStep, MessageStep DEF IInv
  <1> QED
    BY InitIInv, <1>1, PTL DEF Spec

\* Every variable has its type: the semaphore of Serve never holds more than
\* maxConcurrentClient slots and is never released below zero.
THEOREM UdpTypeCorrect == Spec => []TypeOK
  <1>1. IInv => TypeOK
    BY DEF IInv
  <1> QED
    BY <1>1, UdpInductive, PTL

\* The slots taken from the semaphore are those of the goroutines that run,
\* whichever return of the goroutine they take.
THEOREM UdpSlotsSafe == Spec => []SlotsAccounted
  <1>1. IInv => SlotsAccounted
    BY DEF IInv
  <1> QED
    BY <1>1, UdpInductive, PTL

\* The goroutine of a refusal or an error text is an injection from those of a
\* client into its datagrams the server has dealt with.
LEMMA LastRepliesCounted ==
  ASSUME IInv, NEW a \in Clients
  PROVE  Cardinality({r \in replies : r.to = a /\ r.text # "handler"})
           <= Cardinality({d \in sent : SenderOf[d] = a
                                        /\ job[d] \in {"release", "over"}})
  <1> DEFINE R == {r \in replies : r.to = a /\ r.text # "handler"}
             D == {d \in sent : SenderOf[d] = a /\ job[d] \in {"release", "over"}}
             f == [r \in R |-> r.by]
  <1>1. D \in SUBSET Datagrams
    BY DEF IInv, TypeOK
  <1>2. IsFiniteSet(D)
    BY <1>1, FS_Subset, UdpAssumption
  <1>3. f \in [R -> D]
    BY DEF IInv, ReplyInv
  <1>4. \A r \in replies : r.nth \in Nat
    BY UdpAssumption DEF IInv, TypeOK, Replies
  <1>5. ASSUME NEW r \in R, NEW s \in R, f[r] = f[s] PROVE r = s
    <2>1. r.nth <= s.nth /\ s.nth <= r.nth
      BY <1>5 DEF IInv, ReplyInv
    <2>2. r.nth = s.nth
      BY <1>4, <2>1
    <2> QED
      BY <1>5, <2>2 DEF IInv, ReplyInv
  <1>6. f \in Injection(R, D)
    BY <1>3, <1>5 DEF Injection, IsInjective
  <1> HIDE DEF R, D, f
  <1>7. Cardinality(R) <= Cardinality(D)
    BY <1>2, <1>6, FS_Injection
  <1> QED
    BY <1>7 DEF R, D

\* The goroutine and the number of a handler's response are an injection from those
\* of a client into its datagrams handed to a handler, MaxWrites times each.
LEMMA HandlerRepliesCounted ==
  ASSUME IInv, NEW a \in Clients
  PROVE  Cardinality({r \in replies : r.to = a /\ r.text = "handler"})
           <= MaxWrites * Cardinality({d \in sent : SenderOf[d] = a
                                                    /\ message[d] # {}})
  <1> DEFINE R == {r \in replies : r.to = a /\ r.text = "handler"}
             D == {d \in sent : SenderOf[d] = a /\ message[d] # {}}
             f == [r \in R |-> <<r.by, r.nth>>]
  <1>1. D \in SUBSET Datagrams /\ MaxWrites \in Nat
    BY UdpAssumption DEF IInv, TypeOK
  <1>2. IsFiniteSet(D) /\ Cardinality(D) \in Nat
    BY <1>1, FS_Subset, FS_CardinalityType, UdpAssumption
  <1>3. IsFiniteSet(1..MaxWrites) /\ Cardinality(1..MaxWrites) = MaxWrites
    BY <1>1, FS_Interval
  <1>4. /\ IsFiniteSet(D \X (1..MaxWrites))
        /\ Cardinality(D \X (1..MaxWrites)) = Cardinality(D) * MaxWrites
    BY <1>2, <1>3, FS_Product
  <1>5. \A r \in R : r.nth \in 1..MaxWrites
    BY UdpAssumption DEF IInv, TypeOK, Replies, ReplyInv
  <1>6. f \in [R -> D \X (1..MaxWrites)]
    BY <1>5 DEF IInv, ReplyInv
  <1>7. \A r, s \in R : f[r] = f[s] => r = s
    BY DEF IInv, ReplyInv
  <1>8. f \in Injection(R, D \X (1..MaxWrites))
    BY <1>6, <1>7 DEF Injection, IsInjective
  <1> HIDE DEF R, D, f
  <1>9. Cardinality(R) <= Cardinality(D \X (1..MaxWrites))
    BY <1>4, <1>8, FS_Injection
  <1>10. Cardinality(R) <= MaxWrites * Cardinality(D)
    BY <1>1, <1>2, <1>4, <1>9
  <1> QED
    BY <1>10 DEF R, D

\* The answers to a client are to datagrams of its own, although Serve reads the
\* next address before a goroutine has answered, however many responses a handler
\* writes and however it ends.
THEOREM UdpRepliesSafe == Spec => []RepliesGoHome
  <1>1. IInv => RepliesGoHome
    <2> SUFFICES ASSUME IInv PROVE RepliesGoHome
      OBVIOUS
    <2>1. \A r, s \in replies : r.by = s.by /\ r.text # "handler" => s.nth <= r.nth
      BY DEF IInv, ReplyInv
    <2> QED
      BY <2>1, LastRepliesCounted, HandlerRepliesCounted DEF RepliesGoHome
  <1> QED
    BY <1>1, UdpInductive, PTL
=============================================================================
