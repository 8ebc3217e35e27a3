------------------------- MODULE StompWorkerProofs -------------------------
(***************************************************************************)
(* The safety of the STOMP worker for any number of pods, topics and       *)
(* messages.  Every part of the inductive invariant has a lemma: TypeOK    *)
(* alone, and then the others from TypeOK and themselves.                  *)
(***************************************************************************)
EXTENDS StompWorker, SequenceTheorems, FiniteSetTheorems, TLAPS

-----------------------------------------------------------------------------
(* The inductive invariant *)

\* Serve holds a message from Select until it hands it to a job, and the job of
\* a message it holds a slot for does not run yet.
CurInv ==
    \A p \in Pods :
        /\ serve[p] \in {"down", "poll", "select"} => cur[p] = None
        /\ serve[p] \in {"check", "spawn"} => cur[p] \in Msgs
        /\ serve[p] \in {"check", "spawn", "returned"} /\ cur[p] \in Msgs
              => job[p][cur[p]] = "none"

\* A slot in use has one owner, a free one has none.
SlotInv ==
    \A p \in Pods, t \in Topics :
        \/ sem[p][t] = 0 /\ Owners(p, t) = {}
        \/ sem[p][t] = 1 /\ \E m \in Msgs : Owners(p, t) = {m}

\* No job holds a lock whose holder died earlier.
LeakedInv ==
    \A p \in Pods : \A m \in Holding(p) : Keys(m) \cap leaked = {}

LockInv == LockExclusion /\ LocksAccounted /\ LeakedInv

\* The counter of the WaitGroup is the number of jobs before their wg.Done.
WgInv == \A p \in Pods : wg[p] = Cardinality(Counted(p))

\* Between Shutdown's send and Serve's return the token is in the channel; a late
\* job exists only once Serve is bound to find it.
LateInv ==
    \A p \in Pods :
        /\ stop[p] # "idle" /\ serve[p] # "returned" => token[p] = 1
        /\ stop[p] = "idle" => late[p] = {} /\ token[p] = 0
        /\ late[p] # {} => serve[p] \in {"poll", "returned"}
        /\ late[p] = {} \/ \E m \in Msgs : late[p] = {m}

IInv == TypeOK /\ CurInv /\ SlotInv /\ LockInv /\ WgInv /\ LateInv

-----------------------------------------------------------------------------
(* Typing *)

\* The initial state has every variable in its type.
LEMMA InitTypeOK == Init => TypeOK
  BY EmptySeq, BoundAssumption
     DEF Init, TypeOK, ServeStates, StopStates, JobStates

\* An acknowledgement settles a prefix of what the subscription has unsettled.
LEMMA SettlesRange ==
  ASSUME TypeOK, NEW p \in Pods, NEW m \in Msgs
  PROVE  Settles(p, m) \in 0..Len(unacked[p][TopicOf[m]])
  <1> DEFINE s == unacked[p][TopicOf[m]]
             at == {k \in 1..Len(s) : s[k] = m}
  <1>1. s \in Seq(Msgs)
    BY TopicAssumption DEF TypeOK
  <1>2. Len(s) \in Nat
    BY <1>1, LenProperties
  <1>3. CASE at = {}
    BY <1>2, <1>3 DEF Settles
  <1>4. CASE at # {}
    <2>1. (CHOOSE k \in at : TRUE) \in 1..Len(s)
      BY <1>4
    <2>2. Settles(p, m) = CHOOSE k \in at : TRUE
      BY <1>4 DEF Settles
    <2> QED
      BY <1>2, <2>1, <2>2
  <1> QED
    BY <1>3, <1>4

\* A step of a job keeps the type of the jobs.
LEMMA StepType ==
  ASSUME TypeOK, NEW p \in Pods, NEW m \in Msgs,
         NEW from, NEW to \in JobStates, Step(p, m, from, to)
  PROVE  job' \in [Pods -> [Msgs -> JobStates]]
  BY DEF TypeOK, Step

\* The lock of a message is that of an event.
LEMMA KeysType ==
  ASSUME NEW m \in Msgs
  PROVE  Keys(m) \in SUBSET {EventOf[n] : n \in Msgs}
  BY DEF Keys

\* A message whose job has not called wg.Done is counted.
LEMMA CountedPositive ==
  ASSUME TypeOK, WgInv, NEW p \in Pods, NEW m \in Msgs, job[p][m] = "done"
  PROVE  wg[p] \in Nat \ {0}
  <1>1. IsFiniteSet(Counted(p))
    BY FS_Subset, MsgsAssumption DEF Counted
  <1>2. Counted(p) # {}
    BY DEF Counted
  <1> QED
    BY <1>1, <1>2, FS_EmptySet, FS_CardinalityType DEF WgInv

\* A topic with an owner has its slot in use.
LEMMA OwnerHasSlot ==
  ASSUME SlotInv, NEW p \in Pods, NEW t \in Topics, Owners(p, t) # {}
  PROVE  sem[p][t] = 1
  BY DEF SlotInv

\* The end of a process keeps the types.
LEMMA DieTypeOK ==
  ASSUME TypeOK, NEW p \in Pods, Die(p), faults' \in 0..MaxFaults
  PROVE  TypeOK'
  <1>1. leaked' \in SUBSET {EventOf[m] : m \in Msgs}
    BY KeysType DEF Die, TypeOK, Holding
  <1>2. queue' \in SUBSET Msgs
    <2>1. \A t \in Topics : Range(unacked[p][t]) \subseteq Msgs
      BY DEF TypeOK, Range
    <2> QED
      BY <2>1 DEF Die, InFlight, TypeOK
  <1>3. /\ serve' \in [Pods -> ServeStates]
        /\ cur' \in [Pods -> Msgs \cup {None, ErrFrame}]
        /\ conn' \in [Pods -> BOOLEAN]
        /\ sem' \in [Pods -> [Topics -> 0..1]]
    BY DEF Die, TypeOK, ServeStates
  <1>4. /\ token' \in [Pods -> 0..1]
        /\ flag' \in [Pods -> BOOLEAN]
        /\ stop' \in [Pods -> StopStates]
        /\ wg' \in [Pods -> Nat]
        /\ job' \in [Pods -> [Msgs -> JobStates]]
        /\ late' \in [Pods -> SUBSET Msgs]
    BY DEF Die, TypeOK, StopStates, JobStates
  <1>5. /\ inbox' \in [Pods -> [Topics -> Seq(Msgs \cup {ErrFrame})]]
        /\ unacked' \in [Pods -> [Topics -> Seq(Msgs)]]
    BY EmptySeq DEF Die, TypeOK
  <1> QED
    BY <1>1, <1>2, <1>3, <1>4, <1>5 DEF Die, TypeOK, workVars

\* Every step keeps the types: the WaitGroup never goes below zero, a topic never has
\* two slots.
LEMMA TypeOKStep == IInv /\ [Next]_vars => TypeOK'
  <1> SUFFICES ASSUME IInv, [Next]_vars PROVE TypeOK'
    OBVIOUS
  <1>0. TypeOK /\ SlotInv /\ WgInv
    BY DEF IInv
  <1> USE <1>0 DEF TypeOK, ServeStates, StopStates, JobStates, serveVars,
                   stopVars, jobVars, lockVars, brokerVars, workVars
  <1>1. ASSUME NEW p \in Pods, Start(p) PROVE TypeOK'
    BY <1>1 DEF Start, Goto
  <1>2. ASSUME NEW p \in Pods, Poll(p) PROVE TypeOK'
    BY <1>2 DEF Poll, Goto
  <1>3. ASSUME NEW p \in Pods, NEW t \in Topics, Select(p, t) PROVE TypeOK'
    <2>1. inbox[p][t] \in Seq(Msgs \cup {ErrFrame}) /\ inbox[p][t] # <<>>
      BY <1>3 DEF Select
    <2>2. /\ Head(inbox[p][t]) \in Msgs \cup {ErrFrame}
          /\ Tail(inbox[p][t]) \in Seq(Msgs \cup {ErrFrame})
      BY <2>1, HeadTailProperties
    <2> QED
      BY <1>3, <2>2 DEF Select, Goto
  <1>4. ASSUME NEW p \in Pods, SelectClosed(p) PROVE TypeOK'
    BY <1>4 DEF SelectClosed, Goto
  <1>5. ASSUME NEW p \in Pods, Acquire(p) PROVE TypeOK'
    <2>1. PICK t \in Topics : /\ sem[p][t] < 1
                              /\ sem' = [sem EXCEPT ![p][t] = @ + 1]
      BY <1>5 DEF Acquire, SlotFree
    <2>2. sem[p][t] \in 0..1
      BY <2>1
    <2>3. sem[p][t] + 1 \in 0..1
      BY <2>1, <2>2
    <2>4. sem' \in [Pods -> [Topics -> 0..1]]
      BY <2>1, <2>3
    <2> QED
      BY <1>5, <2>4 DEF Acquire, Goto
  <1>6. ASSUME NEW p \in Pods, CheckShutdown(p) PROVE TypeOK'
    BY <1>6 DEF CheckShutdown, Goto
  <1>7. ASSUME NEW p \in Pods, Spawn(p) PROVE TypeOK'
    <2>1. cur[p] \in Msgs
      BY <1>7 DEF Spawn, IInv, CurInv
    <2> QED
      BY <1>7, <2>1 DEF Spawn, Goto
  <1>8. ASSUME NEW p \in Pods, NEW m \in Msgs, Skip(p, m) \/ HandlersReturn(p, m)
        PROVE  TypeOK'
    <2>1. CASE Skip(p, m)
      BY <2>1, StepType DEF Skip
    <2>2. CASE HandlersReturn(p, m)
      BY <2>2, StepType DEF HandlersReturn
    <2> QED
      BY <1>8, <2>1, <2>2
  <1>9. ASSUME NEW p \in Pods, NEW m \in Msgs, Begin(p, m) \/ Unlock(p, m)
        PROVE  TypeOK'
    <2>1. CASE Begin(p, m)
      BY <2>1, StepType, KeysType DEF Begin
    <2>2. CASE Unlock(p, m)
      BY <2>2, StepType DEF Unlock
    <2> QED
      BY <1>9, <2>1, <2>2
  <1>10. ASSUME NEW p \in Pods, NEW m \in Msgs, AutoAck(p, m) PROVE TypeOK'
    <2> DEFINE t == TopicOf[m]
               s == unacked[p][t]
               n == IF AutoACK[t] /\ conn[p] THEN Settles(p, m) ELSE 0
    <2>1. t \in Topics /\ s \in Seq(Msgs) /\ Len(s) \in Nat
      BY TopicAssumption, LenProperties
    <2>2. n \in 0..Len(s)
      BY <2>1, SettlesRange
    <2>3. SubSeq(s, n + 1, Len(s)) \in Seq(Msgs)
      BY <2>1, <2>2, SubSeqProperties
    <2>4. \A i \in 1..n : s[i] \in Msgs
      BY <2>1, <2>2, ElementOfSeq
    <2>5. /\ acked' = acked \cup {s[i] : i \in 1..n}
          /\ unacked' = [unacked EXCEPT ![p][t] = SubSeq(s, n + 1, Len(s))]
      BY <1>10 DEF AutoAck
    <2>6. acked' \in SUBSET Msgs /\ unacked' \in [Pods -> [Topics -> Seq(Msgs)]]
      BY <2>1, <2>3, <2>4, <2>5
    <2> QED
      BY <1>10, <2>6 DEF AutoAck, Step
  <1>11. ASSUME NEW p \in Pods, NEW m \in Msgs, WgDone(p, m) PROVE TypeOK'
    <2>1. wg[p] - 1 \in Nat
      BY <1>11, CountedPositive DEF WgDone, Step
    <2> QED
      BY <1>11, <2>1 DEF WgDone, Step
  <1>12. ASSUME NEW p \in Pods, NEW m \in Msgs, Release(p, m) PROVE TypeOK'
    <2>1. TopicOf[m] \in Topics /\ m \in Owners(p, TopicOf[m])
      BY <1>12, TopicAssumption DEF Release, Step, Owners
    <2>2. sem[p][TopicOf[m]] = 1
      BY <2>1, OwnerHasSlot
    <2> QED
      BY <1>12, <2>1, <2>2 DEF Release, Step
  <1>13. ASSUME NEW p \in Pods, StopNext(p) PROVE TypeOK'
    <2>1. CASE SendToken(p)
      BY <2>1 DEF SendToken
    <2>2. CASE SetFlag(p)
      BY <2>2 DEF SetFlag
    <2>3. CASE Wait(p) \/ WaitDone(p)
      BY <2>3 DEF Wait, WaitDone
    <2> QED
      BY <1>13, <2>1, <2>2, <2>3 DEF StopNext
  <1>14. ASSUME NEW p \in Pods, NEW m \in Msgs, Dispatch(p, m) PROVE TypeOK'
    <2>1. TopicOf[m] \in Topics
      BY TopicAssumption
    <2>2. /\ Append(inbox[p][TopicOf[m]], m) \in Seq(Msgs \cup {ErrFrame})
          /\ Append(unacked[p][TopicOf[m]], m) \in Seq(Msgs)
      BY <2>1, AppendProperties
    <2> QED
      BY <1>14, <2>1, <2>2 DEF Dispatch
  <1>15. ASSUME NEW p \in Pods, Drop(p) PROVE TypeOK'
    <2>1. queue' \in SUBSET Msgs
      <3>1. \A t \in Topics : Range(unacked[p][t]) \subseteq Msgs
        BY DEF Range
      <3> QED
        BY <1>15, <3>1 DEF Drop, InFlight
    <2>2. PICK last \in {<<>>, <<ErrFrame>>} :
             inbox' = [inbox EXCEPT ![p] = [t \in Topics |-> inbox[p][t] \o last]]
      BY <1>15 DEF Drop
    <2>3. last \in Seq(Msgs \cup {ErrFrame})
      <3>1. <<>> \in Seq(Msgs \cup {ErrFrame})
        BY EmptySeq
      <3>2. <<ErrFrame>> \in Seq(Msgs \cup {ErrFrame})
        OBVIOUS
      <3> HIDE DEF TypeOK
      <3> QED
        BY <2>2, <3>1, <3>2
    <2>4. \A t \in Topics : inbox[p][t] \o last \in Seq(Msgs \cup {ErrFrame})
      BY <2>3, ConcatProperties
    <2>5. inbox' \in [Pods -> [Topics -> Seq(Msgs \cup {ErrFrame})]]
      BY <2>2, <2>4
    <2>6. unacked' \in [Pods -> [Topics -> Seq(Msgs)]]
      BY <1>15, EmptySeq DEF Drop
    <2> QED
      BY <1>15, <2>1, <2>5, <2>6, BoundAssumption DEF Drop
  <1>16. ASSUME NEW p \in Pods, Crash(p) \/ Exit(p) PROVE TypeOK'
    <2>1. Die(p)
      BY <1>16 DEF Crash, Exit
    <2>2. faults' \in 0..MaxFaults
      BY <1>16, BoundAssumption DEF Crash, Exit
    <2> QED
      BY <2>1, <2>2, DieTypeOK
  <1>17. CASE UNCHANGED vars
    BY <1>17 DEF vars
  <1> QED
    BY <1>1, <1>2, <1>3, <1>4, <1>5, <1>6, <1>7, <1>8, <1>9, <1>10, <1>11,
       <1>12, <1>13, <1>14, <1>15, <1>16, <1>17
       DEF Next, ServeNext, JobNext

-----------------------------------------------------------------------------
(* Slots *)

\* Shutdown, the broker and the network do not touch Serve or a job.
Outside(p) == StopNext(p) \/ Drop(p) \/ \E m \in Msgs : Dispatch(p, m)

\* Every step is one of Serve, of a job, outside both, or an end of a process.
LEMMA NextCases ==
  ASSUME [Next]_vars
  PROVE  \/ \E p \in Pods : \/ Start(p) \/ Poll(p) \/ SelectClosed(p)
                            \/ Acquire(p) \/ CheckShutdown(p) \/ Spawn(p)
                            \/ \E t \in Topics : Select(p, t)
                            \/ \E m \in Msgs : JobNext(p, m)
                            \/ Outside(p) \/ Crash(p) \/ Exit(p)
         \/ UNCHANGED vars
  BY DEF Next, ServeNext, Outside

\* Steps of Shutdown, of the broker and of the connection touch no slot, job or lock.
LEMMA OutsideUnchanged ==
  ASSUME NEW p \in Pods, Outside(p)
  PROVE  UNCHANGED <<serve, cur, sem, job, wg, late, locked, leaked>>
  BY DEF Outside, StopNext, SendToken, SetFlag, Wait, WaitDone, Dispatch, Drop,
         serveVars, jobVars, lockVars

\* Before Release a job touches neither slots nor Serve nor Shutdown.
LEMMA JobStepUnchanged ==
  ASSUME NEW p \in Pods, NEW m \in Msgs, JobNext(p, m), ~ Release(p, m)
  PROVE  UNCHANGED <<serve, cur, sem, token, stop, late>>
  BY DEF JobNext, Skip, Begin, HandlersReturn, AutoAck, Unlock, WgDone,
         serveVars, stopVars

\* A job moves between states in which it owns its slot until Release.
LEMMA JobStepOwns ==
  ASSUME NEW p \in Pods, NEW m \in Msgs, JobNext(p, m), ~ Release(p, m)
  PROVE  \E to \in JobStates \ {"none"} :
            /\ job[p][m] # "none"
            /\ job' = [job EXCEPT ![p][m] = to]
  BY DEF JobNext, Skip, Begin, HandlersReturn, AutoAck, Unlock, WgDone, Step,
         JobStates

\* Acquire takes a free slot without an owner for a message without a job.
LEMMA AcquireFacts ==
  ASSUME IInv, NEW p \in Pods, Acquire(p)
  PROVE  /\ cur[p] \in Msgs
         /\ TopicOf[cur[p]] \in Topics
         /\ sem[p][TopicOf[cur[p]]] = 0
         /\ Owners(p, TopicOf[cur[p]]) = {}
         /\ job[p][cur[p]] = "none"
         /\ sem' = [sem EXCEPT ![p][TopicOf[cur[p]]] = 1]
  <1>1. cur[p] \in Msgs /\ TopicOf[cur[p]] \in Topics
    BY TopicAssumption DEF Acquire, Dest
  <1>2. /\ sem[p][TopicOf[cur[p]]] < 1
        /\ sem' = [sem EXCEPT ![p][TopicOf[cur[p]]] = @ + 1]
    BY <1>1 DEF Acquire, SlotFree, Dest
  <1>3. sem[p][TopicOf[cur[p]]] = 0 /\ Owners(p, TopicOf[cur[p]]) = {}
    BY <1>1, <1>2 DEF IInv, SlotInv
  <1>4. job[p][cur[p]] = "none"
    BY <1>1, <1>3 DEF Owners
  <1> QED
    BY <1>1, <1>2, <1>3, <1>4

\* The message in the hands of Serve fits the place Serve is at.
LEMMA CurInvStep == IInv /\ [Next]_vars => CurInv'
  <1> SUFFICES ASSUME IInv, [Next]_vars PROVE CurInv'
    OBVIOUS
  <1>0. TypeOK /\ CurInv
    BY DEF IInv
  <1>1. ASSUME NEW p \in Pods,
               Start(p) \/ Poll(p) \/ SelectClosed(p) \/ CheckShutdown(p)
        PROVE  CurInv'
    <2>1. PICK s \in ServeStates : serve' = [serve EXCEPT ![p] = s]
      BY <1>1 DEF Start, Poll, SelectClosed, CheckShutdown, Goto, ServeStates
    <2>2. UNCHANGED <<cur, job>>
      BY <1>1 DEF Start, Poll, SelectClosed, CheckShutdown, jobVars
    <2>3. \/ serve[p] \in {"down", "poll", "select"}
          \/ serve[p] = "check"
      BY <1>1 DEF Start, Poll, SelectClosed, CheckShutdown
    <2>4. serve[p] = "check" => s \in {"spawn", "returned"}
      BY <1>0, <1>1, <2>1 DEF Start, Poll, SelectClosed, CheckShutdown, Goto, TypeOK
    <2>5. serve[p] \in {"down", "poll", "select"}
             => s \in {"poll", "select", "returned"}
      BY <1>0, <1>1, <2>1 DEF Start, Poll, SelectClosed, CheckShutdown, Goto, TypeOK
    <2> QED
      BY <1>0, <2>1, <2>2, <2>3, <2>4, <2>5, MsgsAssumption DEF CurInv, TypeOK
  <1>2. ASSUME NEW p \in Pods, NEW t \in Topics, Select(p, t) PROVE CurInv'
    BY <1>0, <1>2 DEF Select, Goto, CurInv, TypeOK, jobVars
  <1>3. ASSUME NEW p \in Pods, Acquire(p) PROVE CurInv'
    BY <1>0, <1>3, AcquireFacts DEF Acquire, Goto, CurInv, TypeOK, jobVars
  <1>4. ASSUME NEW p \in Pods, Spawn(p) PROVE CurInv'
    <2>1. cur[p] \in Msgs
      BY <1>0, <1>4 DEF Spawn, CurInv
    <2> QED
      BY <1>0, <1>4, <2>1, MsgsAssumption DEF Spawn, Goto, CurInv, TypeOK
  <1>5. ASSUME NEW p \in Pods, NEW m \in Msgs, JobNext(p, m) PROVE CurInv'
    <2>1. CASE Release(p, m)
      BY <1>0, <2>1 DEF Release, Step, CurInv, TypeOK, serveVars
    <2>2. CASE ~ Release(p, m)
      <3>1. PICK to \in JobStates \ {"none"} :
               job[p][m] # "none" /\ job' = [job EXCEPT ![p][m] = to]
        BY <1>5, <2>2, JobStepOwns
      <3> QED
        BY <1>0, <1>5, <2>2, <3>1, JobStepUnchanged DEF CurInv, TypeOK
    <2> QED
      BY <2>1, <2>2
  <1>6. ASSUME NEW p \in Pods, Crash(p) \/ Exit(p) PROVE CurInv'
    <2>1. /\ serve' = [serve EXCEPT ![p] = "down"]
          /\ cur' = [cur EXCEPT ![p] = None]
          /\ job' = [job EXCEPT ![p] = [m \in Msgs |-> "none"]]
      BY <1>6 DEF Crash, Exit, Die
    <2> QED
      BY <1>0, <2>1, MsgsAssumption DEF CurInv, TypeOK
  <1>7. ASSUME NEW p \in Pods, Outside(p) PROVE CurInv'
    BY <1>0, <1>7, OutsideUnchanged DEF CurInv
  <1>8. CASE UNCHANGED vars
    BY <1>0, <1>8 DEF CurInv, vars, serveVars, jobVars
  <1> QED
    BY <1>1, <1>2, <1>3, <1>4, <1>5, <1>6, <1>7, <1>8, NextCases

\* An action that keeps the owners of every slot, and the slots, keeps SlotInv.
LEMMA SameOwners ==
  ASSUME SlotInv, UNCHANGED sem,
         \A q \in Pods, t \in Topics : Owners(q, t)' = Owners(q, t)
  PROVE  SlotInv'
  BY DEF SlotInv

\* Every step keeps one owner for each slot in use.
LEMMA SlotInvStep == IInv /\ [Next]_vars => SlotInv'
  <1> SUFFICES ASSUME IInv, [Next]_vars PROVE SlotInv'
    OBVIOUS
  <1>0. TypeOK /\ CurInv /\ SlotInv
    BY DEF IInv
  <1>1. ASSUME NEW p \in Pods,
               Start(p) \/ Poll(p) \/ SelectClosed(p) \/ CheckShutdown(p)
        PROVE  SlotInv'
    <2>1. PICK s \in ServeStates : serve' = [serve EXCEPT ![p] = s]
      BY <1>1 DEF Start, Poll, SelectClosed, CheckShutdown, Goto, ServeStates
    <2>2. UNCHANGED <<cur, job, sem>>
      BY <1>1 DEF Start, Poll, SelectClosed, CheckShutdown, jobVars
    <2>3. \/ serve[p] \in {"down", "poll", "select"} /\ cur[p] \notin Msgs
          \/ serve[p] = "check" /\ s \in {"spawn", "returned"}
      BY <1>0, <1>1, <2>1, MsgsAssumption
         DEF Start, Poll, SelectClosed, CheckShutdown, Goto, TypeOK, CurInv
    <2>4. \A q \in Pods, t \in Topics : Owners(q, t)' = Owners(q, t)
      BY <1>0, <2>1, <2>2, <2>3 DEF Owners, TypeOK
    <2> QED
      BY <1>0, <2>2, <2>4, SameOwners
  <1>2. ASSUME NEW p \in Pods, NEW t \in Topics, Select(p, t) PROVE SlotInv'
    <2>1. /\ serve[p] = "select" /\ serve' = [serve EXCEPT ![p] = "acquire"]
          /\ UNCHANGED <<sem, job>>
          /\ \A q \in Pods : q # p => cur'[q] = cur[q]
      BY <1>0, <1>2 DEF Select, Goto, jobVars, TypeOK
    <2>2. \A q \in Pods, u \in Topics : Owners(q, u)' = Owners(q, u)
      BY <1>0, <2>1 DEF Owners, TypeOK
    <2> QED
      BY <1>0, <2>1, <2>2, SameOwners
  <1>3. ASSUME NEW p \in Pods, Acquire(p) PROVE SlotInv'
    <2> DEFINE m == cur[p]
               t == TopicOf[m]
    <2>1. /\ m \in Msgs /\ t \in Topics /\ job[p][m] = "none"
          /\ Owners(p, t) = {}
          /\ sem' = [sem EXCEPT ![p][t] = 1]
      BY <1>3, AcquireFacts
    <2>2. /\ serve[p] = "acquire" /\ serve' = [serve EXCEPT ![p] = "check"]
          /\ UNCHANGED <<cur, job>>
      BY <1>3 DEF Acquire, Goto, jobVars
    <2>3. \A q \in Pods, u \in Topics :
             q = p /\ u = t => Owners(q, u)' = {m}
      BY <1>0, <2>1, <2>2 DEF Owners, TypeOK
    <2>4. \A q \in Pods, u \in Topics :
             <<q, u>> # <<p, t>> => Owners(q, u)' = Owners(q, u)
      BY <1>0, <2>1, <2>2 DEF Owners, TypeOK
    <2>5. /\ sem'[p][t] = 1
          /\ \A q \in Pods, u \in Topics :
                <<q, u>> # <<p, t>> => sem'[q][u] = sem[q][u]
      BY <1>0, <2>1 DEF TypeOK
    <2> HIDE DEF m, t
    <2>7. ASSUME NEW q \in Pods, NEW u \in Topics
          PROVE  \/ sem'[q][u] = 0 /\ Owners(q, u)' = {}
                 \/ sem'[q][u] = 1 /\ \E n \in Msgs : Owners(q, u)' = {n}
      <3>1. CASE q = p /\ u = t
        BY <2>1, <2>3, <2>5, <3>1
      <3>2. CASE <<q, u>> # <<p, t>>
        BY <1>0, <2>4, <2>5, <3>2 DEF SlotInv
      <3> QED
        BY <3>1, <3>2
    <2> QED
      BY <2>7 DEF SlotInv
  <1>4. ASSUME NEW p \in Pods, Spawn(p) PROVE SlotInv'
    <2>1. /\ serve[p] = "spawn" /\ cur[p] \in Msgs
          /\ job' = [job EXCEPT ![p][cur[p]] = "begin"]
          /\ cur' = [cur EXCEPT ![p] = None]
          /\ serve' = [serve EXCEPT ![p] = "poll"]
          /\ UNCHANGED sem
      BY <1>0, <1>4 DEF Spawn, Goto, CurInv
    <2>2. \A q \in Pods, t \in Topics : Owners(q, t)' = Owners(q, t)
      BY <1>0, <2>1 DEF Owners, TypeOK
    <2> QED
      BY <1>0, <2>1, <2>2, SameOwners
  <1>5. ASSUME NEW p \in Pods, NEW m \in Msgs, JobNext(p, m), ~ Release(p, m)
        PROVE  SlotInv'
    <2>1. PICK to \in JobStates \ {"none"} :
             job[p][m] # "none" /\ job' = [job EXCEPT ![p][m] = to]
      BY <1>5, JobStepOwns
    <2>2. UNCHANGED <<serve, cur, sem>>
      BY <1>5, JobStepUnchanged
    <2>3. \A q \in Pods, t \in Topics : Owners(q, t)' = Owners(q, t)
      BY <1>0, <2>1, <2>2 DEF Owners, TypeOK
    <2> QED
      BY <1>0, <2>2, <2>3, SameOwners
  <1>6. ASSUME NEW p \in Pods, NEW m \in Msgs, Release(p, m) PROVE SlotInv'
    <2> DEFINE t == TopicOf[m]
    <2>1. /\ job[p][m] = "release"
          /\ job' = [job EXCEPT ![p][m] = "none"]
          /\ sem' = [sem EXCEPT ![p][t] = @ - 1]
          /\ UNCHANGED <<serve, cur>>
      BY <1>6 DEF Release, Step, serveVars
    <2>2. t \in Topics /\ m \in Owners(p, t)
      BY <2>1, TopicAssumption DEF Owners
    <2>3. sem[p][t] = 1 /\ Owners(p, t) = {m}
      BY <1>0, <2>2 DEF SlotInv
    <2>4. ~ (cur[p] = m /\ serve[p] \in {"check", "spawn", "returned"})
      BY <1>0, <2>1 DEF CurInv
    <2>5. Owners(p, t)' = {}
      BY <1>0, <2>1, <2>3, <2>4 DEF Owners, TypeOK
    <2>6. \A q \in Pods, u \in Topics :
             <<q, u>> # <<p, t>> => Owners(q, u)' = Owners(q, u)
      BY <1>0, <2>1 DEF Owners, TypeOK
    <2>7. /\ sem'[p][t] = 0
          /\ \A q \in Pods, u \in Topics :
                <<q, u>> # <<p, t>> => sem'[q][u] = sem[q][u]
      BY <1>0, <2>1, <2>2, <2>3 DEF TypeOK
    <2> HIDE DEF t
    <2> QED
      BY <1>0, <2>5, <2>6, <2>7 DEF SlotInv
  <1>7. ASSUME NEW p \in Pods, Crash(p) \/ Exit(p) PROVE SlotInv'
    <2>1. /\ serve' = [serve EXCEPT ![p] = "down"]
          /\ cur' = [cur EXCEPT ![p] = None]
          /\ job' = [job EXCEPT ![p] = [m \in Msgs |-> "none"]]
          /\ sem' = [sem EXCEPT ![p] = [t \in Topics |-> 0]]
      BY <1>7 DEF Crash, Exit, Die
    <2>2. \A t \in Topics : Owners(p, t)' = {} /\ sem'[p][t] = 0
      BY <1>0, <2>1 DEF Owners, TypeOK
    <2>3. \A q \in Pods, t \in Topics :
             q # p => Owners(q, t)' = Owners(q, t) /\ sem'[q][t] = sem[q][t]
      BY <1>0, <2>1 DEF Owners, TypeOK
    <2> QED
      BY <1>0, <2>2, <2>3 DEF SlotInv
  <1>8. ASSUME NEW p \in Pods, Outside(p) PROVE SlotInv'
    BY <1>0, <1>8, OutsideUnchanged DEF SlotInv, Owners
  <1>9. CASE UNCHANGED vars
    BY <1>0, <1>9 DEF SlotInv, Owners, vars, serveVars, jobVars
  <1> QED
    BY <1>1, <1>2, <1>3, <1>4, <1>5, <1>6, <1>7, <1>8, <1>9, NextCases

-----------------------------------------------------------------------------
(* The locker *)

\* An action that keeps the locker and the holders of every lock keeps LockInv.
LEMMA SameHolders ==
  ASSUME LockInv, UNCHANGED <<locked, leaked>>,
         \A q \in Pods : Holding(q)' = Holding(q)
  PROVE  LockInv'
  BY DEF LockInv, LockExclusion, LocksAccounted, LeakedInv, Keys

\* Every step keeps one holder for each lock, or none when its process died.
LEMMA LockInvStep == IInv /\ [Next]_vars => LockInv'
  <1> SUFFICES ASSUME IInv, [Next]_vars PROVE LockInv'
    OBVIOUS
  <1>0. TypeOK /\ CurInv /\ LockInv
    BY DEF IInv
  <1>1. ASSUME NEW p \in Pods,
               \/ Start(p) \/ Poll(p) \/ SelectClosed(p) \/ Acquire(p)
               \/ CheckShutdown(p) \/ \E t \in Topics : Select(p, t)
        PROVE  LockInv'
    <2>1. UNCHANGED <<job, locked, leaked>>
      BY <1>1 DEF Start, Poll, SelectClosed, Acquire, CheckShutdown, Select,
                  jobVars, lockVars
    <2> QED
      BY <1>0, <2>1, SameHolders DEF Holding
  <1>2. ASSUME NEW p \in Pods, Spawn(p) PROVE LockInv'
    <2>1. /\ cur[p] \in Msgs /\ job[p][cur[p]] = "none"
          /\ job' = [job EXCEPT ![p][cur[p]] = "begin"]
          /\ UNCHANGED <<locked, leaked>>
      BY <1>0, <1>2 DEF Spawn, CurInv, lockVars
    <2>2. \A q \in Pods : Holding(q)' = Holding(q)
      BY <1>0, <2>1 DEF Holding, TypeOK
    <2> QED
      BY <1>0, <2>1, <2>2, SameHolders
  <1>3. ASSUME NEW p \in Pods, NEW m \in Msgs,
               \/ Skip(p, m) \/ HandlersReturn(p, m) \/ AutoAck(p, m)
               \/ WgDone(p, m) \/ Release(p, m)
        PROVE  LockInv'
    <2>1. UNCHANGED <<locked, leaked>>
      BY <1>3 DEF Skip, HandlersReturn, AutoAck, WgDone, Release, lockVars
    <2>2. PICK from \in JobStates, to \in JobStates :
             /\ job[p][m] = from /\ job' = [job EXCEPT ![p][m] = to]
             /\ from \in {"handle", "ack", "unlock"}
                   <=> to \in {"handle", "ack", "unlock"}
      BY <1>3 DEF Skip, HandlersReturn, AutoAck, WgDone, Release, Step, JobStates
    <2>3. \A q \in Pods : Holding(q)' = Holding(q)
      BY <1>0, <2>2 DEF Holding, TypeOK
    <2> QED
      BY <1>0, <2>1, <2>3, SameHolders
  <1>4. ASSUME NEW p \in Pods, NEW m \in Msgs, Begin(p, m) PROVE LockInv'
    <2>1. /\ job[p][m] = "begin" /\ job' = [job EXCEPT ![p][m] = "handle"]
          /\ Keys(m) \cap locked = {}
          /\ locked' = locked \cup Keys(m)
          /\ UNCHANGED leaked
      BY <1>4 DEF Begin, Step
    <2>2. \A q \in Pods, n \in Msgs :
             n \in Holding(q)' <=> n \in Holding(q) \/ (q = p /\ n = m)
      BY <1>0, <2>1 DEF Holding, TypeOK
    <2>3. \A q \in Pods : Holding(q) \subseteq Msgs /\ Holding(q)' \subseteq Msgs
      BY DEF Holding
    <2>4. leaked \subseteq locked
      BY <1>0 DEF LockInv, LocksAccounted
    <2>5. \A q \in Pods : \A n \in Holding(q) : Keys(n) \subseteq locked
      BY <1>0 DEF LockInv, LocksAccounted
    <2>6. LockExclusion'
      BY <1>0, <2>1, <2>2, <2>3, <2>5 DEF LockInv, LockExclusion, Keys
    <2>7. LeakedInv'
      BY <1>0, <2>1, <2>2, <2>3, <2>4 DEF LockInv, LeakedInv, Keys
    <2>8. LocksAccounted'
      BY <1>0, <2>1, <2>2, <2>3 DEF LockInv, LocksAccounted, Keys
    <2> QED
      BY <2>6, <2>7, <2>8 DEF LockInv
  <1>5. ASSUME NEW p \in Pods, NEW m \in Msgs, Unlock(p, m) PROVE LockInv'
    <2>1. /\ job[p][m] = "unlock" /\ job' = [job EXCEPT ![p][m] = "done"]
          /\ locked' = locked \ Keys(m)
          /\ UNCHANGED leaked
      BY <1>5 DEF Unlock, Step
    <2>2. \A q \in Pods, n \in Msgs :
             n \in Holding(q)' <=> n \in Holding(q) /\ <<q, n>> # <<p, m>>
      BY <1>0, <2>1 DEF Holding, TypeOK
    <2>3. \A q \in Pods : Holding(q) \subseteq Msgs /\ Holding(q)' \subseteq Msgs
      BY DEF Holding
    <2>4. m \in Holding(p)
      BY <2>1 DEF Holding
    <2>5. /\ Keys(m) \cap leaked = {}
          /\ \A q \in Pods : \A n \in Holding(q) :
                <<q, n>> # <<p, m>> => Keys(m) \cap Keys(n) = {}
      BY <1>0, <2>4 DEF LockInv, LeakedInv, LockExclusion
    <2>6. LockExclusion'
      BY <1>0, <2>2, <2>3 DEF LockInv, LockExclusion, Keys
    <2>7. LeakedInv'
      BY <1>0, <2>1, <2>2, <2>3 DEF LockInv, LeakedInv, Keys
    <2>8. LocksAccounted'
      BY <1>0, <2>1, <2>2, <2>3, <2>5 DEF LockInv, LocksAccounted, Keys
    <2> QED
      BY <2>6, <2>7, <2>8 DEF LockInv
  <1>6. ASSUME NEW p \in Pods, Crash(p) \/ Exit(p) PROVE LockInv'
    <2>1. /\ job' = [job EXCEPT ![p] = [m \in Msgs |-> "none"]]
          /\ leaked' = leaked \cup UNION {Keys(m) : m \in Holding(p)}
          /\ UNCHANGED locked
      BY <1>6 DEF Crash, Exit, Die
    <2>3. \A q \in Pods : Holding(q)' = IF q = p THEN {} ELSE Holding(q)
      BY <1>0, <2>1 DEF Holding, TypeOK
    <2>4. LockExclusion'
      BY <1>0, <2>3 DEF LockInv, LockExclusion, Keys
    <2>5. LeakedInv'
      BY <1>0, <2>1, <2>3 DEF LockInv, LeakedInv, LockExclusion, Keys
    <2>6. LocksAccounted'
      BY <1>0, <2>1, <2>3 DEF LockInv, LocksAccounted, Keys
    <2> QED
      BY <2>4, <2>5, <2>6 DEF LockInv
  <1>7. ASSUME NEW p \in Pods, Outside(p) PROVE LockInv'
    BY <1>0, <1>7, OutsideUnchanged, SameHolders DEF Holding
  <1>8. CASE UNCHANGED vars
    BY <1>0, <1>8, SameHolders DEF Holding, vars, jobVars, lockVars
  <1> QED
    BY <1>1, <1>2, <1>3, <1>4, <1>5, <1>6, <1>7, <1>8, NextCases DEF JobNext

-----------------------------------------------------------------------------
(* The WaitGroup *)

\* A step that changes neither the counter nor what it counts keeps WgInv.
LEMMA SameCount ==
  ASSUME WgInv, UNCHANGED wg, \A q \in Pods : Counted(q)' = Counted(q)
  PROVE  WgInv'
  BY DEF WgInv

\* The jobs a WaitGroup counts are finitely many.
LEMMA CountedFinite ==
  ASSUME NEW p \in Pods
  PROVE  IsFiniteSet(Counted(p))
  BY FS_Subset, MsgsAssumption DEF Counted

\* The WaitGroup counts the jobs before wg.Done in every step.
LEMMA WgInvStep == IInv /\ [Next]_vars => WgInv'
  <1> SUFFICES ASSUME IInv, [Next]_vars PROVE WgInv'
    OBVIOUS
  <1>0. TypeOK /\ CurInv /\ WgInv
    BY DEF IInv
  <1>1. ASSUME NEW p \in Pods,
               \/ Start(p) \/ Poll(p) \/ SelectClosed(p) \/ Acquire(p)
               \/ CheckShutdown(p) \/ \E t \in Topics : Select(p, t)
        PROVE  WgInv'
    <2>1. UNCHANGED <<job, wg>>
      BY <1>1 DEF Start, Poll, SelectClosed, Acquire, CheckShutdown, Select,
                  jobVars
    <2> QED
      BY <1>0, <2>1, SameCount DEF Counted
  <1>2. ASSUME NEW p \in Pods, Spawn(p) PROVE WgInv'
    <2>1. /\ cur[p] \in Msgs /\ job[p][cur[p]] = "none"
          /\ job' = [job EXCEPT ![p][cur[p]] = "begin"]
          /\ wg' = [wg EXCEPT ![p] = @ + 1]
      BY <1>0, <1>2 DEF Spawn, CurInv
    <2>2. cur[p] \notin Counted(p)
      BY <2>1 DEF Counted
    <2>3. \A q \in Pods :
             Counted(q)' = IF q = p THEN Counted(q) \cup {cur[p]} ELSE Counted(q)
      BY <1>0, <2>1 DEF Counted, TypeOK
    <2>4. Cardinality(Counted(p) \cup {cur[p]}) = Cardinality(Counted(p)) + 1
      BY <2>2, CountedFinite, FS_AddElement
    <2> QED
      BY <1>0, <2>1, <2>3, <2>4 DEF WgInv, TypeOK
  <1>3. ASSUME NEW p \in Pods, NEW m \in Msgs,
               \/ Skip(p, m) \/ Begin(p, m) \/ HandlersReturn(p, m)
               \/ AutoAck(p, m) \/ Unlock(p, m) \/ Release(p, m)
        PROVE  WgInv'
    <2>1. UNCHANGED wg
      BY <1>3 DEF Skip, Begin, HandlersReturn, AutoAck, Unlock, Release
    <2>2. PICK from \in JobStates, to \in JobStates :
             /\ job[p][m] = from /\ job' = [job EXCEPT ![p][m] = to]
             /\ from \in {"none", "release"} <=> to \in {"none", "release"}
      BY <1>3 DEF Skip, Begin, HandlersReturn, AutoAck, Unlock, Release, Step,
                  JobStates
    <2>3. \A q \in Pods : Counted(q)' = Counted(q)
      BY <1>0, <2>2 DEF Counted, TypeOK
    <2> QED
      BY <1>0, <2>1, <2>3, SameCount
  <1>4. ASSUME NEW p \in Pods, NEW m \in Msgs, WgDone(p, m) PROVE WgInv'
    <2>1. /\ job[p][m] = "done"
          /\ job' = [job EXCEPT ![p][m] = "release"]
          /\ wg' = [wg EXCEPT ![p] = @ - 1]
      BY <1>4 DEF WgDone, Step
    <2>2. m \in Counted(p)
      BY <2>1 DEF Counted
    <2>3. \A q \in Pods :
             Counted(q)' = IF q = p THEN Counted(q) \ {m} ELSE Counted(q)
      BY <1>0, <2>1 DEF Counted, TypeOK
    <2>4. Cardinality(Counted(p) \ {m}) = Cardinality(Counted(p)) - 1
      BY <2>2, CountedFinite, FS_RemoveElement
    <2> QED
      BY <1>0, <2>1, <2>3, <2>4 DEF WgInv, TypeOK
  <1>5. ASSUME NEW p \in Pods, Crash(p) \/ Exit(p) PROVE WgInv'
    <2>1. /\ job' = [job EXCEPT ![p] = [m \in Msgs |-> "none"]]
          /\ wg' = [wg EXCEPT ![p] = 0]
      BY <1>5 DEF Crash, Exit, Die
    <2>2. \A q \in Pods : Counted(q)' = IF q = p THEN {} ELSE Counted(q)
      BY <1>0, <2>1 DEF Counted, TypeOK
    <2> QED
      BY <1>0, <2>1, <2>2, FS_EmptySet DEF WgInv, TypeOK
  <1>6. ASSUME NEW p \in Pods, Outside(p) PROVE WgInv'
    BY <1>0, <1>6, OutsideUnchanged, SameCount DEF Counted
  <1>7. CASE UNCHANGED vars
    BY <1>0, <1>7, SameCount DEF Counted, vars, jobVars
  <1> QED
    BY <1>1, <1>2, <1>3, <1>4, <1>5, <1>6, <1>7, NextCases DEF JobNext

-----------------------------------------------------------------------------
(* Late jobs *)

\* Behind the token there is one late job at most.
LEMMA LateInvStep == IInv /\ [Next]_vars => LateInv'
  <1> SUFFICES ASSUME IInv, [Next]_vars PROVE LateInv'
    OBVIOUS
  <1>0. TypeOK /\ CurInv /\ LateInv
    BY DEF IInv
  <1>1. ASSUME NEW p \in Pods,
               \/ Start(p) \/ SelectClosed(p) \/ Acquire(p)
               \/ CheckShutdown(p) \/ \E t \in Topics : Select(p, t)
        PROVE  LateInv'
    <2>1. UNCHANGED <<token, stop, late>>
      BY <1>1 DEF Start, SelectClosed, Acquire, CheckShutdown, Select,
                  stopVars, jobVars
    <2>2. PICK s \in ServeStates : serve' = [serve EXCEPT ![p] = s]
      BY <1>1 DEF Start, SelectClosed, Acquire, CheckShutdown, Select, Goto,
                  ServeStates
    <2>3. serve[p] \in {"down", "select", "acquire", "check"}
      BY <1>1 DEF Start, SelectClosed, Acquire, CheckShutdown, Select
    <2> QED
      BY <1>0, <2>1, <2>2, <2>3 DEF LateInv, TypeOK
  <1>2. ASSUME NEW p \in Pods, Poll(p) PROVE LateInv'
    BY <1>0, <1>2 DEF Poll, Goto, LateInv, TypeOK, jobVars
  <1>3. ASSUME NEW p \in Pods, Spawn(p) PROVE LateInv'
    <2>1. /\ serve[p] = "spawn" /\ cur[p] \in Msgs
          /\ serve' = [serve EXCEPT ![p] = "poll"]
          /\ UNCHANGED token
          /\ stop' = [stop EXCEPT ![p] = IF @ = "asleep" /\ wg[p] = 0 THEN "woken" ELSE @]
      BY <1>0, <1>3 DEF Spawn, Goto, CurInv
    <2>2. late[p] = {}
      BY <1>0, <2>1 DEF LateInv
    <2>3. late' = [late EXCEPT ![p] = IF stop[p] = "idle" THEN {} ELSE {cur[p]}]
      BY <1>0, <1>3, <2>2 DEF Spawn, TypeOK
    <2>4. \A q \in Pods : stop'[q] = "idle" <=> stop[q] = "idle"
      BY <1>0, <2>1 DEF TypeOK
    <2> QED
      BY <1>0, <2>1, <2>3, <2>4 DEF LateInv, TypeOK
  <1>4. ASSUME NEW p \in Pods, NEW m \in Msgs, JobNext(p, m) PROVE LateInv'
    <2>1. UNCHANGED <<serve, token, stop, late>>
      BY <1>4, JobStepUnchanged DEF Release, serveVars, stopVars
    <2> QED
      BY <1>0, <2>1 DEF LateInv
  <1>5. ASSUME NEW p \in Pods, StopNext(p) PROVE LateInv'
    <2>1. CASE SendToken(p)
      BY <1>0, <2>1 DEF SendToken, LateInv, TypeOK, serveVars, jobVars
    <2>2. CASE SetFlag(p)
      BY <1>0, <2>2 DEF SetFlag, LateInv, TypeOK, serveVars, jobVars
    <2>3. CASE Wait(p) \/ WaitDone(p)
      BY <1>0, <2>3 DEF Wait, WaitDone, LateInv, TypeOK, serveVars, jobVars
    <2> QED
      BY <1>5, <2>1, <2>2, <2>3 DEF StopNext
  <1>6. ASSUME NEW p \in Pods, Drop(p) \/ \E m \in Msgs : Dispatch(p, m)
        PROVE  LateInv'
    <2>1. UNCHANGED <<serve, token, stop, late>>
      BY <1>6 DEF Drop, Dispatch, serveVars, stopVars, jobVars
    <2> QED
      BY <1>0, <2>1 DEF LateInv
  <1>7. ASSUME NEW p \in Pods, Crash(p) \/ Exit(p) PROVE LateInv'
    <2>1. /\ serve' = [serve EXCEPT ![p] = "down"]
          /\ stop' = [stop EXCEPT ![p] = "idle"]
          /\ token' = [token EXCEPT ![p] = 0]
          /\ late' = [late EXCEPT ![p] = {}]
      BY <1>7 DEF Crash, Exit, Die
    <2> QED
      BY <1>0, <2>1 DEF LateInv, TypeOK
  <1>8. CASE UNCHANGED vars
    BY <1>0, <1>8 DEF LateInv, vars, serveVars, stopVars, jobVars
  <1> QED
    BY <1>1, <1>2, <1>3, <1>4, <1>5, <1>6, <1>7, <1>8, NextCases DEF Outside

-----------------------------------------------------------------------------
(* The theorems *)

\* The initial state satisfies the invariant.
LEMMA InitIInv == Init => IInv
  <1> SUFFICES ASSUME Init PROVE IInv
    OBVIOUS
  <1>1. TypeOK
    BY InitTypeOK
  <1>2. CurInv
    BY MsgsAssumption DEF Init, CurInv
  <1>3. SlotInv
    BY DEF Init, SlotInv, Owners
  <1>4. LockInv
    BY DEF Init, LockInv, LockExclusion, LocksAccounted, LeakedInv, Holding
  <1>5. WgInv
    <2>1. \A p \in Pods : Counted(p) = {}
      BY DEF Init, Counted
    <2> QED
      BY <2>1, FS_EmptySet DEF Init, WgInv
  <1>6. LateInv
    BY DEF Init, LateInv
  <1> QED
    BY <1>1, <1>2, <1>3, <1>4, <1>5, <1>6 DEF IInv

\* The inductive invariant holds in every reachable state.
THEOREM Inductive == Spec => []IInv
  <1>1. Init => IInv
    BY InitIInv
  <1>2. IInv /\ [Next]_vars => IInv'
    BY TypeOKStep, CurInvStep, SlotInvStep, LockInvStep, WgInvStep, LateInvStep
       DEF IInv
  <1> QED
    BY <1>1, <1>2, PTL DEF Spec

\* Every variable keeps its type; in particular a WaitGroup counter never becomes
\* negative, which would panic, and a semaphore never holds two slots.
THEOREM TypeCorrect == Spec => []TypeOK
  <1>1. IInv => TypeOK
    BY DEF IInv
  <1> QED
    BY <1>1, Inductive, PTL

\* No path through a job leaks a slot of a topic or frees one it does not own.
THEOREM SlotsSafe == Spec => []SlotsAccounted
  <1>1. IInv => SlotsAccounted
    <2> SUFFICES ASSUME SlotInv, NEW p \in Pods, NEW t \in Topics
                 PROVE sem[p][t] = Cardinality(Owners(p, t))
      BY DEF IInv, SlotsAccounted
    <2>1. CASE sem[p][t] = 0 /\ Owners(p, t) = {}
      BY <2>1, FS_EmptySet
    <2>2. CASE sem[p][t] = 1 /\ \E m \in Msgs : Owners(p, t) = {m}
      <3>1. PICK m \in Msgs : Owners(p, t) = {m}
        BY <2>2
      <3>2. Cardinality({m}) = 1
        BY FS_Singleton
      <3> QED
        BY <2>2, <3>1, <3>2
    <2> QED
      BY <2>1, <2>2 DEF SlotInv
  <1> QED
    BY <1>1, Inductive, PTL

\* Jobs of one event exclude each other over all pods.
THEOREM LocksExclude == Spec => []LockExclusion
  <1>1. IInv => LockExclusion
    BY DEF IInv, LockInv
  <1> QED
    BY <1>1, Inductive, PTL

\* A lock outlives its job only when the process of the job died.
THEOREM LocksReleased == Spec => []LocksAccounted
  <1>1. IInv => LocksAccounted
    BY DEF IInv, LockInv
  <1> QED
    BY <1>1, Inductive, PTL

\* At most one job is spawned after Shutdown has sent its token.
THEOREM OneLateJob == Spec => []AtMostOneLate
  <1>1. IInv => AtMostOneLate
    <2> SUFFICES ASSUME LateInv, NEW p \in Pods PROVE Cardinality(late[p]) <= 1
      BY DEF IInv, AtMostOneLate
    <2>1. CASE late[p] = {}
      BY <2>1, FS_EmptySet
    <2>2. CASE late[p] # {}
      <3>1. PICK m \in Msgs : late[p] = {m}
        BY <2>2 DEF LateInv
      <3>2. Cardinality({m}) = 1
        BY FS_Singleton
      <3> QED
        BY <3>1, <3>2
    <2> QED
      BY <2>1, <2>2
  <1> QED
    BY <1>1, Inductive, PTL

\* When Shutdown returns, and ever after, only a late job runs.
LEMMA ShutdownWaitsStep ==
  IInv /\ ShutdownWaits /\ [Next]_vars => ShutdownWaits'
  <1> SUFFICES ASSUME IInv, ShutdownWaits, [Next]_vars PROVE ShutdownWaits'
    OBVIOUS
  <1>0. TypeOK /\ CurInv /\ WgInv
    BY DEF IInv
  <1>1. ASSUME NEW p \in Pods,
               \/ Start(p) \/ Poll(p) \/ SelectClosed(p) \/ Acquire(p)
               \/ CheckShutdown(p) \/ \E t \in Topics : Select(p, t)
        PROVE  ShutdownWaits'
    <2>1. UNCHANGED <<stop, job, late>>
      BY <1>1 DEF Start, Poll, SelectClosed, Acquire, CheckShutdown, Select,
                  stopVars, jobVars
    <2> QED
      BY <2>1 DEF ShutdownWaits, Counted
  <1>2. ASSUME NEW p \in Pods, Spawn(p) PROVE ShutdownWaits'
    <2>1. /\ cur[p] \in Msgs
          /\ job' = [job EXCEPT ![p][cur[p]] = "begin"]
          /\ late' = [late EXCEPT ![p] =
                         IF stop[p] = "idle" THEN @ ELSE @ \cup {cur[p]}]
      BY <1>0, <1>2 DEF Spawn, CurInv
    <2>2. \A q \in Pods : /\ stop'[q] = "returned" <=> stop[q] = "returned"
                          /\ stop[q] = "returned" => stop[q] # "idle"
      BY <1>0, <1>2 DEF Spawn, TypeOK
    <2> QED
      BY <1>0, <2>1, <2>2 DEF ShutdownWaits, Counted, TypeOK
  <1>3. ASSUME NEW p \in Pods, NEW m \in Msgs, JobNext(p, m)
        PROVE  ShutdownWaits'
    <2>1. UNCHANGED <<stop, late>>
      BY <1>3, JobStepUnchanged DEF Release, stopVars
    <2>2. PICK from \in JobStates, to \in JobStates :
             /\ job[p][m] = from /\ job' = [job EXCEPT ![p][m] = to]
             /\ from \in {"none", "release"} => to \in {"none", "release"}
      BY <1>3 DEF JobNext, Skip, Begin, HandlersReturn, AutoAck, Unlock, WgDone,
                  Release, Step, JobStates
    <2>3. \A q \in Pods : Counted(q)' \subseteq Counted(q)
      BY <1>0, <2>2 DEF Counted, TypeOK
    <2> QED
      BY <2>1, <2>3 DEF ShutdownWaits
  <1>4. ASSUME NEW p \in Pods, StopNext(p) PROVE ShutdownWaits'
    <2>1. UNCHANGED <<job, late>>
      BY <1>4, OutsideUnchanged DEF Outside
    <2>2. CASE WaitDone(p)
      <3>1. wg[p] = 0 /\ stop' = [stop EXCEPT ![p] = "returned"]
        BY <2>2 DEF WaitDone
      <3>2. Counted(p) = {}
        BY <1>0, <3>1, CountedFinite, FS_EmptySet DEF WgInv
      <3> QED
        BY <1>0, <2>1, <3>1, <3>2 DEF ShutdownWaits, Counted, TypeOK
    <2>3. CASE SendToken(p) \/ SetFlag(p) \/ Wait(p)
      BY <1>0, <2>1, <2>3 DEF SendToken, SetFlag, Wait, ShutdownWaits, Counted, TypeOK
    <2> QED
      BY <1>4, <2>2, <2>3 DEF StopNext
  <1>5. ASSUME NEW p \in Pods, Drop(p) \/ \E m \in Msgs : Dispatch(p, m)
        PROVE  ShutdownWaits'
    <2>1. UNCHANGED <<stop, job, late>>
      BY <1>5 DEF Drop, Dispatch, stopVars, jobVars
    <2> QED
      BY <2>1 DEF ShutdownWaits, Counted
  <1>6. ASSUME NEW p \in Pods, Crash(p) \/ Exit(p) PROVE ShutdownWaits'
    <2>1. /\ stop' = [stop EXCEPT ![p] = "idle"]
          /\ job' = [job EXCEPT ![p] = [m \in Msgs |-> "none"]]
          /\ late' = [late EXCEPT ![p] = {}]
      BY <1>6 DEF Crash, Exit, Die
    <2> QED
      BY <1>0, <2>1 DEF ShutdownWaits, Counted, TypeOK
  <1>7. CASE UNCHANGED vars
    BY <1>7 DEF ShutdownWaits, Counted, vars, stopVars, jobVars
  <1> QED
    BY <1>1, <1>2, <1>3, <1>4, <1>5, <1>6, <1>7, NextCases DEF Outside

\* When Shutdown returns, all the jobs it was called to wait for have ended: only
\* one spawned after the token was sent can still run.
THEOREM ShutdownSafe == Spec => []ShutdownWaits
  <1>1. Init => ShutdownWaits
    BY DEF Init, ShutdownWaits
  <1> QED
    BY <1>1, ShutdownWaitsStep, Inductive, PTL DEF Spec
=============================================================================
