-------------------------- MODULE StompWorkerOrder --------------------------
(***************************************************************************)
(* What the order of the messages of a topic rests on, that the broker is  *)
(* told of no message nobody worked on, and that the STOMP worker          *)
(* implements the abstract consumer: for any number of pods, topics and    *)
(* messages.                                                               *)
(*                                                                         *)
(* All three rest on OrderInv, which is inductive together with the IInv   *)
(* of StompWorkerProofs.  The last section shows that before the first     *)
(* failure pods, slots and windows never lock each other up.               *)
(***************************************************************************)
EXTENDS StompWorkerProofs

-----------------------------------------------------------------------------
(* The inductive invariant *)

\* A message is with the broker, with one subscription, once, or settled.
PlaceInv ==
    /\ queue \cap acked = {}
    /\ \A p \in Pods, t \in Topics :
          /\ ~ conn[p] => unacked[p][t] = <<>>
          /\ \A i \in 1..Len(unacked[p][t]) :
                /\ TopicOf[unacked[p][t][i]] = t
                /\ unacked[p][t][i] \notin queue \cup acked
    /\ \A p, q \in Pods, t, u \in Topics :
          \A i \in 1..Len(unacked[p][t]), j \in 1..Len(unacked[q][u]) :
             unacked[p][t][i] = unacked[q][u][j] => p = q /\ t = u /\ i = j

\* How many of the unsettled messages of a topic Serve has passed on to a job:
\* all but the waiting ones, and the one in its hands.
InHand(p, t) == IF cur[p] \in Msgs /\ Dest(cur[p]) = t THEN 1 ELSE 0
Passed(p, t) == Len(unacked[p][t]) - Len(inbox[p][t]) - InHand(p, t)

\* While the connection is up the subscription channel holds the last of the
\* unsettled messages, the message Serve has in hand comes right before them, and
\* the one in a job, unless it is settled, right before that.
ChannelInv(p, t) ==
    /\ Passed(p, t) >= 0
    /\ \A i \in 1..Len(inbox[p][t]) :
          inbox[p][t][i] = unacked[p][t][Passed(p, t) + InHand(p, t) + i]
    /\ InHand(p, t) = 1 => cur[p] = unacked[p][t][Passed(p, t) + 1]
    /\ \A m \in Msgs :
          TopicOf[m] = t /\ job[p][m] # "none" =>
             \/ m \in acked
             \/ Passed(p, t) > 0 /\ m = unacked[p][t][Passed(p, t)]

Worked(m) == \/ m \in handled
             \/ \E n \in begun : Keys(m) \cap Keys(n) # {}

\* Every message Serve passed on was worked on, or its job is still at it.
PassedWorked(p, t) ==
    \A i \in 1..Passed(p, t) :
        LET m == unacked[p][t][i]
        IN  Worked(m) \/ job[p][m] \in {"begin", "handle"}

\* A lock was taken by a message whose handlers were started; a job past its
\* handlers has returned from them, one past its lock was at least skipped.
WorkInv ==
    /\ \A k \in locked : \E n \in begun : k \in Keys(n)
    /\ \A p \in Pods, m \in Msgs :
          /\ job[p][m] \in {"ack", "unlock"} => m \in handled
          /\ job[p][m] \in {"done", "release"} => Worked(m)

\* A pod that is down has nothing in memory.
DownInv ==
    \A p \in Pods : serve[p] = "down" =>
        /\ ~ conn[p]
        /\ \A t \in Topics : inbox[p][t] = <<>>
        /\ \A m \in Msgs : job[p][m] = "none"

OrderInv ==
    /\ DownInv
    /\ PlaceInv
    /\ \A p \in Pods, t \in Topics :
          conn[p] => ChannelInv(p, t) /\ PassedWorked(p, t)
    /\ WorkInv
    /\ AckedWasWorked

-----------------------------------------------------------------------------
(* What a step of one pod leaves alone *)

PodNext(p) ==
    \/ ServeNext(p)
    \/ \E m \in Msgs : JobNext(p, m) \/ Dispatch(p, m)
    \/ StopNext(p)
    \/ Drop(p) \/ Crash(p) \/ Exit(p)

\* A step of one pod leaves the connection and the jobs of every other alone.
LEMMA OtherPods ==
  ASSUME TypeOK, NEW p \in Pods, PodNext(p), NEW q \in Pods, q # p
  PROVE  /\ serve'[q] = serve[q] /\ cur'[q] = cur[q] /\ conn'[q] = conn[q]
         /\ inbox'[q] = inbox[q] /\ unacked'[q] = unacked[q]
         /\ job'[q] = job[q]
  <1> USE DEF TypeOK, serveVars, jobVars, brokerVars
  <1>1. CASE ServeNext(p)
    BY <1>1 DEF ServeNext, Start, Poll, SelectClosed, Acquire, CheckShutdown,
                Spawn, Select, Goto
  <1>2. ASSUME NEW m \in Msgs, JobNext(p, m)
        PROVE  /\ serve'[q] = serve[q] /\ cur'[q] = cur[q] /\ conn'[q] = conn[q]
               /\ inbox'[q] = inbox[q] /\ unacked'[q] = unacked[q]
               /\ job'[q] = job[q]
    BY <1>2 DEF JobNext, Skip, Begin, HandlersReturn, AutoAck, Unlock, WgDone,
                Release, Step
  <1>3. CASE StopNext(p)
    BY <1>3 DEF StopNext, SendToken, SetFlag, Wait, WaitDone
  <1>4. CASE Drop(p) \/ \E m \in Msgs : Dispatch(p, m)
    BY <1>4 DEF Drop, Dispatch
  <1>5. CASE Crash(p) \/ Exit(p)
    BY <1>5 DEF Crash, Exit, Die
  <1> QED
    BY <1>1, <1>2, <1>3, <1>4, <1>5 DEF PodNext

\* Only Start, AutoAck, Dispatch and the end of a connection move a message
\* between the broker and a subscription.
LEMMA BrokerUnchanged ==
  ASSUME NEW p \in Pods, PodNext(p), ~ Start(p), ~ Drop(p), ~ Crash(p), ~ Exit(p),
         \A m \in Msgs : ~ AutoAck(p, m) /\ ~ Dispatch(p, m)
  PROVE  UNCHANGED <<conn, queue, unacked, acked>>
  BY DEF PodNext, ServeNext, Poll, SelectClosed, Acquire, CheckShutdown, Spawn,
         Select, JobNext, Skip, Begin, HandlersReturn, Unlock, WgDone, Release,
         StopNext, SendToken, SetFlag, Wait, WaitDone, brokerVars

\* History only grows.
LEMMA HistoryGrows ==
  ASSUME [Next]_vars
  PROVE  begun \subseteq begun' /\ handled \subseteq handled' /\ acked \subseteq acked'
  <1> USE DEF brokerVars, workVars
  <1>1. ASSUME NEW p \in Pods, ServeNext(p) \/ StopNext(p)
        PROVE  UNCHANGED <<begun, handled, acked>>
    BY <1>1 DEF ServeNext, Start, Poll, SelectClosed, Acquire, CheckShutdown,
                Spawn, Select, StopNext, SendToken, SetFlag, Wait, WaitDone
  <1>2. ASSUME NEW p \in Pods, NEW m \in Msgs, JobNext(p, m)
        PROVE  begun \subseteq begun' /\ handled \subseteq handled' /\ acked \subseteq acked'
    BY <1>2 DEF JobNext, Skip, Begin, HandlersReturn, AutoAck, Unlock, WgDone,
                Release
  <1>3. ASSUME NEW p \in Pods,
               \/ Drop(p) \/ Crash(p) \/ Exit(p)
               \/ \E m \in Msgs : Dispatch(p, m)
        PROVE  UNCHANGED <<begun, handled, acked>>
    BY <1>3 DEF Dispatch, Drop, Crash, Exit, Die
  <1> QED
    BY <1>1, <1>2, <1>3 DEF Next, vars

-----------------------------------------------------------------------------
(* Acknowledgements *)

\* Seq facts of the model's variables, as the provers need them.
LEMMA SeqTypes ==
  ASSUME TypeOK, NEW p \in Pods, NEW t \in Topics
  PROVE  /\ unacked[p][t] \in Seq(Msgs) /\ Len(unacked[p][t]) \in Nat
         /\ inbox[p][t] \in Seq(Msgs \cup {ErrFrame}) /\ Len(inbox[p][t]) \in Nat
         /\ \A i \in 1..Len(unacked[p][t]) : unacked[p][t][i] \in Msgs
         /\ InHand(p, t) \in {0, 1} /\ Passed(p, t) \in Int
         /\ Passed(p, t) + InHand(p, t) + Len(inbox[p][t]) = Len(unacked[p][t])
         /\ Passed(p, t) <= Len(unacked[p][t])
  <1>1. /\ unacked[p][t] \in Seq(Msgs)
        /\ inbox[p][t] \in Seq(Msgs \cup {ErrFrame})
    BY DEF TypeOK
  <1>2. /\ Len(unacked[p][t]) \in Nat /\ Len(inbox[p][t]) \in Nat
        /\ \A i \in 1..Len(unacked[p][t]) : unacked[p][t][i] \in Msgs
    BY <1>1, LenProperties, ElementOfSeq
  <1>3. InHand(p, t) \in {0, 1}
    BY DEF InHand
  <1>4. Passed(p, t) = Len(unacked[p][t]) - Len(inbox[p][t]) - InHand(p, t)
    BY DEF Passed
  <1>5. /\ Passed(p, t) \in Int
        /\ Passed(p, t) + InHand(p, t) + Len(inbox[p][t]) = Len(unacked[p][t])
        /\ Passed(p, t) <= Len(unacked[p][t])
    <2> DEFINE a == Len(unacked[p][t])
               b == Len(inbox[p][t])
    <2>1. a \in Nat /\ b \in Nat /\ Passed(p, t) = a - b - InHand(p, t)
      BY <1>2, <1>4
    <2> HIDE DEF a, b
    <2>2. /\ Passed(p, t) \in Int
          /\ Passed(p, t) + InHand(p, t) + b = a
          /\ Passed(p, t) <= a
      BY <1>3, <2>1
    <2> QED
      BY <2>2 DEF a, b
  <1> QED
    BY <1>1, <1>2, <1>3, <1>5

\* An acknowledgement that settles anything settles all that Serve passed on.
SettlesPassed(p, t) ==
    /\ conn[p]
    /\ Passed(p, t) \in 1..Len(unacked[p][t])
    /\ acked' = acked \cup {unacked[p][t][i] : i \in 1..Passed(p, t)}
    /\ Len(unacked'[p][t]) = Len(unacked[p][t]) - Passed(p, t)
    /\ \A i \in 1..Len(unacked'[p][t]) :
          unacked'[p][t][i] = unacked[p][t][Passed(p, t) + i]
    /\ \A q \in Pods, u \in Topics :
          <<q, u>> # <<p, t>> => unacked'[q][u] = unacked[q][u]

\* An acknowledgement settles nothing, or all that was passed on up to its own message.
LEMMA AckFacts ==
  ASSUME IInv, OrderInv, NEW p \in Pods, NEW m \in Msgs, AutoAck(p, m),
         NEW t, t = TopicOf[m], NEW s, s = unacked[p][t]
  PROVE  \/ UNCHANGED <<acked, unacked>>
         \/ SettlesPassed(p, t) /\ s[Passed(p, t)] = m
  <1> DEFINE at == {k \in 1..Len(s) : s[k] = m}
             n == IF AutoACK[t] /\ conn[p] THEN Settles(p, m) ELSE 0
  <1>1. TypeOK /\ t \in Topics
    BY TopicAssumption DEF IInv
  <1>2. s \in Seq(Msgs) /\ Len(s) \in Nat
    BY <1>1, SeqTypes
  <1>3. /\ acked' = acked \cup {s[i] : i \in 1..n}
        /\ unacked' = [unacked EXCEPT ![p][t] = SubSeq(s, n + 1, Len(s))]
        /\ job[p][m] = "ack"
    BY DEF AutoAck, Step
  <1>4. n \in 0..Len(s)
    BY <1>1, <1>2, SettlesRange
  <1>5. CASE n = 0
    <2>1. SubSeq(s, 1, Len(s)) = s
      BY <1>2, SubSeqFull
    <2>2. acked' = acked
      BY <1>3, <1>5
    <2>3. unacked' = unacked
      BY <1>1, <1>3, <1>5, <2>1 DEF TypeOK
    <2> QED
      BY <2>2, <2>3
  <1>6. CASE n # 0
    <2>1. conn[p] /\ n = Settles(p, m)
      BY <1>6
    <2>2. at # {} /\ Settles(p, m) = CHOOSE k \in at : TRUE
      BY <1>6, <2>1 DEF Settles
    <2>3. n \in 1..Len(s) /\ s[n] = m
      BY <2>1, <2>2
    <2> HIDE DEF n, at
    <2>4. m \notin acked
      BY <1>1, <2>3 DEF OrderInv, PlaceInv
    <2>5. Passed(p, t) \in 1..Len(s) /\ m = s[Passed(p, t)]
      <3>1. Passed(p, t) > 0 /\ m = s[Passed(p, t)]
        BY <1>1, <1>3, <2>1, <2>4 DEF OrderInv, ChannelInv
      <3>2. Passed(p, t) \in Int /\ Passed(p, t) <= Len(unacked[p][t])
        BY <1>1, SeqTypes
      <3> QED
        BY <1>2, <3>1, <3>2
    <2>6. n = Passed(p, t)
      BY <1>1, <2>3, <2>5 DEF OrderInv, PlaceInv
    <2>7. \A i \in n + 1..Len(s) : s[i] \in Msgs
      BY <1>2, <2>3, ElementOfSeq
    <2>8. /\ Len(SubSeq(s, n + 1, Len(s))) = Len(s) - n
          /\ \A i \in 1..(Len(s) - n) : SubSeq(s, n + 1, Len(s))[i] = s[n + i]
      <3>1. n \in 1..Len(s)
        BY <2>3
      <3> QED
        BY <1>2, <2>7, <3>1, SubSeqProperties
    <2>9. unacked'[p][t] = SubSeq(s, n + 1, Len(s))
      BY <1>1, <1>3 DEF TypeOK
    <2>10. \A q \in Pods, u \in Topics :
              <<q, u>> # <<p, t>> => unacked'[q][u] = unacked[q][u]
      BY <1>1, <1>3 DEF TypeOK
    <2>11. /\ conn[p] /\ n \in 1..Len(unacked[p][t])
           /\ acked' = acked \cup {unacked[p][t][i] : i \in 1..n}
      BY <1>3, <2>1, <2>3
    <2>12. Len(unacked'[p][t]) = Len(unacked[p][t]) - n
      BY <2>8, <2>9
    <2>13. \A i \in 1..Len(unacked'[p][t]) : unacked'[p][t][i] = unacked[p][t][n + i]
      BY <2>8, <2>9
    <2> QED
      BY <2>3, <2>6, <2>10, <2>11, <2>12, <2>13 DEF SettlesPassed
  <1> QED
    BY <1>5, <1>6

-----------------------------------------------------------------------------
(* Where the messages are *)

\* The message at a position of a subscription, as PlaceInv needs it: an action
\* that adds nothing to the subscriptions and takes nothing back keeps PlaceInv.
LEMMA FewerUnacked ==
  ASSUME TypeOK, PlaceInv, NEW p \in Pods, NEW t \in Topics, NEW n \in Nat,
         UNCHANGED <<conn, queue>>,
         n <= Len(unacked[p][t]),
         Len(unacked'[p][t]) = Len(unacked[p][t]) - n,
         \A i \in 1..Len(unacked'[p][t]) : unacked'[p][t][i] = unacked[p][t][n + i],
         \A q \in Pods, u \in Topics :
            <<q, u>> # <<p, t>> => unacked'[q][u] = unacked[q][u],
         acked' = acked \cup {unacked[p][t][i] : i \in 1..n},
         conn[p]
  PROVE  PlaceInv'
  <1> DEFINE shift(q, u) == IF q = p /\ u = t THEN n ELSE 0
  <1>1. ASSUME NEW q \in Pods, NEW u \in Topics, NEW i \in 1..Len(unacked'[q][u])
        PROVE  /\ shift(q, u) + i \in 1..Len(unacked[q][u])
               /\ unacked'[q][u][i] = unacked[q][u][shift(q, u) + i]
    <2>1. CASE q = p /\ u = t
      <3> DEFINE a == Len(unacked[p][t])
                 b == Len(unacked'[p][t])
      <3>1. a \in Nat /\ b = a - n /\ i \in 1..b
        BY <2>1, SeqTypes
      <3> HIDE DEF a, b
      <3>2. n + i \in 1..a
        BY <3>1
      <3> QED
        BY <2>1, <3>2 DEF a
    <2>2. CASE ~ (q = p /\ u = t)
      BY <2>2
    <2> QED
      BY <2>1, <2>2
  <1>2. ASSUME NEW q \in Pods, NEW u \in Topics, NEW i \in 1..Len(unacked[q][u]),
               NEW j \in 1..n, unacked[q][u][i] = unacked[p][t][j]
        PROVE  q = p /\ u = t /\ i = j
    <2>1. j \in 1..Len(unacked[p][t])
      <3> DEFINE a == Len(unacked[p][t])
      <3>1. a \in Nat /\ n <= a
        BY SeqTypes
      <3> HIDE DEF a
      <3>2. j \in 1..a
        BY <3>1
      <3> QED
        BY <3>2 DEF a
    <2> QED
      BY <1>2, <2>1 DEF PlaceInv
  <1>3. queue' \cap acked' = {}
    <2>1. \A j \in 1..n : j \in 1..Len(unacked[p][t])
      <3> DEFINE a == Len(unacked[p][t])
      <3>1. a \in Nat /\ n <= a
        BY SeqTypes
      <3> HIDE DEF a
      <3>2. \A j \in 1..n : j \in 1..a
        BY <3>1
      <3> QED
        BY <3>2 DEF a
    <2>2. \A j \in 1..n : unacked[p][t][j] \notin queue
      BY <2>1 DEF PlaceInv
    <2> QED
      BY <2>2 DEF PlaceInv
  <1>4. ASSUME NEW q \in Pods, NEW u \in Topics, ~ conn'[q]
        PROVE  unacked'[q][u] = <<>>
    BY <1>4 DEF PlaceInv
  <1>5. ASSUME NEW q \in Pods, NEW u \in Topics, NEW i \in 1..Len(unacked'[q][u])
        PROVE  /\ TopicOf[unacked'[q][u][i]] = u
               /\ unacked'[q][u][i] \notin queue' \cup acked'
    <2> DEFINE k == shift(q, u) + i
    <2>1. k \in 1..Len(unacked[q][u]) /\ unacked'[q][u][i] = unacked[q][u][k]
      BY <1>1
    <2>2. q = p /\ u = t => k > n
      OBVIOUS
    <2> HIDE DEF k
    <2>3. /\ TopicOf[unacked[q][u][k]] = u
          /\ unacked[q][u][k] \notin queue \cup acked
      BY <2>1 DEF PlaceInv
    <2>4. ASSUME NEW j \in 1..n, unacked[q][u][k] = unacked[p][t][j]
          PROVE  FALSE
      <3>1. q = p /\ u = t /\ k = j
        BY <1>2, <2>1, <2>4
      <3> QED
        BY <2>2, <3>1
    <2> QED
      BY <2>1, <2>3, <2>4
  <1>6. ASSUME NEW q \in Pods, NEW r \in Pods, NEW u \in Topics, NEW v \in Topics,
               NEW i \in 1..Len(unacked'[q][u]), NEW j \in 1..Len(unacked'[r][v]),
               unacked'[q][u][i] = unacked'[r][v][j]
        PROVE  q = r /\ u = v /\ i = j
    <2>1. /\ shift(q, u) + i \in 1..Len(unacked[q][u])
          /\ shift(r, v) + j \in 1..Len(unacked[r][v])
          /\ unacked[q][u][shift(q, u) + i] = unacked[r][v][shift(r, v) + j]
      BY <1>1, <1>6
    <2>2. q = r /\ u = v /\ shift(q, u) + i = shift(r, v) + j
      BY <2>1 DEF PlaceInv
    <2>3. shift(q, u) = shift(r, v) /\ shift(q, u) \in Nat
      BY <2>2
    <2> HIDE DEF shift
    <2> QED
      BY <2>2, <2>3
  <1> QED
    BY <1>3, <1>4, <1>5, <1>6 DEF PlaceInv

\* The broker takes back what a connection had not settled.
LEMMA TakenBack ==
  ASSUME TypeOK, PlaceInv, NEW p \in Pods,
         \A q \in Pods : q # p => conn'[q] = conn[q] /\ unacked'[q] = unacked[q],
         \A t \in Topics : unacked'[p][t] = <<>>,
         queue' = queue \cup InFlight(p), UNCHANGED acked
  PROVE  PlaceInv'
  <1>1. \A m \in InFlight(p) :
           \E t \in Topics : \E i \in 1..Len(unacked[p][t]) : m = unacked[p][t][i]
    BY SeqTypes, LenProperties DEF InFlight, Range
  <1>2. InFlight(p) \cap acked = {}
    BY <1>1 DEF PlaceInv
  <1>3. ASSUME NEW q \in Pods, NEW t \in Topics, NEW i \in 1..Len(unacked'[q][t])
        PROVE  q # p /\ unacked'[q] = unacked[q]
    <2>1. Len(<<>>) = 0
      BY EmptySeq
    <2>2. q = p => FALSE
      BY <2>1
    <2> QED
      BY <2>2
  <1>4. ASSUME NEW q \in Pods, NEW t \in Topics, NEW i \in 1..Len(unacked'[q][t])
        PROVE  unacked'[q][t][i] \notin InFlight(p)
    BY <1>1, <1>3, <1>4 DEF PlaceInv
  <1>5. queue' \cap acked' = {}
    BY <1>2 DEF PlaceInv
  <1>6. \A q \in Pods, t \in Topics : ~ conn'[q] => unacked'[q][t] = <<>>
    BY DEF PlaceInv
  <1>7. ASSUME NEW q \in Pods, NEW t \in Topics, NEW i \in 1..Len(unacked'[q][t])
        PROVE  /\ TopicOf[unacked'[q][t][i]] = t
               /\ unacked'[q][t][i] \notin queue' \cup acked'
    BY <1>3, <1>4, <1>7 DEF PlaceInv
  <1>8. ASSUME NEW q \in Pods, NEW r \in Pods, NEW u \in Topics, NEW v \in Topics,
               NEW i \in 1..Len(unacked'[q][u]), NEW j \in 1..Len(unacked'[r][v]),
               unacked'[q][u][i] = unacked'[r][v][j]
        PROVE  q = r /\ u = v /\ i = j
    <2>1. unacked'[q] = unacked[q] /\ unacked'[r] = unacked[r]
      BY <1>3
    <2> QED
      BY <1>8, <2>1 DEF PlaceInv
  <1> QED
    BY <1>5, <1>6, <1>7, <1>8 DEF PlaceInv

\* What a dispatch appends, to the unsettled messages and to the channel.
Appends(p, t, m) ==
    /\ t \in Topics /\ conn[p] /\ m \in queue /\ queue' = queue \ {m}
    /\ UNCHANGED <<conn, acked, cur, job, serve>>
    /\ Len(unacked'[p][t]) = Len(unacked[p][t]) + 1
    /\ \A i \in 1..Len(unacked[p][t]) : unacked'[p][t][i] = unacked[p][t][i]
    /\ unacked'[p][t][Len(unacked[p][t]) + 1] = m
    /\ Len(inbox'[p][t]) = Len(inbox[p][t]) + 1
    /\ \A i \in 1..Len(inbox[p][t]) : inbox'[p][t][i] = inbox[p][t][i]
    /\ inbox'[p][t][Len(inbox[p][t]) + 1] = m
    /\ \A q \in Pods, u \in Topics :
          <<q, u>> # <<p, t>> =>
             unacked'[q][u] = unacked[q][u] /\ inbox'[q][u] = inbox[q][u]

\* The broker appends a message of the queue to one subscription.
LEMMA DispatchFacts ==
  ASSUME TypeOK, NEW p \in Pods, NEW m \in Msgs, Dispatch(p, m),
         NEW t, t = TopicOf[m]
  PROVE  Appends(p, t, m)
  <1>1. t \in Topics
    BY TopicAssumption
  <1>2. unacked[p][t] \in Seq(Msgs) /\ inbox[p][t] \in Seq(Msgs \cup {ErrFrame})
    BY <1>1, SeqTypes
  <1>3. /\ inbox' = [inbox EXCEPT ![p][t] = Append(@, m)]
        /\ unacked' = [unacked EXCEPT ![p][t] = Append(@, m)]
    BY DEF Dispatch
  <1>4. /\ unacked'[p][t] = Append(unacked[p][t], m)
        /\ inbox'[p][t] = Append(inbox[p][t], m)
    BY <1>1, <1>3 DEF TypeOK
  <1>5. /\ Len(unacked'[p][t]) = Len(unacked[p][t]) + 1
        /\ \A i \in 1..Len(unacked[p][t]) : unacked'[p][t][i] = unacked[p][t][i]
        /\ unacked'[p][t][Len(unacked[p][t]) + 1] = m
    BY <1>2, <1>4, AppendProperties
  <1>6. /\ Len(inbox'[p][t]) = Len(inbox[p][t]) + 1
        /\ \A i \in 1..Len(inbox[p][t]) : inbox'[p][t][i] = inbox[p][t][i]
        /\ inbox'[p][t][Len(inbox[p][t]) + 1] = m
    BY <1>2, <1>4, AppendProperties
  <1>7. \A q \in Pods, u \in Topics :
           <<q, u>> # <<p, t>> =>
              unacked'[q][u] = unacked[q][u] /\ inbox'[q][u] = inbox[q][u]
    BY <1>1, <1>3 DEF TypeOK
  <1> QED
    BY <1>1, <1>5, <1>6, <1>7 DEF Appends, Dispatch, serveVars, jobVars

\* A dispatched message leaves the queue and is in flight once.
LEMMA DispatchPlace ==
  ASSUME TypeOK, PlaceInv, NEW p \in Pods, NEW m \in Msgs, Dispatch(p, m)
  PROVE  PlaceInv'
  <1> DEFINE t == TopicOf[m]
             a == Len(unacked[p][t])
  <1>1. /\ t \in Topics /\ conn[p] /\ m \in queue /\ queue' = queue \ {m}
        /\ UNCHANGED <<conn, acked>>
        /\ Len(unacked'[p][t]) = a + 1
        /\ \A i \in 1..a : unacked'[p][t][i] = unacked[p][t][i]
        /\ unacked'[p][t][a + 1] = m
        /\ \A q \in Pods, u \in Topics :
              <<q, u>> # <<p, t>> => unacked'[q][u] = unacked[q][u]
    BY DispatchFacts DEF Appends
  <1>2. a \in Nat
    BY <1>1, SeqTypes
  <1>3. ASSUME NEW q \in Pods, NEW u \in Topics, NEW i \in 1..Len(unacked'[q][u])
        PROVE  \/ i \in 1..Len(unacked[q][u]) /\ unacked'[q][u][i] = unacked[q][u][i]
               \/ q = p /\ u = t /\ i = a + 1 /\ unacked'[q][u][i] = m
    <2>1. CASE q = p /\ u = t
      <3>1. i \in 1..a + 1
        BY <1>1, <2>1
      <3> HIDE DEF a
      <3>2. i \in 1..a \/ i = a + 1
        BY <1>2, <3>1
      <3> QED
        BY <1>1, <2>1, <3>2 DEF a
    <2>2. CASE ~ (q = p /\ u = t)
      <3> HIDE DEF a, t
      <3> QED
        BY <1>1, <2>2
    <2> QED
      BY <2>1, <2>2
  <1>4. \A q \in Pods, u \in Topics : \A i \in 1..Len(unacked[q][u]) :
           /\ TopicOf[unacked[q][u][i]] = u
           /\ unacked[q][u][i] \notin queue \cup acked
           /\ unacked[q][u][i] # m
    BY <1>1 DEF PlaceInv
  <1>5. m \notin acked
    BY <1>1 DEF PlaceInv
  <1> HIDE DEF a
  <1>6. queue' \cap acked' = {}
    BY <1>1 DEF PlaceInv
  <1>7. \A q \in Pods, u \in Topics : ~ conn'[q] => unacked'[q][u] = <<>>
    BY <1>1 DEF PlaceInv
  <1>8. ASSUME NEW q \in Pods, NEW u \in Topics, NEW i \in 1..Len(unacked'[q][u])
        PROVE  /\ TopicOf[unacked'[q][u][i]] = u
               /\ unacked'[q][u][i] \notin queue' \cup acked'
    BY <1>1, <1>3, <1>4, <1>5
  <1>9. ASSUME NEW q \in Pods, NEW r \in Pods, NEW u \in Topics, NEW v \in Topics,
               NEW i \in 1..Len(unacked'[q][u]), NEW j \in 1..Len(unacked'[r][v]),
               unacked'[q][u][i] = unacked'[r][v][j]
        PROVE  q = r /\ u = v /\ i = j
    <2>1. /\ \/ i \in 1..Len(unacked[q][u]) /\ unacked'[q][u][i] = unacked[q][u][i]
             \/ q = p /\ u = t /\ i = a + 1 /\ unacked'[q][u][i] = m
          /\ \/ j \in 1..Len(unacked[r][v]) /\ unacked'[r][v][j] = unacked[r][v][j]
             \/ r = p /\ v = t /\ j = a + 1 /\ unacked'[r][v][j] = m
      BY <1>3
    <2> HIDE DEF t
    <2>2. CASE /\ i \in 1..Len(unacked[q][u]) /\ unacked'[q][u][i] = unacked[q][u][i]
               /\ j \in 1..Len(unacked[r][v]) /\ unacked'[r][v][j] = unacked[r][v][j]
      <3>1. unacked[q][u][i] = unacked[r][v][j]
        BY <1>9, <2>2
      <3> QED
        BY <2>2, <3>1 DEF PlaceInv
    <2> QED
      BY <1>4, <1>9, <2>1, <2>2
  <1> QED
    BY <1>6, <1>7, <1>8, <1>9 DEF PlaceInv

\* Every step keeps a message in one place.
LEMMA PlaceInvStep ==
  ASSUME IInv, OrderInv, NEW p \in Pods, PodNext(p)
  PROVE  PlaceInv'
  <1>0. TypeOK /\ PlaceInv /\ DownInv
    BY DEF IInv, OrderInv
  <1>1. CASE Start(p)
    <2>1. /\ serve[p] = "down" /\ conn' = [conn EXCEPT ![p] = TRUE]
          /\ UNCHANGED <<queue, unacked, acked>>
      BY <1>1 DEF Start, brokerVars
    <2> QED
      BY <1>0, <2>1 DEF PlaceInv, TypeOK
  <1>2. ASSUME NEW m \in Msgs, AutoAck(p, m) PROVE PlaceInv'
    <2> DEFINE t == TopicOf[m]
    <2>1. t \in Topics /\ UNCHANGED <<conn, queue>>
      BY <1>2, TopicAssumption DEF AutoAck
    <2>2. CASE UNCHANGED <<acked, unacked>>
      BY <1>0, <2>1, <2>2 DEF PlaceInv
    <2>3. CASE SettlesPassed(p, t)
      <3> HIDE DEF t
      <3>1. Passed(p, t) \in Nat /\ Passed(p, t) <= Len(unacked[p][t])
        BY <1>0, <2>1, <2>3, SeqTypes DEF SettlesPassed
      <3> QED
        BY <1>0, <2>1, <2>3, <3>1, FewerUnacked DEF SettlesPassed
    <2> QED
      BY <1>2, <2>2, <2>3, AckFacts
  <1>3. ASSUME NEW m \in Msgs, Dispatch(p, m) PROVE PlaceInv'
    BY <1>0, <1>3, DispatchPlace
  <1>4. CASE Drop(p) \/ Crash(p) \/ Exit(p)
    <2>1. /\ unacked' = [unacked EXCEPT ![p] = [t \in Topics |-> <<>>]]
          /\ conn' = [conn EXCEPT ![p] = FALSE]
          /\ queue' = queue \cup InFlight(p) /\ UNCHANGED acked
      BY <1>4 DEF Drop, Crash, Exit, Die
    <2>2. /\ \A q \in Pods : q # p => conn'[q] = conn[q] /\ unacked'[q] = unacked[q]
          /\ \A t \in Topics : unacked'[p][t] = <<>>
      BY <1>0, <2>1 DEF TypeOK
    <2> QED
      BY <1>0, <2>1, <2>2, TakenBack
  <1>5. CASE UNCHANGED <<conn, queue, unacked, acked>>
    BY <1>0, <1>5 DEF PlaceInv
  <1> QED
    BY <1>1, <1>2, <1>3, <1>4, <1>5, BrokerUnchanged

-----------------------------------------------------------------------------
(* The order of a topic *)

\* What a step that leaves a topic of a pod alone keeps.
LEMMA ChannelFrame ==
  ASSUME NEW q \in Pods, NEW t \in Topics, ChannelInv(q, t),
         unacked'[q][t] = unacked[q][t], inbox'[q][t] = inbox[q][t],
         InHand(q, t)' = InHand(q, t),
         InHand(q, t) = 1 => cur'[q] = cur[q],
         acked \subseteq acked',
         \A m \in Msgs : TopicOf[m] = t /\ job'[q][m] # "none" => job[q][m] # "none"
  PROVE  ChannelInv(q, t)'
  <1>1. Passed(q, t)' = Passed(q, t)
    BY DEF Passed
  <1> QED
    BY <1>1 DEF ChannelInv

\* What was worked on stays so.
LEMMA WorkedGrows ==
  ASSUME begun \subseteq begun', handled \subseteq handled', NEW m \in Msgs, Worked(m)
  PROVE  Worked(m)'
  BY DEF Worked, Keys

\* A step that passes nothing on and settles nothing keeps what is known of the
\* messages passed on.
LEMMA PassedFrame ==
  ASSUME TypeOK, NEW q \in Pods, NEW t \in Topics, PassedWorked(q, t),
         unacked'[q][t] = unacked[q][t],
         Passed(q, t)' = Passed(q, t),
         begun \subseteq begun', handled \subseteq handled',
         \A m \in Msgs : job[q][m] \in {"begin", "handle"} =>
            job'[q][m] \in {"begin", "handle"} \/ Worked(m)'
  PROVE  PassedWorked(q, t)'
  <1> SUFFICES ASSUME NEW i \in 1..Passed(q, t)
               PROVE  \/ Worked(unacked[q][t][i])'
                      \/ job'[q][unacked[q][t][i]] \in {"begin", "handle"}
    BY DEF PassedWorked
  <1>1. unacked[q][t][i] \in Msgs
    <2> DEFINE a == Len(unacked[q][t])
    <2>1. a \in Nat /\ Passed(q, t) \in Int /\ Passed(q, t) <= a
      BY SeqTypes
    <2> HIDE DEF a
    <2>2. i \in 1..a
      BY <2>1
    <2> QED
      BY <2>2, SeqTypes DEF a
  <1>2. Worked(unacked[q][t][i]) \/ job[q][unacked[q][t][i]] \in {"begin", "handle"}
    BY DEF PassedWorked
  <1> QED
    BY <1>1, <1>2, WorkedGrows

\* Select takes the first message of the channel, the next of its topic.
LEMMA SelectOrder ==
  ASSUME IInv, OrderInv, NEW p \in Pods, NEW u \in Topics, Select(p, u),
         NEW t \in Topics, conn[p]
  PROVE  ChannelInv(p, t)' /\ PassedWorked(p, t)'
  <1> DEFINE s == unacked[p][u]
             b == Len(inbox[p][u])
  <1>0. TypeOK /\ PlaceInv /\ ChannelInv(p, t) /\ PassedWorked(p, t) /\ ChannelInv(p, u)
    BY DEF IInv, OrderInv
  <1>1. /\ serve[p] = "select" /\ inbox[p][u] # <<>>
        /\ cur' = [cur EXCEPT ![p] = Head(inbox[p][u])]
        /\ inbox' = [inbox EXCEPT ![p][u] = Tail(@)]
        /\ UNCHANGED <<unacked, job, acked, begun, handled>>
    BY DEF Select, jobVars, brokerVars, workVars
  <1>2. cur[p] \notin Msgs
    BY <1>1, MsgsAssumption DEF IInv, CurInv
  <1>3. \A v \in Topics : InHand(p, v) = 0
    BY <1>2 DEF InHand
  <1>4. /\ inbox[p][u] \in Seq(Msgs \cup {ErrFrame})
        /\ b \in Nat \ {0} /\ Len(s) \in Nat
        /\ Passed(p, u) \in Int /\ Passed(p, u) + b = Len(s)
    <2>1. b \in Nat \ {0} /\ inbox[p][u] \in Seq(Msgs \cup {ErrFrame})
      BY <1>0, <1>1, SeqTypes, EmptySeq
    <2>2. /\ Len(s) \in Nat /\ Passed(p, u) \in Int
          /\ Passed(p, u) + InHand(p, u) + b = Len(s)
      BY <1>0, SeqTypes
    <2> HIDE DEF s, b
    <2> QED
      BY <1>3, <2>1, <2>2
  <1>5. /\ cur'[p] = inbox[p][u][1]
        /\ Len(inbox'[p][u]) = b - 1
        /\ \A i \in 1..b - 1 : inbox'[p][u][i] = inbox[p][u][i + 1]
    <2>1. cur'[p] = Head(inbox[p][u]) /\ inbox'[p][u] = Tail(inbox[p][u])
      BY <1>0, <1>1 DEF TypeOK
    <2>2. Head(inbox[p][u]) = inbox[p][u][1]
      OBVIOUS
    <2>3. /\ Len(Tail(inbox[p][u])) = b - 1
          /\ \A i \in 1..b - 1 : Tail(inbox[p][u])[i] = inbox[p][u][i + 1]
      BY <1>1, <1>4, HeadTailProperties
    <2> QED
      BY <2>1, <2>2, <2>3
  <1>6. Passed(p, u) >= 0 /\ \A i \in 1..b : inbox[p][u][i] = s[Passed(p, u) + i]
    <2>1. /\ Passed(p, u) >= 0
          /\ \A i \in 1..b : inbox[p][u][i] = s[Passed(p, u) + InHand(p, u) + i]
      BY <1>0 DEF ChannelInv
    <2> HIDE DEF s, b
    <2> QED
      BY <1>3, <1>4, <2>1
  <1>7. cur'[p] = s[Passed(p, u) + 1]
    <2> HIDE DEF s, b
    <2> QED
      BY <1>4, <1>5, <1>6
  <1>8. Passed(p, u) + 1 \in 1..Len(s)
    <2> HIDE DEF s, b
    <2> QED
      BY <1>4, <1>6
  <1>9. cur'[p] \in Msgs /\ TopicOf[cur'[p]] = u
    BY <1>0, <1>7, <1>8, SeqTypes DEF PlaceInv
  <1>10. InHand(p, t)' = IF t = u THEN 1 ELSE 0
    BY <1>9 DEF InHand, Dest
  <1>11. CASE t # u
    <2>1. unacked'[p][t] = unacked[p][t] /\ inbox'[p][t] = inbox[p][t]
      BY <1>0, <1>1, <1>11 DEF TypeOK
    <2>2. InHand(p, t)' = InHand(p, t) /\ InHand(p, t) = 0
      BY <1>3, <1>10, <1>11
    <2>3. ChannelInv(p, t)'
      BY <1>0, <1>1, <2>1, <2>2, ChannelFrame
    <2>4. Passed(p, t)' = Passed(p, t)
      BY <2>1, <2>2 DEF Passed
    <2> QED
      BY <1>0, <1>1, <2>1, <2>3, <2>4, PassedFrame
  <1>12. CASE t = u
    <2>1. InHand(p, u)' = 1 /\ unacked'[p][u] = s
      BY <1>1, <1>10, <1>12
    <2>2. Passed(p, u)' = Passed(p, u)
      <3>1. Passed(p, u)' = Len(s) - (b - 1) - 1
        BY <1>5, <2>1 DEF Passed
      <3> HIDE DEF s, b
      <3> QED
        BY <1>4, <3>1
    <2>3. \A i \in 1..b - 1 : inbox'[p][u][i] = s[Passed(p, u) + 1 + i]
      <3> HIDE DEF s, b
      <3> SUFFICES ASSUME NEW i \in 1..b - 1
                   PROVE  inbox'[p][u][i] = s[Passed(p, u) + 1 + i]
        OBVIOUS
      <3>1. i + 1 \in 1..b /\ Passed(p, u) + (i + 1) = Passed(p, u) + 1 + i
        BY <1>4
      <3> QED
        BY <1>5, <1>6, <3>1
    <2>4. \A m \in Msgs : TopicOf[m] = u /\ job[p][m] # "none" =>
             \/ m \in acked
             \/ Passed(p, u) > 0 /\ m = s[Passed(p, u)]
      BY <1>0 DEF ChannelInv
    <2>5. ChannelInv(p, u)'
      BY <1>1, <1>5, <1>6, <1>7, <2>1, <2>2, <2>3, <2>4 DEF ChannelInv
    <2> QED
      BY <1>0, <1>1, <1>12, <2>1, <2>2, <2>5, PassedFrame
  <1> QED
    BY <1>11, <1>12

\* Spawn hands the message in hand to its job: one more is passed on.
LEMMA SpawnOrder ==
  ASSUME IInv, OrderInv, NEW p \in Pods, Spawn(p), NEW t \in Topics, conn[p]
  PROVE  ChannelInv(p, t)' /\ PassedWorked(p, t)'
  <1> DEFINE m == cur[p]
             P == Passed(p, t)
             b == Len(inbox[p][t])
  <1>0. TypeOK /\ PlaceInv /\ ChannelInv(p, t) /\ PassedWorked(p, t)
    BY DEF IInv, OrderInv
  <1>1. /\ serve[p] = "spawn" /\ m \in Msgs
        /\ job' = [job EXCEPT ![p][m] = "begin"]
        /\ cur' = [cur EXCEPT ![p] = None]
        /\ UNCHANGED <<inbox, unacked, acked, begun, handled>>
    BY DEF Spawn, IInv, CurInv, brokerVars, workVars
  <1>2. InHand(p, t)' = 0
    BY <1>0, <1>1, MsgsAssumption DEF InHand, TypeOK
  <1>3. InHand(p, t) = IF TopicOf[m] = t THEN 1 ELSE 0
    BY <1>1 DEF InHand, Dest
  <1>4. CASE TopicOf[m] # t
    <2>1. \A n \in Msgs : TopicOf[n] = t => job'[p][n] = job[p][n]
      BY <1>0, <1>1, <1>4 DEF TypeOK
    <2>2. Passed(p, t)' = P
      BY <1>1, <1>2, <1>3, <1>4 DEF Passed
    <2>3. ChannelInv(p, t)'
      BY <1>0, <1>1, <1>2, <1>3, <1>4, <2>1, ChannelFrame
    <2>4. \A n \in Msgs : job[p][n] \in {"begin", "handle"} =>
             job'[p][n] \in {"begin", "handle"}
      BY <1>0, <1>1 DEF TypeOK
    <2> QED
      BY <1>0, <1>1, <2>2, <2>3, <2>4, PassedFrame
  <1>5. CASE TopicOf[m] = t
    <2>1. InHand(p, t) = 1 /\ P >= 0 /\ P \in Int
      BY <1>0, <1>3, <1>5, SeqTypes DEF ChannelInv
    <2>2. Passed(p, t)' = P + 1
      <3> DEFINE a == Len(unacked[p][t])
      <3>1. Passed(p, t)' = a - b - 0 /\ P = a - b - 1 /\ a \in Nat /\ b \in Nat
        BY <1>0, <1>1, <1>2, <2>1, SeqTypes DEF Passed
      <3> HIDE DEF a, b, P
      <3> QED
        BY <3>1
    <2>3. m = unacked[p][t][P + 1]
      BY <1>0, <2>1 DEF ChannelInv
    <2>4. \A i \in 1..b : inbox'[p][t][i] = unacked'[p][t][P + 1 + 0 + i]
      <3>1. \A i \in 1..b : inbox[p][t][i] = unacked[p][t][P + 1 + i]
        BY <1>0, <2>1 DEF ChannelInv
      <3> HIDE DEF P, b
      <3> QED
        BY <1>1, <2>1, <3>1
    <2>5. \A n \in Msgs : TopicOf[n] = t /\ job'[p][n] # "none" => n = m
      <3>1. m \in Owners(p, t) /\ Owners(p, t) = {m}
        BY <1>1, <1>5 DEF Owners, IInv, SlotInv
      <3>2. \A n \in Msgs : n # m => job'[p][n] = job[p][n]
        BY <1>0, <1>1 DEF TypeOK
      <3> QED
        BY <3>1, <3>2 DEF Owners
    <2>6. ChannelInv(p, t)'
      <3> HIDE DEF P, m
      <3>1. P + 1 > 0 /\ P + 1 >= 0
        BY <2>1
      <3> QED
        BY <1>1, <1>2, <2>2, <2>3, <2>4, <2>5, <3>1 DEF ChannelInv
    <2>7. job'[p][m] = "begin"
      BY <1>0, <1>1 DEF TypeOK
    <2>8. ASSUME NEW i \in 1..P + 1
          PROVE  \/ Worked(unacked[p][t][i])'
                 \/ job'[p][unacked[p][t][i]] \in {"begin", "handle"}
      <3>1. CASE i = P + 1
        BY <2>3, <2>7, <3>1
      <3>2. CASE i # P + 1
        <4>1. i \in 1..P
          <5> HIDE DEF P
          <5> QED
            BY <2>1, <3>2
        <4>2. \/ Worked(unacked[p][t][i])
              \/ job[p][unacked[p][t][i]] \in {"begin", "handle"}
          BY <1>0, <4>1 DEF PassedWorked
        <4>3. unacked[p][t][i] \in Msgs
          <5> DEFINE a == Len(unacked[p][t])
          <5>1. a \in Nat /\ P <= a
            BY <1>0, SeqTypes
          <5> HIDE DEF a, P
          <5>2. i \in 1..a
            BY <2>1, <4>1, <5>1
          <5> QED
            BY <1>0, <5>2, SeqTypes DEF a
        <4> QED
          BY <1>0, <1>1, <2>7, <4>2, <4>3, WorkedGrows DEF TypeOK
      <3> QED
        BY <3>1, <3>2
    <2> QED
      BY <1>1, <2>2, <2>6, <2>8 DEF PassedWorked
  <1> QED
    BY <1>4, <1>5

\* After an acknowledgement nothing that was passed on is unsettled.
LEMMA AckOrder ==
  ASSUME IInv, OrderInv, NEW p \in Pods, NEW m \in Msgs, AutoAck(p, m),
         NEW t \in Topics, SettlesPassed(p, t)
  PROVE  ChannelInv(p, t)' /\ PassedWorked(p, t)'
  <1> DEFINE P == Passed(p, t)
             H == InHand(p, t)
             a == Len(unacked[p][t])
             b == Len(inbox[p][t])
  <1>0. TypeOK /\ ChannelInv(p, t)
    BY DEF IInv, OrderInv, SettlesPassed
  <1>1. UNCHANGED <<cur, inbox>> /\ job' = [job EXCEPT ![p][m] = "unlock"]
    BY DEF AutoAck, Step, serveVars
  <1>2. /\ P \in 1..a /\ a \in Nat /\ b \in Nat /\ H \in {0, 1}
        /\ P + H + b = a /\ P \in Int
    BY <1>0, SeqTypes DEF SettlesPassed
  <1>3. H' = H
    BY <1>1 DEF InHand
  <1>4. Len(unacked'[p][t]) = a - P
    BY DEF SettlesPassed
  <1>5. Passed(p, t)' = 0
    <2>1. Passed(p, t)' = (a - P) - b - H
      BY <1>1, <1>3, <1>4 DEF Passed
    <2> HIDE DEF P, H, a, b
    <2> QED
      BY <1>2, <2>1
  <1>6. ASSUME NEW i \in 1..H + b
        PROVE  unacked'[p][t][i] = unacked[p][t][P + i]
    <2>1. i \in 1..a - P
      <3> HIDE DEF P, H, a, b
      <3> QED
        BY <1>2
    <2> QED
      BY <1>4, <2>1 DEF SettlesPassed
  <1>7. ASSUME NEW i \in 1..b
        PROVE  inbox'[p][t][i] = unacked'[p][t][0 + H + i]
    <2>1. inbox[p][t][i] = unacked[p][t][P + H + i]
      BY <1>0 DEF ChannelInv
    <2> HIDE DEF P, H, a, b
    <2>2. H + i \in 1..H + b /\ P + (H + i) = P + H + i /\ 0 + H + i = H + i
      BY <1>2
    <2>3. unacked'[p][t][H + i] = unacked[p][t][P + (H + i)]
      BY <1>6, <2>2
    <2> QED
      BY <1>1, <2>1, <2>2, <2>3
  <1>8. H = 1 => cur'[p] = unacked'[p][t][0 + 1]
    <2>1. H = 1 => cur[p] = unacked[p][t][P + 1]
      BY <1>0 DEF ChannelInv
    <2> HIDE DEF P, H, a, b
    <2>2. H = 1 => 1 \in 1..H + b
      BY <1>2
    <2>3. H = 1 => unacked'[p][t][1] = unacked[p][t][P + 1]
      BY <1>6, <2>2
    <2> QED
      BY <1>1, <2>1, <2>3
  <1>9. ASSUME NEW n \in Msgs, TopicOf[n] = t, job'[p][n] # "none"
        PROVE  n \in acked'
    <2>1. job[p][n] # "none"
      BY <1>0, <1>1, <1>9 DEF TypeOK, AutoAck, Step
    <2>2. n \in acked \/ n = unacked[p][t][P]
      BY <1>0, <1>9, <2>1 DEF ChannelInv
    <2>3. P \in 1..P
      <3> HIDE DEF P
      <3> QED
        BY <1>2
    <2> QED
      BY <2>2, <2>3 DEF SettlesPassed
  <1>10. ChannelInv(p, t)'
    <2> HIDE DEF P, a
    <2> QED
      BY <1>1, <1>3, <1>5, <1>7, <1>8, <1>9 DEF ChannelInv
  <1>11. PassedWorked(p, t)'
    BY <1>5 DEF PassedWorked
  <1> QED
    BY <1>10, <1>11

\* A dispatch adds the last of the unsettled and the last of the waiting.
LEMMA DispatchOrder ==
  ASSUME IInv, OrderInv, NEW p \in Pods, NEW m \in Msgs, Dispatch(p, m),
         NEW t, t = TopicOf[m]
  PROVE  ChannelInv(p, t)' /\ PassedWorked(p, t)'
  <1> DEFINE P == Passed(p, t)
             H == InHand(p, t)
             a == Len(unacked[p][t])
             b == Len(inbox[p][t])
  <1>1. /\ t \in Topics /\ conn[p]
        /\ UNCHANGED <<conn, acked, cur, job, serve>>
        /\ Len(unacked'[p][t]) = a + 1
        /\ \A i \in 1..a : unacked'[p][t][i] = unacked[p][t][i]
        /\ unacked'[p][t][a + 1] = m
        /\ Len(inbox'[p][t]) = b + 1
        /\ \A i \in 1..b : inbox'[p][t][i] = inbox[p][t][i]
        /\ inbox'[p][t][b + 1] = m
    <2>1. TypeOK
      BY DEF IInv
    <2>2. Appends(p, t, m)
      BY <2>1, DispatchFacts
    <2> QED
      BY <2>2 DEF Appends
  <1>0. TypeOK /\ ChannelInv(p, t) /\ PassedWorked(p, t)
    BY <1>1 DEF IInv, OrderInv
  <1>2. /\ a \in Nat /\ b \in Nat /\ H \in {0, 1} /\ P + H + b = a /\ P \in Int
        /\ P >= 0
    BY <1>0, <1>1, SeqTypes DEF ChannelInv
  <1>3. H' = H
    BY <1>1 DEF InHand
  <1>4. Passed(p, t)' = P
    <2>1. Passed(p, t)' = (a + 1) - (b + 1) - H
      BY <1>1, <1>3 DEF Passed
    <2> HIDE DEF P, H, a, b
    <2> QED
      BY <1>2, <2>1
  <1>5. ASSUME NEW i \in 1..b + 1
        PROVE  inbox'[p][t][i] = unacked'[p][t][P + H + i]
    <2>1. \A k \in 1..b : inbox[p][t][k] = unacked[p][t][P + H + k]
      BY <1>0 DEF ChannelInv
    <2> HIDE DEF P, H, a, b
    <2>2. CASE i = b + 1
      <3>1. P + H + i = a + 1
        BY <1>2, <2>2
      <3> QED
        BY <1>1, <2>2, <3>1
    <2>3. CASE i \in 1..b
      <3>1. P + H + i \in 1..a
        BY <1>2, <2>3
      <3> QED
        BY <1>1, <2>1, <2>3, <3>1
    <2> QED
      BY <1>2, <2>2, <2>3
  <1>6. \A i \in 1..P + H : i \in 1..a
    <2> HIDE DEF P, H, a, b
    <2> QED
      BY <1>2
  <1>7. H = 1 => cur'[p] = unacked'[p][t][P + 1]
    <2>1. H = 1 => cur[p] = unacked[p][t][P + 1]
      BY <1>0 DEF ChannelInv
    <2> HIDE DEF P, H, a, b
    <2>2. H = 1 => P + 1 \in 1..P + H
      BY <1>2
    <2> QED
      BY <1>1, <1>6, <2>1, <2>2
  <1>8. ASSUME NEW n \in Msgs, TopicOf[n] = t, job'[p][n] # "none", n \notin acked'
        PROVE  P > 0 /\ n = unacked'[p][t][P]
    <2>1. P > 0 /\ n = unacked[p][t][P]
      BY <1>0, <1>1, <1>8 DEF ChannelInv
    <2> HIDE DEF P, H, a, b
    <2>2. P \in 1..P + H
      BY <1>2, <2>1
    <2> QED
      BY <1>1, <1>6, <2>1, <2>2
  <1>9. ChannelInv(p, t)'
    <2> HIDE DEF P, a
    <2> QED
      BY <1>1, <1>2, <1>3, <1>4, <1>5, <1>7, <1>8 DEF ChannelInv
  <1>10. UNCHANGED <<begun, handled>>
    BY DEF Dispatch, workVars
  <1>11. ASSUME NEW i \in 1..P
         PROVE  \/ Worked(unacked[p][t][i])'
                \/ job'[p][unacked'[p][t][i]] \in {"begin", "handle"}
    <2>1. \/ Worked(unacked[p][t][i])
          \/ job[p][unacked[p][t][i]] \in {"begin", "handle"}
      BY <1>0 DEF PassedWorked
    <2>2. i \in 1..P + H
      <3> HIDE DEF P, H
      <3> QED
        BY <1>2
    <2>3. unacked'[p][t][i] = unacked[p][t][i]
      BY <1>1, <1>6, <2>2
    <2> QED
      BY <1>1, <1>10, <2>1, <2>3 DEF Worked, Keys
  <1> QED
    BY <1>4, <1>9, <1>11 DEF PassedWorked

\* A job leaves "begin" and "handle" only when its message was worked on.
LEMMA JobWorks ==
  ASSUME IInv, OrderInv, NEW p \in Pods, NEW m \in Msgs, JobNext(p, m), NEW n \in Msgs,
         job[p][n] \in {"begin", "handle"}
  PROVE  job'[p][n] \in {"begin", "handle"} \/ Worked(n)'
  <1>0. TypeOK /\ WorkInv
    BY DEF IInv, OrderInv
  <1>1. CASE Skip(p, m)
    <2>1. /\ Keys(m) \cap locked # {} /\ job' = [job EXCEPT ![p][m] = "done"]
          /\ UNCHANGED <<begun, handled>>
      BY <1>1 DEF Skip, Step, workVars
    <2>2. Worked(m)
      BY <1>0, <2>1 DEF WorkInv, Worked
    <2> QED
      BY <1>0, <2>1, <2>2, WorkedGrows DEF TypeOK
  <1>2. CASE Begin(p, m)
    BY <1>0, <1>2 DEF Begin, Step, TypeOK
  <1>3. CASE HandlersReturn(p, m)
    BY <1>0, <1>3 DEF HandlersReturn, Step, TypeOK, Worked
  <1>4. CASE AutoAck(p, m) \/ Unlock(p, m) \/ WgDone(p, m) \/ Release(p, m)
    BY <1>0, <1>4 DEF AutoAck, Unlock, WgDone, Release, Step, TypeOK
  <1> QED
    BY <1>1, <1>2, <1>3, <1>4 DEF JobNext

\* The topics of a connection that is still up keep their order.
LEMMA ChannelStep ==
  ASSUME IInv, OrderInv, NEW p \in Pods, PodNext(p),
         NEW q \in Pods, NEW t \in Topics, conn'[q]
  PROVE  ChannelInv(q, t)' /\ PassedWorked(q, t)'
  <1>0. TypeOK /\ CurInv /\ DownInv /\ PlaceInv
    BY DEF IInv, OrderInv
  <1>1. /\ begun \subseteq begun' /\ handled \subseteq handled'
        /\ acked \subseteq acked'
    BY HistoryGrows DEF PodNext, Next
  <1>2. CASE q # p
    <2>1. /\ cur'[q] = cur[q] /\ conn'[q] = conn[q] /\ job'[q] = job[q]
          /\ inbox'[q] = inbox[q] /\ unacked'[q] = unacked[q]
      BY <1>0, <1>2, OtherPods
    <2>2. ChannelInv(q, t) /\ PassedWorked(q, t)
      BY <2>1 DEF OrderInv
    <2>3. InHand(q, t)' = InHand(q, t) /\ Passed(q, t)' = Passed(q, t)
      BY <2>1 DEF InHand, Passed
    <2>4. ChannelInv(q, t)'
      BY <1>1, <2>1, <2>2, <2>3, ChannelFrame
    <2>5. PassedWorked(q, t)'
      BY <1>0, <1>1, <2>1, <2>2, <2>3, PassedFrame
    <2> QED
      BY <2>4, <2>5
  <1>3. CASE q = p /\ Start(p)
    <2>1. /\ serve[p] = "down" /\ UNCHANGED <<cur, inbox, unacked, job>>
      BY <1>3 DEF Start, brokerVars, jobVars
    <2>2. /\ cur[p] \notin Msgs /\ unacked[p][t] = <<>> /\ inbox[p][t] = <<>>
          /\ \A m \in Msgs : job[p][m] = "none"
      BY <1>0, <2>1, MsgsAssumption DEF CurInv, DownInv, PlaceInv
    <2>3. InHand(p, t)' = 0
      BY <2>1, <2>2 DEF InHand
    <2>4. Len(<<>>) = 0
      BY EmptySeq
    <2>5. Passed(p, t)' = 0
      BY <2>1, <2>2, <2>3, <2>4 DEF Passed
    <2> QED
      BY <1>3, <2>1, <2>2, <2>3, <2>4, <2>5 DEF ChannelInv, PassedWorked
  <1>4. ASSUME q = p, conn[p],
               UNCHANGED <<cur, inbox>>,
               unacked'[p][t] = unacked[p][t],
               \A m \in Msgs : job'[p][m] # "none" => job[p][m] # "none",
               \A m \in Msgs : job[p][m] \in {"begin", "handle"} =>
                  job'[p][m] \in {"begin", "handle"} \/ Worked(m)'
        PROVE  ChannelInv(q, t)' /\ PassedWorked(q, t)'
    <2>1. ChannelInv(q, t) /\ PassedWorked(q, t)
      BY <1>4 DEF OrderInv
    <2>2. InHand(q, t)' = InHand(q, t) /\ Passed(q, t)' = Passed(q, t)
      BY <1>4 DEF InHand, Passed
    <2>3. ChannelInv(q, t)'
      BY <1>1, <1>4, <2>1, <2>2, ChannelFrame
    <2>4. PassedWorked(q, t)'
      BY <1>0, <1>1, <1>4, <2>1, <2>2, PassedFrame
    <2> QED
      BY <2>3, <2>4
  <1>5. ASSUME q = p,
               \/ Poll(p) \/ SelectClosed(p) \/ Acquire(p) \/ CheckShutdown(p)
               \/ StopNext(p)
        PROVE  ChannelInv(q, t)' /\ PassedWorked(q, t)'
    <2>1. UNCHANGED <<cur, inbox, unacked, job, conn>>
      BY <1>5 DEF Poll, SelectClosed, Acquire, CheckShutdown, StopNext, SendToken,
                  SetFlag, Wait, WaitDone, brokerVars, jobVars, serveVars
    <2> QED
      BY <1>4, <1>5, <2>1
  <1>6. ASSUME q = p, NEW u \in Topics, Select(p, u)
        PROVE  ChannelInv(q, t)' /\ PassedWorked(q, t)'
    BY <1>6, SelectOrder DEF Select
  <1>7. ASSUME q = p, Spawn(p) PROVE ChannelInv(q, t)' /\ PassedWorked(q, t)'
    BY <1>7, SpawnOrder DEF Spawn
  <1>8. ASSUME q = p, NEW m \in Msgs, JobNext(p, m)
        PROVE  ChannelInv(q, t)' /\ PassedWorked(q, t)'
    <2>1. UNCHANGED <<cur, inbox, conn>>
      BY <1>8 DEF JobNext, Skip, Begin, HandlersReturn, AutoAck, Unlock, WgDone,
                  Release, serveVars
    <2>2. \A n \in Msgs : job'[p][n] # "none" => job[p][n] # "none"
      <3>1. \E to \in JobStates : /\ job[p][m] # "none"
                                  /\ job' = [job EXCEPT ![p][m] = to]
        BY <1>8, JobStepOwns DEF Release, Step, JobStates
      <3> QED
        BY <1>0, <3>1 DEF TypeOK
    <2>3. \A n \in Msgs : job[p][n] \in {"begin", "handle"} =>
             job'[p][n] \in {"begin", "handle"} \/ Worked(n)'
      BY <1>8, JobWorks
    <2>4. CASE unacked'[p][t] = unacked[p][t]
      BY <1>4, <1>8, <2>1, <2>2, <2>3, <2>4
    <2>5. CASE unacked'[p][t] # unacked[p][t]
      <3>1. AutoAck(p, m)
        BY <1>8, <2>5 DEF JobNext, Skip, Begin, HandlersReturn, Unlock, WgDone,
                          Release, brokerVars
      <3>2. SettlesPassed(p, TopicOf[m])
        BY <2>5, <3>1, AckFacts
      <3>3. t = TopicOf[m]
        BY <2>5, <3>2 DEF SettlesPassed
      <3> QED
        BY <1>8, <3>1, <3>2, <3>3, AckOrder
    <2> QED
      BY <2>4, <2>5
  <1>9. ASSUME q = p, NEW m \in Msgs, Dispatch(p, m)
        PROVE  ChannelInv(q, t)' /\ PassedWorked(q, t)'
    <2>1. CASE t = TopicOf[m]
      BY <1>9, <2>1, DispatchOrder
    <2>2. CASE t # TopicOf[m]
      <3>1. Appends(p, TopicOf[m], m)
        BY <1>0, <1>9, DispatchFacts
      <3>2. /\ unacked'[p][t] = unacked[p][t] /\ inbox'[p][t] = inbox[p][t]
            /\ UNCHANGED <<conn, acked, cur, job>>
        BY <2>2, <3>1 DEF Appends
      <3>3. ChannelInv(p, t) /\ PassedWorked(p, t)
        BY <1>9, <3>2 DEF OrderInv
      <3>4. InHand(p, t)' = InHand(p, t) /\ Passed(p, t)' = Passed(p, t)
        BY <3>2 DEF InHand, Passed
      <3>5. ChannelInv(p, t)'
        BY <1>1, <3>2, <3>3, <3>4, ChannelFrame
      <3>6. PassedWorked(p, t)'
        BY <1>0, <1>1, <3>2, <3>3, <3>4, PassedFrame
      <3> QED
        BY <1>9, <3>5, <3>6
    <2> QED
      BY <2>1, <2>2
  <1>10. ASSUME q = p, Drop(p) \/ Crash(p) \/ Exit(p) PROVE FALSE
    BY <1>0, <1>10 DEF Drop, Crash, Exit, Die, TypeOK
  <1> QED
    BY <1>2, <1>3, <1>5, <1>6, <1>7, <1>8, <1>9, <1>10 DEF PodNext, ServeNext

-----------------------------------------------------------------------------
(* What was worked on *)

\* A lock is taken only by a job that begins, and a job is past its handlers only when
\* they ended.
LEMMA WorkInvStep ==
  ASSUME IInv, OrderInv, NEW p \in Pods, PodNext(p)
  PROVE  WorkInv'
  <1>0. TypeOK /\ CurInv /\ WorkInv
    BY DEF IInv, OrderInv
  <1>1. /\ begun \subseteq begun' /\ handled \subseteq handled'
    BY HistoryGrows DEF PodNext, Next
  <1>2. ASSUME locked' \subseteq locked,
               \A q \in Pods, m \in Msgs :
                  \/ job'[q][m] = job[q][m]
                  \/ job'[q][m] \in {"none", "begin"}
        PROVE  WorkInv'
    <2>1. \A k \in locked' : \E n \in begun' : k \in Keys(n)'
      BY <1>0, <1>1, <1>2 DEF WorkInv, Keys
    <2>2. \A q \in Pods, m \in Msgs : job'[q][m] \in {"ack", "unlock"} => m \in handled'
      BY <1>0, <1>1, <1>2 DEF WorkInv
    <2>3. \A q \in Pods, m \in Msgs : job'[q][m] \in {"done", "release"} => Worked(m)'
      BY <1>0, <1>1, <1>2, WorkedGrows DEF WorkInv
    <2> QED
      BY <2>1, <2>2, <2>3 DEF WorkInv
  <1>3. CASE ServeNext(p)
    <2>1. UNCHANGED locked
      BY <1>3 DEF ServeNext, Start, Poll, SelectClosed, Acquire, CheckShutdown,
                  Spawn, Select, lockVars
    <2>2. \/ UNCHANGED job
          \/ cur[p] \in Msgs /\ job' = [job EXCEPT ![p][cur[p]] = "begin"]
      BY <1>0, <1>3 DEF ServeNext, Start, Poll, SelectClosed, Acquire,
                        CheckShutdown, Spawn, Select, jobVars, CurInv
    <2>3. \A q \in Pods, m \in Msgs :
             job'[q][m] = job[q][m] \/ job'[q][m] \in {"none", "begin"}
      <3>1. CASE UNCHANGED job
        BY <3>1
      <3>2. ASSUME NEW c \in Msgs, job' = [job EXCEPT ![p][c] = "begin"],
                   NEW q \in Pods, NEW m \in Msgs
            PROVE  job'[q][m] = job[q][m] \/ job'[q][m] = "begin"
        BY <1>0, <3>2 DEF TypeOK
      <3> QED
        BY <2>2, <3>1, <3>2
    <2> QED
      BY <1>2, <2>1, <2>3
  <1>4. CASE StopNext(p) \/ Drop(p) \/ \E m \in Msgs : Dispatch(p, m)
    <2>1. UNCHANGED <<locked, job>>
      BY <1>4, OutsideUnchanged DEF Outside
    <2> QED
      BY <1>2, <2>1
  <1>5. CASE Crash(p) \/ Exit(p)
    <2>1. UNCHANGED locked /\ job' = [job EXCEPT ![p] = [m \in Msgs |-> "none"]]
      BY <1>5 DEF Crash, Exit, Die
    <2>2. \A q \in Pods, m \in Msgs :
             job'[q][m] = job[q][m] \/ job'[q][m] \in {"none", "begin"}
      BY <1>0, <2>1 DEF TypeOK
    <2> QED
      BY <1>2, <2>1, <2>2
  <1>6. ASSUME NEW m \in Msgs, JobNext(p, m) PROVE WorkInv'
    <2>1. \A k \in locked' : \E n \in begun' : k \in Keys(n)'
      <3>1. \/ locked' \subseteq locked
            \/ locked' = locked \cup Keys(m) /\ m \in begun'
        BY <1>6 DEF JobNext, Skip, Begin, HandlersReturn, AutoAck, Unlock, WgDone,
                    Release, lockVars
      <3> QED
        BY <1>0, <1>1, <3>1 DEF WorkInv, Keys
    <2>2. \A q \in Pods, n \in Msgs : <<q, n>> # <<p, m>> => job'[q][n] = job[q][n]
      BY <1>0, <1>6 DEF JobNext, Skip, Begin, HandlersReturn, AutoAck, Unlock,
                        WgDone, Release, Step, TypeOK
    <2>3. job'[p][m] \in {"ack", "unlock"} => m \in handled'
      BY <1>0, <1>1, <1>6 DEF JobNext, Skip, Begin, HandlersReturn, AutoAck, Unlock,
                        WgDone, Release, Step, TypeOK, WorkInv
    <2>4. job'[p][m] \in {"done", "release"} => Worked(m)'
      <3>1. CASE job[p][m] = "begin"
        BY <1>0, <1>6, <3>1, JobWorks
      <3>2. CASE job[p][m] # "begin" /\ job'[p][m] \in {"done", "release"}
        <4>1. job[p][m] \in {"unlock", "done"}
          BY <1>0, <1>6, <3>2 DEF JobNext, Skip, Begin, HandlersReturn, AutoAck,
                        Unlock, WgDone, Release, Step, TypeOK
        <4>2. Worked(m)
          BY <1>0, <4>1 DEF WorkInv, Worked
        <4> QED
          BY <1>1, <4>2, WorkedGrows
      <3> QED
        BY <3>1, <3>2
    <2>5. \A q \in Pods, n \in Msgs : job'[q][n] \in {"ack", "unlock"} => n \in handled'
      BY <1>0, <1>1, <2>2, <2>3 DEF WorkInv
    <2>6. \A q \in Pods, n \in Msgs : job'[q][n] \in {"done", "release"} => Worked(n)'
      BY <1>0, <1>1, <2>2, <2>4, WorkedGrows DEF WorkInv
    <2> QED
      BY <2>1, <2>5, <2>6 DEF WorkInv
  <1> QED
    BY <1>3, <1>4, <1>5, <1>6 DEF PodNext

\* What an acknowledgement settles was worked on, as all of it was passed on.
LEMMA AckedStep ==
  ASSUME IInv, OrderInv, NEW p \in Pods, PodNext(p)
  PROVE  AckedWasWorked'
  <1>0. TypeOK /\ SlotInv /\ WorkInv /\ AckedWasWorked
    BY DEF IInv, OrderInv
  <1>1. /\ begun \subseteq begun' /\ handled \subseteq handled'
    BY HistoryGrows DEF PodNext, Next
  <1>2. \A m \in acked : Worked(m)
    BY <1>0 DEF AckedWasWorked, Worked
  <1>3. acked \subseteq Msgs
    BY <1>0 DEF TypeOK
  <1>4. CASE UNCHANGED acked
    BY <1>1, <1>2, <1>3, <1>4, WorkedGrows DEF AckedWasWorked, Worked
  <1>5. ASSUME NEW m \in Msgs, AutoAck(p, m), ~ UNCHANGED acked
        PROVE  AckedWasWorked'
    <2> DEFINE t == TopicOf[m]
               P == Passed(p, t)
    <2>1. SettlesPassed(p, t)
      BY <1>5, AckFacts
    <2>2. t \in Topics /\ job[p][m] = "ack" /\ Owners(p, t) = {m}
      BY <1>0, <1>5, TopicAssumption DEF AutoAck, Step, SlotInv, Owners
    <2>3. Worked(m)
      BY <1>0, <2>2 DEF WorkInv, Worked
    <2>4. ASSUME NEW i \in 1..P
          PROVE  unacked[p][t][i] \in Msgs /\ Worked(unacked[p][t][i])
      <3> DEFINE n == unacked[p][t][i]
      <3>1. i \in 1..Len(unacked[p][t])
        <4> DEFINE a == Len(unacked[p][t])
        <4>1. a \in Nat /\ P \in 1..a
          BY <1>0, <2>1, <2>2, SeqTypes DEF SettlesPassed
        <4> HIDE DEF a, P
        <4>2. i \in 1..a
          BY <4>1
        <4> QED
          BY <4>2 DEF a
      <3>2. n \in Msgs /\ TopicOf[n] = t
        BY <1>0, <2>2, <3>1, SeqTypes DEF OrderInv, PlaceInv
      <3>3. Worked(n) \/ job[p][n] \in {"begin", "handle"}
        BY <2>1, <2>2 DEF OrderInv, PassedWorked, SettlesPassed
      <3>4. job[p][n] \in {"begin", "handle"} => n = m
        BY <2>2, <3>2 DEF Owners
      <3> QED
        BY <2>2, <2>3, <3>2, <3>3, <3>4
    <2>5. acked' = acked \cup {unacked[p][t][i] : i \in 1..P}
      BY <2>1 DEF SettlesPassed
    <2>6. \A n \in acked' : n \in Msgs /\ Worked(n)
      BY <1>2, <1>3, <2>4, <2>5
    <2>7. \A n \in acked' : Worked(n)'
      BY <1>1, <2>6, WorkedGrows
    <2> QED
      BY <2>7 DEF AckedWasWorked, Worked
  <1>6. UNCHANGED acked \/ \E m \in Msgs : AutoAck(p, m)
    BY BrokerUnchanged DEF Start, Drop, Crash, Exit, Die, Dispatch, brokerVars
  <1> QED
    BY <1>4, <1>5, <1>6

\* A process that ends leaves nothing of its own behind but locks.
LEMMA DownInvStep ==
  ASSUME IInv, OrderInv, NEW p \in Pods, PodNext(p)
  PROVE  DownInv'
  <1>0. TypeOK /\ DownInv
    BY DEF IInv, OrderInv
  <1>1. ASSUME NEW q \in Pods, q # p, serve'[q] = "down"
        PROVE  /\ ~ conn'[q]
               /\ \A t \in Topics : inbox'[q][t] = <<>>
               /\ \A m \in Msgs : job'[q][m] = "none"
    BY <1>0, <1>1, OtherPods DEF DownInv
  <1>2. ASSUME serve'[p] = "down"
        PROVE  /\ ~ conn'[p]
               /\ \A t \in Topics : inbox'[p][t] = <<>>
               /\ \A m \in Msgs : job'[p][m] = "none"
    <2>1. CASE Crash(p) \/ Exit(p)
      BY <1>0, <2>1 DEF Crash, Exit, Die, TypeOK
    <2>2. CASE ServeNext(p)
      BY <1>0, <1>2, <2>2 DEF ServeNext, Start, Poll, SelectClosed, Acquire,
                    CheckShutdown, Spawn, Select, Goto, TypeOK
    <2>3. ASSUME NEW m \in Msgs, JobNext(p, m) PROVE FALSE
      <3>1. serve[p] = "down"
        BY <1>2, <2>3, JobStepUnchanged DEF Release, serveVars
      <3>2. job[p][m] # "none"
        BY <2>3, JobStepOwns DEF Release, Step
      <3> QED
        BY <1>0, <3>1, <3>2 DEF DownInv
    <2>4. CASE Drop(p) \/ \E m \in Msgs : Dispatch(p, m)
      BY <1>0, <1>2, <2>4 DEF Drop, Dispatch, serveVars, DownInv
    <2>5. CASE StopNext(p)
      BY <1>0, <1>2, <2>5 DEF StopNext, SendToken, SetFlag, Wait, WaitDone, serveVars,
                              jobVars, DownInv
    <2> QED
      BY <2>1, <2>2, <2>3, <2>4, <2>5 DEF PodNext
  <1> QED
    BY <1>1, <1>2 DEF DownInv

-----------------------------------------------------------------------------
(* The theorems *)

\* Nothing is in flight at first.
LEMMA InitOrder == Init => OrderInv
  <1> SUFFICES ASSUME Init PROVE OrderInv
    OBVIOUS
  <1>1. DownInv
    BY DEF Init, DownInv
  <1>2. PlaceInv
    <2>1. Len(<<>>) = 0
      BY EmptySeq
    <2> QED
      BY <2>1 DEF Init, PlaceInv
  <1>3. \A p \in Pods : ~ conn[p]
    BY DEF Init
  <1>4. WorkInv
    BY DEF Init, WorkInv
  <1>5. AckedWasWorked
    BY DEF Init, AckedWasWorked
  <1> QED
    BY <1>1, <1>2, <1>3, <1>4, <1>5 DEF OrderInv

\* A stutter keeps the invariant.
LEMMA StutterOrder == OrderInv /\ UNCHANGED vars => OrderInv'
  <1> SUFFICES ASSUME OrderInv, UNCHANGED vars PROVE OrderInv'
    OBVIOUS
  <1>1. UNCHANGED <<serve, cur, inbox, conn, job, locked, queue, unacked, begun,
                    handled, acked>>
    BY DEF vars, serveVars, jobVars, lockVars, brokerVars, workVars
  <1>2. DownInv'
    BY <1>1 DEF OrderInv, DownInv
  <1>3. PlaceInv'
    BY <1>1 DEF OrderInv, PlaceInv
  <1>4. \A p \in Pods, t \in Topics :
           Passed(p, t)' = Passed(p, t) /\ InHand(p, t)' = InHand(p, t)
    BY <1>1 DEF Passed, InHand
  <1>5. \A p \in Pods, t \in Topics : ChannelInv(p, t)' <=> ChannelInv(p, t)
    BY <1>1, <1>4 DEF ChannelInv
  <1>6. \A p \in Pods, t \in Topics : PassedWorked(p, t)' <=> PassedWorked(p, t)
    BY <1>1, <1>4 DEF PassedWorked, Worked, Keys
  <1>7. WorkInv' /\ AckedWasWorked'
    BY <1>1 DEF OrderInv, WorkInv, AckedWasWorked, Worked, Keys
  <1> QED
    BY <1>1, <1>2, <1>3, <1>5, <1>6, <1>7 DEF OrderInv

\* Every step keeps the invariant of order.
LEMMA OrderStep == IInv /\ OrderInv /\ [Next]_vars => OrderInv'
  <1> SUFFICES ASSUME IInv, OrderInv, [Next]_vars PROVE OrderInv'
    OBVIOUS
  <1>1. ASSUME NEW p \in Pods, PodNext(p) PROVE OrderInv'
    BY <1>1, DownInvStep, PlaceInvStep, ChannelStep, WorkInvStep, AckedStep
       DEF OrderInv
  <1>2. (\E p \in Pods : PodNext(p)) \/ UNCHANGED vars
    BY DEF PodNext, Next
  <1> QED
    BY <1>1, <1>2, StutterOrder

\* What the order of the messages rests on holds in every reachable state.
THEOREM OrderInductive == Spec => []OrderInv
  <1> QED
    BY InitOrder, OrderStep, Inductive, PTL DEF Spec

\* While the connection is up the messages of a topic reach their jobs one at a
\* time and in the order of the broker.
THEOREM OrderKept == Spec => []TopicOrder
  <1>1. IInv /\ OrderInv => TopicOrder
    <2> SUFFICES ASSUME IInv, OrderInv, NEW p \in Pods, NEW t \in Topics, conn[p],
                        NEW i \in 1..Len(unacked[p][t]),
                        NEW j \in 1..Len(unacked[p][t]), i < j,
                        job[p][unacked[p][t][j]] # "none"
                 PROVE  /\ job[p][unacked[p][t][i]] = "none"
                        /\ unacked[p][t][i] \notin Waiting(p, t)
      BY DEF TopicOrder
    <2> DEFINE m == unacked[p][t][i]
               n == unacked[p][t][j]
               P == Passed(p, t)
    <2>1. TypeOK /\ SlotInv /\ PlaceInv /\ ChannelInv(p, t)
      BY DEF IInv, OrderInv
    <2>2. /\ m \in Msgs /\ TopicOf[m] = t
          /\ n \in Msgs /\ TopicOf[n] = t /\ n \notin acked
      BY <2>1, SeqTypes DEF PlaceInv
    <2>3. /\ P \in Int /\ P <= Len(unacked[p][t])
          /\ P + InHand(p, t) + Len(inbox[p][t]) = Len(unacked[p][t])
          /\ InHand(p, t) \in {0, 1}
          /\ Len(unacked[p][t]) \in Nat /\ Len(inbox[p][t]) \in Nat
      BY <2>1, SeqTypes
    <2>4. P > 0 /\ n = unacked[p][t][P]
      BY <2>1, <2>2 DEF ChannelInv
    <2>5. P \in 1..Len(unacked[p][t])
      <3> HIDE DEF P
      <3> QED
        BY <2>3, <2>4
    <2>6. j = P
      BY <2>1, <2>4, <2>5 DEF PlaceInv
    <2>7. m # n
      BY <2>1 DEF PlaceInv
    <2>8. job[p][m] = "none"
      BY <2>1, <2>2, <2>7 DEF SlotInv, Owners
    <2>9. ASSUME NEW k \in 1..Len(unacked[p][t]), k > P PROVE m # unacked[p][t][k]
      <3>1. i # k
        <4> HIDE DEF P
        <4> QED
          BY <2>3, <2>6, <2>9
      <3> QED
        BY <2>1, <3>1 DEF PlaceInv
    <2>10. m # cur[p]
      <3> SUFFICES ASSUME m = cur[p] PROVE FALSE
        OBVIOUS
      <3>1. InHand(p, t) = 1
        BY <2>2 DEF InHand, Dest
      <3>2. cur[p] = unacked[p][t][P + 1]
        BY <2>1, <3>1 DEF ChannelInv
      <3>3. P + 1 \in 1..Len(unacked[p][t]) /\ P + 1 > P
        <4> DEFINE a == Len(unacked[p][t])
                   b == Len(inbox[p][t])
        <4>1. P > 0 /\ P \in Int /\ P + 1 + b = a /\ b \in Nat /\ a \in Nat
          BY <2>3, <2>4, <3>1
        <4> HIDE DEF a, b, P
        <4>2. P + 1 \in 1..a /\ P + 1 > P
          BY <4>1
        <4> QED
          BY <4>2 DEF a
      <3> QED
        BY <2>9, <3>2, <3>3
    <2>11. ASSUME NEW k \in 1..Len(inbox[p][t]) PROVE m # inbox[p][t][k]
      <3> DEFINE a == Len(unacked[p][t])
                 b == Len(inbox[p][t])
                 H == InHand(p, t)
      <3>1. inbox[p][t][k] = unacked[p][t][P + H + k]
        BY <2>1 DEF ChannelInv
      <3>2. P > 0 /\ P \in Int /\ P + H + b = a /\ b \in Nat /\ a \in Nat /\ H \in {0, 1}
        BY <2>3, <2>4
      <3>3. k \in 1..b
        OBVIOUS
      <3> HIDE DEF a, b, P, H
      <3>4. P + H + k \in 1..a /\ P + H + k > P
        BY <3>2, <3>3
      <3> QED
        BY <2>9, <3>1, <3>4 DEF a
    <2>12. Range(inbox[p][t]) = {inbox[p][t][k] : k \in 1..Len(inbox[p][t])}
      BY <2>1, SeqTypes, RangeEquality
    <2> QED
      BY <2>8, <2>10, <2>11, <2>12 DEF Waiting
  <1> QED
    BY <1>1, Inductive, OrderInductive, PTL

\* The broker drops a message for good only after somebody worked on it, although
\* an acknowledgement settles every message before its own.
THEOREM AckedSafe == Spec => []AckedWasWorked
  <1>1. OrderInv => AckedWasWorked
    BY DEF OrderInv
  <1> QED
    BY <1>1, OrderInductive, PTL

-----------------------------------------------------------------------------
(* The refinement *)

\* What the abstract consumer sees: who is working on what.
Held == {h \in Pods \X Msgs : h[2] \in Holding(h[1])}

\* A pod holds the messages of its jobs from Begin to Unlock.
LEMMA HeldPairs ==
  ASSUME NEW p \in Pods, NEW m \in Msgs
  PROVE  /\ <<p, m>> \in Held <=> job[p][m] \in {"handle", "ack", "unlock"}
         /\ (<<p, m>> \in Held)' <=> job'[p][m] \in {"handle", "ack", "unlock"}
  BY DEF Held, Holding

\* A job whose state changes while it holds, or does not hold, its lock.
LEMMA SameHeld ==
  ASSUME TypeOK, \A q \in Pods : Holding(q)' = Holding(q)
  PROVE  UNCHANGED Held
  BY DEF Held

\* Begin takes a message nobody conflicts with: the slot of the topic excludes the
\* jobs of the pod, the lock those of the others.
LEMMA BeginTakes ==
  ASSUME IInv, NEW p \in Pods, NEW m \in Msgs, Begin(p, m)
  PROVE  Consumer!Take(p, m)
  <1>0. TypeOK /\ SlotInv /\ LockInv
    BY DEF IInv
  <1>1. /\ job[p][m] = "begin" /\ job' = [job EXCEPT ![p][m] = "handle"]
        /\ Keys(m) \cap locked = {}
        /\ begun' = begun \cup {m} /\ UNCHANGED <<handled, acked>>
    BY DEF Begin, Step, brokerVars
  <1>2. \A q \in Pods : \A n \in Holding(q) : Keys(n) \subseteq locked
    BY <1>0 DEF LockInv, LocksAccounted
  <1>3. ASSUME NEW h \in Held
        PROVE  ~ Consumer!Conflict(p, m, h[1], h[2])
    <2>1. /\ h[1] \in Pods /\ h[2] \in Msgs /\ h[2] \in Holding(h[1])
          /\ job[h[1]][h[2]] \in {"handle", "ack", "unlock"}
      BY DEF Held, Holding
    <2>2. Keys(m) \cap Keys(h[2]) = {}
      BY <1>1, <1>2, <2>1
    <2>3. ~ (p = h[1] /\ TopicOf[m] = TopicOf[h[2]])
      <3> SUFFICES ASSUME p = h[1], TopicOf[m] = TopicOf[h[2]] PROVE FALSE
        OBVIOUS
      <3>1. TopicOf[m] \in Topics
        BY TopicAssumption
      <3>2. m \in Owners(p, TopicOf[m]) /\ h[2] \in Owners(p, TopicOf[m])
        BY <1>1, <2>1 DEF Owners
      <3>3. m = h[2]
        BY <1>0, <3>1, <3>2 DEF SlotInv
      <3> QED
        BY <1>1, <2>1, <3>3
    <2> QED
      BY <2>1, <2>2, <2>3 DEF Consumer!Conflict
  <1>4. Held' = Held \cup {<<p, m>>}
    <2>1. \A q \in Pods, n \in Msgs :
             n \in Holding(q)' <=> n \in Holding(q) \/ (q = p /\ n = m)
      BY <1>0, <1>1 DEF Holding, TypeOK
    <2> QED
      BY <2>1 DEF Held
  <1> QED
    BY <1>1, <1>3, <1>4 DEF Consumer!Take, Held

\* Every step of the worker is a step of the abstract consumer, or none.
LEMMA ConsumerStep ==
  IInv /\ OrderInv /\ OrderInv' /\ [Next]_vars
     => [Consumer!Next]_(Consumer!vars)
  <1> SUFFICES ASSUME IInv, OrderInv, OrderInv', [Next]_vars
               PROVE  [Consumer!Next]_(Consumer!vars)
    OBVIOUS
  <1>0. TypeOK /\ CurInv
    BY DEF IInv
  <1>1. ASSUME UNCHANGED <<begun, handled, acked>>,
               \A q \in Pods : Holding(q)' = Holding(q)
        PROVE  UNCHANGED Consumer!vars
    BY <1>0, <1>1, SameHeld DEF Consumer!vars, Held
  <1>2. ASSUME NEW p \in Pods, ServeNext(p) PROVE UNCHANGED Consumer!vars
    <2>1. UNCHANGED <<begun, handled, acked>>
      BY <1>2 DEF ServeNext, Start, Poll, SelectClosed, Acquire, CheckShutdown,
                  Spawn, Select, brokerVars, workVars
    <2>2. \/ UNCHANGED job
          \/ /\ cur[p] \in Msgs /\ job[p][cur[p]] = "none"
             /\ job' = [job EXCEPT ![p][cur[p]] = "begin"]
      BY <1>0, <1>2 DEF ServeNext, Start, Poll, SelectClosed, Acquire,
                        CheckShutdown, Spawn, Select, jobVars, CurInv
    <2>3. \A q \in Pods : Holding(q)' = Holding(q)
      <3>1. CASE UNCHANGED job
        BY <3>1 DEF Holding
      <3>2. ASSUME NEW c \in Msgs, job[p][c] = "none",
                   job' = [job EXCEPT ![p][c] = "begin"]
            PROVE  \A q \in Pods : Holding(q)' = Holding(q)
        BY <1>0, <3>2 DEF Holding, TypeOK
      <3> QED
        BY <2>2, <3>1, <3>2
    <2> QED
      BY <1>1, <2>1, <2>3
  <1>3. ASSUME NEW p \in Pods, NEW m \in Msgs,
               Skip(p, m) \/ WgDone(p, m) \/ Release(p, m)
        PROVE  UNCHANGED Consumer!vars
    <2>1. UNCHANGED <<begun, handled, acked>>
      BY <1>3 DEF Skip, WgDone, Release, brokerVars, workVars
    <2>2. \E to \in {"done", "release", "none"} :
             /\ job[p][m] \in {"begin", "done", "release"}
             /\ job' = [job EXCEPT ![p][m] = to]
      BY <1>3 DEF Skip, WgDone, Release, Step
    <2>3. \A q \in Pods : Holding(q)' = Holding(q)
      BY <1>0, <2>2 DEF Holding, TypeOK
    <2> QED
      BY <1>1, <2>1, <2>3
  <1>4. ASSUME NEW p \in Pods, NEW m \in Msgs, Begin(p, m) PROVE Consumer!Next
    BY <1>4, BeginTakes DEF Consumer!Next
  <1>5. ASSUME NEW p \in Pods, NEW m \in Msgs, HandlersReturn(p, m)
        PROVE  Consumer!Finish(p, m)
    <2>1. /\ job[p][m] = "handle" /\ job' = [job EXCEPT ![p][m] = "ack"]
          /\ handled' = handled \cup {m} /\ UNCHANGED <<begun, acked>>
      BY <1>5 DEF HandlersReturn, Step, brokerVars
    <2>2. \A q \in Pods : Holding(q)' = Holding(q)
      BY <1>0, <2>1 DEF Holding, TypeOK
    <2>3. <<p, m>> \in Held
      BY <2>1, HeldPairs
    <2> QED
      BY <1>0, <2>1, <2>2, <2>3, SameHeld DEF Consumer!Finish, Held
  <1>6. ASSUME NEW p \in Pods, NEW m \in Msgs, AutoAck(p, m)
        PROVE  Consumer!Settle(p, m)
    <2>1. /\ job[p][m] = "ack" /\ job' = [job EXCEPT ![p][m] = "unlock"]
          /\ UNCHANGED <<begun, handled>>
      BY <1>6 DEF AutoAck, Step, workVars
    <2>2. \A q \in Pods : Holding(q)' = Holding(q)
      BY <1>0, <2>1 DEF Holding, TypeOK
    <2>3. <<p, m>> \in Held
      BY <2>1, HeldPairs
    <2>4. acked \subseteq acked' /\ acked' \subseteq Msgs
      <3>1. TypeOK'
        BY TypeOKStep
      <3> QED
        BY <3>1, HistoryGrows DEF TypeOK
    <2>5. \A n \in acked' \ acked : n \in {k \in Msgs : Consumer!Worked(k)}
      <3> SUFFICES ASSUME NEW n \in acked' \ acked PROVE n \in Msgs /\ Consumer!Worked(n)
        OBVIOUS
      <3>1. AckedWasWorked'
        BY DEF OrderInv
      <3>2. n \in handled \/ \E k \in begun : Keys(n) \cap Keys(k) # {}
        BY <2>1, <3>1 DEF AckedWasWorked, Keys
      <3>3. begun \subseteq Msgs /\ n \in Msgs
        BY <1>0, <2>4 DEF TypeOK
      <3> QED
        BY <3>2, <3>3 DEF Consumer!Worked
    <2>6. acked' = acked \cup (acked' \ acked)
      BY <2>4
    <2>7. \E S \in SUBSET {n \in Msgs : Consumer!Worked(n)} : acked' = acked \cup S
      <3>1. acked' \ acked \in SUBSET {n \in Msgs : Consumer!Worked(n)}
        BY <2>5
      <3> QED
        BY <2>6, <3>1
    <2> QED
      BY <1>0, <2>1, <2>2, <2>3, <2>7, SameHeld DEF Consumer!Settle, Held
  <1>7. ASSUME NEW p \in Pods, NEW m \in Msgs, Unlock(p, m)
        PROVE  Consumer!Release(p, m)
    <2>1. /\ job[p][m] = "unlock" /\ job' = [job EXCEPT ![p][m] = "done"]
          /\ UNCHANGED <<begun, handled, acked>>
      BY <1>7 DEF Unlock, Step, brokerVars, workVars
    <2>2. <<p, m>> \in Held
      BY <2>1, HeldPairs
    <2>3. \A q \in Pods, n \in Msgs :
             n \in Holding(q)' <=> n \in Holding(q) /\ <<q, n>> # <<p, m>>
      BY <1>0, <2>1 DEF Holding, TypeOK
    <2>4. Held' = Held \ {<<p, m>>}
      BY <2>3 DEF Held
    <2> QED
      BY <2>1, <2>2, <2>4 DEF Consumer!Release, Held
  <1>8. ASSUME NEW p \in Pods,
               StopNext(p) \/ Drop(p) \/ \E m \in Msgs : Dispatch(p, m)
        PROVE  UNCHANGED Consumer!vars
    <2>1. UNCHANGED <<begun, handled, acked, job>>
      BY <1>8 DEF StopNext, SendToken, SetFlag, Wait, WaitDone, Drop, Dispatch,
                  brokerVars, workVars, jobVars
    <2> QED
      BY <1>1, <2>1 DEF Holding
  <1>9. ASSUME NEW p \in Pods, Crash(p) \/ Exit(p) PROVE Consumer!Die(p)
    <2>1. /\ job' = [job EXCEPT ![p] = [m \in Msgs |-> "none"]]
          /\ UNCHANGED <<begun, handled, acked>>
      BY <1>9 DEF Crash, Exit, Die, workVars
    <2>2. \A q \in Pods : Holding(q)' = IF q = p THEN {} ELSE Holding(q)
      BY <1>0, <2>1 DEF Holding, TypeOK
    <2>3. Held' = {h \in Held : h[1] # p}
      BY <2>2 DEF Held
    <2> QED
      BY <2>1, <2>3 DEF Consumer!Die, Held
  <1>10. CASE UNCHANGED vars
    BY <1>1, <1>10 DEF vars, jobVars, brokerVars, workVars, Holding
  <1> QED
    BY <1>2, <1>3, <1>4, <1>5, <1>6, <1>7, <1>8, <1>9, <1>10
       DEF Next, JobNext, Consumer!Next

\* The STOMP worker implements the abstract consumer: conflicting jobs never run
\* side by side, and a message is settled only when somebody worked on it.
THEOREM ImplementsConsumer == Spec => ConsumerSpec
  <1>1. Init => Consumer!Init
    BY DEF Init, Consumer!Init, Holding
  <1> QED
    BY <1>1, ConsumerStep, Inductive, OrderInductive, PTL
       DEF Spec, ConsumerSpec, Consumer!Spec
-----------------------------------------------------------------------------
(* No standstill: somebody can always go on *)

\* What the actions of Serve, of a job and of the broker wait for.
CanServe(p) ==
    \/ serve[p] \in {"down", "poll", "check", "spawn"}
    \/ serve[p] = "select" /\ \E t \in Topics : inbox[p][t] # <<>> \/ ~ conn[p]
    \/ serve[p] = "acquire" /\ Dest(cur[p]) \in Topics /\ SlotFree(p, Dest(cur[p]))

CanJob(p, m) == job[p][m] # "none"

CanDispatch(p, m) ==
    conn[p] /\ m \in queue /\ Len(unacked[p][TopicOf[m]]) < Prefetch

\* PublishMessage gives every message an event of its own.
OwnEvents == \A m, n \in Msgs : Keys(m) \cap Keys(n) # {} => m = n

\* As long as nothing fails and nobody shuts down, and while a message of an AutoACK
\* topic is not acknowledged, Serve of some pod, a job or the broker can go on.
NoStandstill ==
    OwnEvents /\ Undisturbed /\ Pods # {} =>
        \A m \in Msgs \ acked :
            AutoACK[TopicOf[m]] =>
                \E p \in Pods :
                    \/ CanServe(p)
                    \/ \E n \in Msgs : CanJob(p, n) \/ CanDispatch(p, n)

\* Where a message of the window of a subscription is before it is acknowledged.
Pending(p, t, m) ==
    \/ m \in Range(inbox[p][t]) \/ cur[p] = m
    \/ job[p][m] \in {"begin", "handle", "ack"}

\* Before the first failure a pod that is up is connected, and nothing but messages
\* reaches it.
UpInv ==
    faults = 0 =>
        \A p \in Pods :
            /\ conn[p] <=> serve[p] # "down"
            /\ serve[p] = "acquire" => cur[p] \in Msgs
            /\ \A t \in Topics : inbox[p][t] \in Seq(Msgs)

\* Serve returns only after Shutdown was called.
IdleInv == \A p \in Pods : stop[p] = "idle" => serve[p] # "returned" /\ ~ flag[p]

\* No message is lost: it is with the broker, with a subscription, or acknowledged.
KeptInv ==
    \A m \in Msgs :
        \/ m \in queue \cup acked
        \/ \E p \in Pods : m \in Range(unacked[p][TopicOf[m]])

\* With events of their own and before any failure, what is not acknowledged in an
\* AutoACK topic is still on its way to the acknowledgement.
WindowInv ==
    OwnEvents /\ faults = 0 /\ leaked = {} =>
        \A p \in Pods, t \in Topics :
            AutoACK[t] => \A i \in 1..Len(unacked[p][t]) : Pending(p, t, unacked[p][t][i])

StandInv == UpInv /\ IdleInv /\ KeptInv /\ WindowInv

\* Serve of one pod, connected from its start to its end, and the steps around it.
LEMMA UpStep ==
  ASSUME IInv, UpInv, NEW p \in Pods, PodNext(p)
  PROVE  UpInv'
  <1> SUFFICES ASSUME faults' = 0, NEW q \in Pods
               PROVE  /\ conn'[q] <=> serve'[q] # "down"
                      /\ serve'[q] = "acquire" => cur'[q] \in Msgs
                      /\ \A t \in Topics : inbox'[q][t] \in Seq(Msgs)
    BY DEF UpInv
  <1>0. TypeOK
    BY DEF IInv
  <1>f. faults = 0 /\ ~ Drop(p) /\ ~ Crash(p)
    <2>1. faults \in Nat /\ faults + 1 # 0
      BY <1>0, BoundAssumption DEF TypeOK
    <2>2. ~ Drop(p) /\ ~ Crash(p)
      BY <2>1 DEF Drop, Crash
    <2>3. faults' = faults
      BY <2>2 DEF PodNext, ServeNext, Start, Poll, SelectClosed, Acquire, CheckShutdown,
         Spawn, Select, JobNext, Skip, Begin, HandlersReturn, AutoAck, Unlock, WgDone,
         Release, StopNext, SendToken, SetFlag, Wait, WaitDone, Dispatch, Exit
    <2> QED
      BY <2>2, <2>3
  <1>1. /\ conn[q] <=> serve[q] # "down"
        /\ serve[q] = "acquire" => cur[q] \in Msgs
        /\ \A t \in Topics : inbox[q][t] \in Seq(Msgs)
    BY <1>f DEF UpInv
  <1>2. CASE q # p
    BY <1>0, <1>1, <1>2, OtherPods
  <1>3. CASE q = p
    <2> USE DEF serveVars, brokerVars, Goto
    <2>1. CASE Start(p) \/ Poll(p) \/ SelectClosed(p) \/ Acquire(p) \/ CheckShutdown(p)
               \/ Spawn(p)
      BY <1>0, <1>1, <1>3, <2>1 DEF Start, Poll, SelectClosed, Acquire, CheckShutdown,
         Spawn, TypeOK
    <2>2. ASSUME NEW t \in Topics, Select(p, t)
          PROVE  /\ conn'[q] <=> serve'[q] # "down"
                 /\ serve'[q] = "acquire" => cur'[q] \in Msgs
                 /\ \A u \in Topics : inbox'[q][u] \in Seq(Msgs)
      <3>1. /\ serve[p] = "select" /\ inbox[p][t] # <<>>
            /\ cur' = [cur EXCEPT ![p] = Head(inbox[p][t])]
            /\ inbox' = [inbox EXCEPT ![p][t] = Tail(inbox[p][t])]
            /\ serve' = [serve EXCEPT ![p] = "acquire"] /\ conn' = conn
        BY <2>2 DEF Select
      <3>2. Head(inbox[p][t]) \in Msgs /\ Tail(inbox[p][t]) \in Seq(Msgs)
        BY <1>1, <1>3, <3>1, HeadTailProperties
      <3> QED
        BY <1>0, <1>1, <1>3, <3>1, <3>2 DEF TypeOK
    <2>3. ASSUME NEW m \in Msgs, JobNext(p, m)
          PROVE  UNCHANGED <<conn, serve, cur, inbox>>
      BY <2>3 DEF JobNext, Skip, Begin, HandlersReturn, AutoAck, Unlock, WgDone, Release
    <2>4. CASE StopNext(p)
      BY <1>1, <2>4 DEF StopNext, SendToken, SetFlag, Wait, WaitDone
    <2>5. ASSUME NEW m \in Msgs, Dispatch(p, m)
          PROVE  /\ conn'[q] <=> serve'[q] # "down"
                 /\ serve'[q] = "acquire" => cur'[q] \in Msgs
                 /\ \A u \in Topics : inbox'[q][u] \in Seq(Msgs)
      <3>1. /\ inbox' = [inbox EXCEPT ![p][TopicOf[m]] = Append(@, m)]
            /\ UNCHANGED <<conn, serve, cur>>
        BY <2>5 DEF Dispatch
      <3>2. TopicOf[m] \in Topics /\ Append(inbox[p][TopicOf[m]], m) \in Seq(Msgs)
        BY <1>1, <1>3, TopicAssumption, AppendProperties
      <3> QED
        BY <1>0, <1>1, <1>3, <3>1, <3>2 DEF TypeOK
    <2>6. CASE Exit(p)
      BY <1>0, <1>3, <2>6, EmptySeq DEF Exit, Die, TypeOK
    <2> QED
      BY <1>1, <1>3, <1>f, <2>1, <2>2, <2>3, <2>4, <2>5, <2>6 DEF PodNext, ServeNext
  <1> QED
    BY <1>2, <1>3

\* Serve finds a token or the flag only once Shutdown has set it.
LEMMA IdleStep ==
  ASSUME IInv, IdleInv, NEW p \in Pods, PodNext(p)
  PROVE  IdleInv'
  <1>0. TypeOK /\ \A q \in Pods : stop[q] = "idle" => token[q] = 0
    BY DEF IInv, LateInv
  <1> USE DEF serveVars, stopVars, Goto, TypeOK, IdleInv
  <1>1. CASE ServeNext(p)
    BY <1>0, <1>1 DEF ServeNext, Start, Poll, SelectClosed, Acquire, CheckShutdown, Spawn,
       Select
  <1>2. ASSUME NEW m \in Msgs, JobNext(p, m) \/ Dispatch(p, m) PROVE IdleInv'
    BY <1>2 DEF JobNext, Skip, Begin, HandlersReturn, AutoAck, Unlock, WgDone, Release,
       Dispatch
  <1>3. CASE StopNext(p) \/ Drop(p)
    BY <1>0, <1>3 DEF StopNext, SendToken, SetFlag, Wait, WaitDone, Drop
  <1>4. CASE Crash(p) \/ Exit(p)
    BY <1>0, <1>4 DEF Crash, Exit, Die
  <1> QED
    BY <1>1, <1>2, <1>3, <1>4 DEF PodNext

\* Every position of a subscription holds a message of its topic, each message at one.
LEMMA WindowPlaces ==
  ASSUME TypeOK, PlaceInv, NEW p \in Pods, NEW t \in Topics
  PROVE  \A j \in 1..Len(unacked[p][t]) :
            /\ unacked[p][t][j] \in Msgs /\ TopicOf[unacked[p][t][j]] = t
            /\ \A k \in 1..Len(unacked[p][t]) :
                  unacked[p][t][j] = unacked[p][t][k] => j = k
  <1>1. TAKE j \in 1..Len(unacked[p][t])
  <1>2. unacked[p][t][j] \in Msgs
    BY SeqTypes
  <1>3. TopicOf[unacked[p][t][j]] = t
    BY DEF PlaceInv
  <1>4. ASSUME NEW k \in 1..Len(unacked[p][t]), unacked[p][t][j] = unacked[p][t][k]
        PROVE  j = k
    BY <1>4 DEF PlaceInv
  <1> QED
    BY <1>2, <1>3, <1>4

\* A position of a subscription gives an element of its range, and the reverse.
LEMMA InWindow ==
  ASSUME TypeOK, NEW p \in Pods, NEW t \in Topics, NEW m
  PROVE  m \in Range(unacked[p][t]) <=> \E i \in 1..Len(unacked[p][t]) : m = unacked[p][t][i]
  <1>1. DOMAIN unacked[p][t] = 1..Len(unacked[p][t])
    BY LenProperties DEF TypeOK
  <1> QED
    BY <1>1 DEF Range

\* What a step takes out of a subscription is acknowledged, or back with the broker.
LEMMA KeptStep ==
  ASSUME IInv, IInv', OrderInv, KeptInv, NEW p \in Pods, PodNext(p)
  PROVE  KeptInv'
  <1> SUFFICES ASSUME NEW m \in Msgs
               PROVE  \/ m \in queue' \cup acked'
                      \/ \E q \in Pods : m \in Range(unacked'[q][TopicOf[m]])
    BY DEF KeptInv
  <1> DEFINE u == TopicOf[m]
  <1>0. TypeOK /\ TypeOK' /\ u \in Topics /\ acked \subseteq acked'
    BY TopicAssumption, HistoryGrows DEF IInv, PodNext, Next
  <1>1. CASE UNCHANGED <<conn, queue, unacked, acked>> \/ Start(p)
    BY <1>1 DEF Start, brokerVars, KeptInv
  <1>2. ASSUME NEW n \in Msgs, AutoAck(p, n)
        PROVE  \/ m \in queue' \cup acked'
               \/ \E q \in Pods : m \in Range(unacked'[q][u])
    <2> DEFINE t == TopicOf[n]
    <2>1. t \in Topics /\ queue' = queue
      BY <1>2, TopicAssumption DEF AutoAck
    <2>2. CASE UNCHANGED <<acked, unacked>>
      BY <2>1, <2>2 DEF KeptInv
    <2>3. ASSUME SettlesPassed(p, t), NEW q \in Pods, m \in Range(unacked[q][u])
          PROVE  m \in acked' \/ m \in Range(unacked'[q][u])
      <3> HIDE DEF t, u
      <3>1. CASE <<q, u>> # <<p, t>>
        BY <1>0, <2>3, <3>1 DEF SettlesPassed
      <3>2. CASE q = p /\ u = t
        <4> DEFINE k == Passed(p, t)
                   a == Len(unacked[p][t])
        <4>0. m \in Range(unacked[p][t])
          BY <2>3, <3>2
        <4>1. PICK i \in 1..a : m = unacked[p][t][i]
          BY <1>0, <2>1, <4>0, InWindow
        <4>2. /\ k \in 1..a /\ a \in Nat /\ Len(unacked'[p][t]) = a - k
              /\ acked' = acked \cup {unacked[p][t][j] : j \in 1..k}
              /\ \A j \in 1..(a - k) : unacked'[p][t][j] = unacked[p][t][k + j]
          BY <1>0, <2>1, <2>3, SeqTypes DEF SettlesPassed
        <4> HIDE DEF k, a
        <4>3. CASE i <= k
          <5>1. i \in 1..k
            BY <4>1, <4>2, <4>3
          <5> QED
            BY <4>1, <4>2, <5>1
        <4>4. CASE ~ (i <= k)
          <5>1. i - k \in 1..(a - k) /\ k + (i - k) = i
            BY <4>1, <4>2, <4>4
          <5>2. unacked'[p][t][i - k] = m
            BY <4>1, <4>2, <5>1
          <5>3. DOMAIN unacked'[p][t] = 1..Len(unacked'[p][t])
            BY <1>0, <2>1, LenProperties DEF TypeOK
          <5> QED
            BY <3>2, <4>2, <5>1, <5>2, <5>3 DEF Range
        <4> QED
          BY <4>3, <4>4
      <3> QED
        BY <3>1, <3>2
    <2>4. CASE SettlesPassed(p, t)
      BY <1>0, <2>1, <2>3, <2>4 DEF KeptInv
    <2> QED
      BY <1>2, <2>2, <2>4, AckFacts
  <1>3. ASSUME NEW n \in Msgs, Dispatch(p, n)
        PROVE  \/ m \in queue' \cup acked'
               \/ \E q \in Pods : m \in Range(unacked'[q][u])
    <2> DEFINE t == TopicOf[n]
    <2>1. Appends(p, t, n)
      BY <1>0, <1>3, DispatchFacts
    <2>2. t \in Topics /\ DOMAIN unacked'[p][t] = 1..Len(unacked'[p][t])
          /\ Len(unacked[p][t]) \in Nat
      BY <1>0, TopicAssumption, LenProperties DEF TypeOK
    <2>3. CASE m = n
      <3>1. Len(unacked[p][t]) + 1 \in DOMAIN unacked'[p][t]
        BY <2>1, <2>2 DEF Appends
      <3> QED
        BY <2>1, <2>3, <3>1 DEF Appends, Range
    <2>4. ASSUME NEW q \in Pods, m \in Range(unacked[q][u])
          PROVE  m \in Range(unacked'[q][u])
      <3> HIDE DEF t, u
      <3>1. CASE <<q, u>> # <<p, t>>
        BY <1>0, <2>1, <2>4, <3>1 DEF Appends
      <3>2. CASE q = p /\ u = t
        <4>1. PICK i \in 1..Len(unacked[p][t]) : m = unacked[p][t][i]
          BY <1>0, <2>4, <3>2, InWindow
        <4>2. i \in 1..Len(unacked[p][t]) + 1
          BY <2>2
        <4>3. i \in DOMAIN unacked'[p][t] /\ unacked'[p][t][i] = m
          BY <2>1, <2>2, <4>1, <4>2 DEF Appends
        <4> QED
          BY <3>2, <4>3 DEF Range
      <3> QED
        BY <3>1, <3>2
    <2>5. CASE m # n
      BY <2>1, <2>4, <2>5 DEF Appends, KeptInv
    <2> QED
      BY <2>3, <2>5
  <1>4. CASE Drop(p) \/ Crash(p) \/ Exit(p)
    <2>1. /\ unacked' = [unacked EXCEPT ![p] = [t \in Topics |-> <<>>]]
          /\ queue' = queue \cup InFlight(p) /\ UNCHANGED acked
      BY <1>4 DEF Drop, Crash, Exit, Die
    <2>2. \A q \in Pods : q # p => unacked'[q] = unacked[q]
      BY <1>0, <2>1 DEF TypeOK
    <2>3. m \in Range(unacked[p][u]) => m \in queue'
      BY <1>0, <2>1 DEF InFlight
    <2> QED
      BY <2>1, <2>2, <2>3 DEF KeptInv
  <1> QED
    BY <1>1, <1>2, <1>3, <1>4, BrokerUnchanged

\* Nobody holds the event of a message that is still to be worked on.
LEMMA NoSkip ==
  ASSUME IInv, OrderInv, UpInv, OwnEvents, faults = 0, leaked = {},
         NEW p \in Pods, NEW t \in Topics, NEW i \in 1..Len(unacked[p][t]),
         NEW m, m = unacked[p][t][i], job[p][m] = "begin"
  PROVE  Keys(m) \cap locked = {}
  <1> SUFFICES ASSUME NEW k, k \in Keys(m), k \in locked
               PROVE  FALSE
    OBVIOUS
  <1>0. TypeOK /\ m \in Msgs /\ LocksAccounted /\ DownInv /\ PlaceInv
    BY SeqTypes DEF IInv, LockInv, OrderInv
  <1>q. PICK q \in Pods : \E n \in Holding(q) : k \in Keys(n)
    BY <1>0 DEF LocksAccounted
  <1>1. PICK n \in Holding(q) : k \in Keys(n)
    BY <1>q
  <1>2. n = m /\ n \in Msgs
    BY <1>0, <1>1 DEF OwnEvents, Holding
  <1>3. q # p /\ job[q][m] # "none"
    BY <1>1, <1>2 DEF Holding
  <1>4. conn[q]
    BY <1>0, <1>3 DEF UpInv, DownInv
  <1> DEFINE u == TopicOf[m]
  <1>5. u \in Topics /\ m \notin acked
    BY <1>0, TopicAssumption DEF PlaceInv
  <1>6. Passed(q, u) > 0 /\ m = unacked[q][u][Passed(q, u)]
    BY <1>0, <1>3, <1>4, <1>5 DEF OrderInv, ChannelInv
  <1>7. Passed(q, u) \in 1..Len(unacked[q][u])
    BY <1>0, <1>5, <1>6, SeqTypes
  <1>8. PICK j \in 1..Len(unacked[q][u]) : unacked[q][u][j] = unacked[p][t][i]
    BY <1>6, <1>7
  <1> HIDE DEF u
  <1>9. q = p
    BY <1>0, <1>5, <1>8 DEF PlaceInv
  <1> QED
    BY <1>3, <1>9

\* A message that is acknowledged leaves the window of its subscription.
LEMMA AckLeaves ==
  ASSUME IInv, OrderInv, UpInv, faults = 0, NEW p \in Pods, NEW m \in Msgs,
         AutoAck(p, m), AutoACK[TopicOf[m]],
         NEW i \in 1..Len(unacked'[p][TopicOf[m]])
  PROVE  unacked'[p][TopicOf[m]][i] # m
  <1> DEFINE t == TopicOf[m]
             s == unacked[p][t]
  <1>0. TypeOK /\ t \in Topics /\ PlaceInv /\ job[p][m] = "ack"
    BY TopicAssumption DEF IInv, OrderInv, AutoAck, Step
  <1>1. conn[p]
    BY <1>0 DEF UpInv, OrderInv, DownInv
  <1>2. s \in Seq(Msgs) /\ Len(s) \in Nat
    BY <1>0, SeqTypes
  <1>3. CASE SettlesPassed(p, t) /\ s[Passed(p, t)] = m
    <2> DEFINE k == Passed(p, t)
               a == Len(s)
    <2>1. /\ k \in 1..a /\ a \in Nat /\ s[k] = m /\ i \in 1..(a - k)
          /\ unacked'[p][t][i] = s[k + i]
      BY <1>2, <1>3 DEF SettlesPassed
    <2>2. \A j \in 1..a : s[j] = s[k] => j = k
      BY <1>0, <2>1, WindowPlaces
    <2> HIDE DEF k, a, s, t
    <2>3. k + i \in 1..a /\ k + i # k
      BY <2>1
    <2> QED
      BY <2>1, <2>2, <2>3 DEF t
  <1>4. CASE UNCHANGED <<acked, unacked>>
    <2> SUFFICES ASSUME s[i] = m PROVE FALSE
      BY <1>4
    <2> DEFINE at == {k \in 1..Len(s) : s[k] = m}
               n == Settles(p, m)
    <2>1. i \in at
      BY <1>4
    <2>2. n = CHOOSE k \in at : TRUE
      BY <2>1 DEF Settles
    <2>3. n \in 1..Len(s)
      BY <2>1, <2>2
    <2>4. unacked' = [unacked EXCEPT ![p][t] = SubSeq(s, n + 1, Len(s))]
      BY <1>1 DEF AutoAck
    <2>5. SubSeq(s, n + 1, Len(s)) = s
      <3> DEFINE r == SubSeq(s, n + 1, Len(s))
      <3> HIDE DEF r, n, at
      <3>1. unacked' = [unacked EXCEPT ![p][t] = r]
        BY <2>4 DEF r
      <3>2. unacked'[p][t] = r
        BY <1>0, <3>1 DEF TypeOK
      <3>3. r = s
        BY <1>4, <3>2
      <3> QED
        BY <3>3 DEF r
    <2> HIDE DEF s, n, at
    <2>6. Len(SubSeq(s, n + 1, Len(s))) = Len(s) - n
      BY <1>2, <2>3
    <2> QED
      BY <1>2, <2>3, <2>5, <2>6
  <1> QED
    BY <1>3, <1>4, AckFacts

\* A message of the window of a subscription was there before, unless it is dispatched.
LEMMA WasInWindow ==
  ASSUME IInv, OrderInv, NEW p \in Pods, PodNext(p), NEW u \in Topics,
         NEW i \in 1..Len(unacked'[p][u])
  PROVE  \/ \E j \in 1..Len(unacked[p][u]) : unacked'[p][u][i] = unacked[p][u][j]
         \/ \E n \in Msgs : /\ Dispatch(p, n) /\ TopicOf[n] = u /\ unacked'[p][u][i] = n
                            /\ n \in Range(inbox'[p][u])
  <1>0. TypeOK
    BY DEF IInv
  <1>1. CASE UNCHANGED unacked \/ Start(p)
    BY <1>1 DEF Start, brokerVars
  <1>2. ASSUME NEW n \in Msgs, AutoAck(p, n)
        PROVE  \E j \in 1..Len(unacked[p][u]) : unacked'[p][u][i] = unacked[p][u][j]
    <2> DEFINE t == TopicOf[n]
    <2>1. t \in Topics
      BY TopicAssumption
    <2>2. CASE UNCHANGED <<acked, unacked>> \/ (u # t /\ SettlesPassed(p, t))
      BY <2>2 DEF SettlesPassed
    <2>3. CASE SettlesPassed(p, t) /\ u = t
      <3> DEFINE k == Passed(p, t)
                 a == Len(unacked[p][t])
      <3>1. /\ k \in 1..a /\ a \in Nat /\ i \in 1..(a - k)
            /\ unacked'[p][t][i] = unacked[p][t][k + i]
        BY <1>0, <2>1, <2>3, SeqTypes DEF SettlesPassed
      <3> HIDE DEF k, a, t
      <3>2. k + i \in 1..a
        BY <3>1
      <3> QED
        BY <2>3, <3>1, <3>2 DEF a
    <2> QED
      BY <1>2, <2>2, <2>3, AckFacts
  <1>3. ASSUME NEW n \in Msgs, Dispatch(p, n)
        PROVE  \/ \E j \in 1..Len(unacked[p][u]) : unacked'[p][u][i] = unacked[p][u][j]
               \/ /\ TopicOf[n] = u /\ unacked'[p][u][i] = n /\ n \in Range(inbox'[p][u])
    <2> DEFINE t == TopicOf[n]
    <2>1. Appends(p, t, n) /\ t \in Topics
      BY <1>0, <1>3, DispatchFacts, TopicAssumption
    <2>2. CASE u # t
      BY <2>1, <2>2 DEF Appends
    <2>3. CASE u = t
      <3> DEFINE a == Len(unacked[p][t])
                 b == Len(inbox[p][t])
      <3>1. /\ a \in Nat /\ b \in Nat /\ i \in 1..a + 1
            /\ unacked'[p][t][a + 1] = n /\ inbox'[p][t][b + 1] = n
            /\ inbox' = [inbox EXCEPT ![p][t] = Append(@, n)]
            /\ \A j \in 1..a : unacked'[p][t][j] = unacked[p][t][j]
        BY <1>0, <1>3, <2>1, <2>3, SeqTypes DEF Appends, Dispatch
      <3>2. DOMAIN inbox'[p][t] = 1..b + 1
        <4>1. inbox[p][t] \in Seq(Msgs \cup {ErrFrame})
          BY <1>0, <2>1 DEF TypeOK
        <4>2. inbox'[p][t] = Append(inbox[p][t], n)
          BY <1>0, <2>1, <3>1 DEF TypeOK
        <4> QED
          BY <4>1, <4>2, AppendProperties, LenProperties
      <3> HIDE DEF a, b, t
      <3>3. i \in 1..a \/ i = a + 1
        BY <3>1
      <3>4. b + 1 \in DOMAIN inbox'[p][t]
        BY <3>1, <3>2
      <3> QED
        BY <2>3, <3>1, <3>3, <3>4 DEF Range, a, t
    <2> QED
      BY <2>2, <2>3
  <1>4. CASE Drop(p) \/ Crash(p) \/ Exit(p)
    <2>1. unacked'[p][u] = <<>>
      BY <1>0, <1>4 DEF Drop, Crash, Exit, Die, TypeOK
    <2>2. Len(unacked'[p][u]) = 0
      BY <2>1, EmptySeq
    <2> QED
      BY <2>2
  <1> QED
    BY <1>1, <1>2, <1>3, <1>4, BrokerUnchanged

\* What is in a channel after a receive, and after a send.
LEMMA RangeSteps ==
  ASSUME NEW S, NEW s \in Seq(S)
  PROVE  /\ s # <<>> => \A x \in Range(s) : x = Head(s) \/ x \in Range(Tail(s))
         /\ \A e \in S : Range(s) \subseteq Range(Append(s, e))
  <1> DEFINE n == Len(s)
  <1>0. n \in Nat /\ DOMAIN s = 1..n
    BY LenProperties
  <1>1. ASSUME s # <<>>, NEW x \in Range(s), x # Head(s)
        PROVE  x \in Range(Tail(s))
    <2>1. PICK k \in 1..n : x = s[k]
      BY <1>0, <1>1 DEF Range
    <2>2. /\ Tail(s) \in Seq(S) /\ Len(Tail(s)) = n - 1 /\ Head(s) = s[1]
          /\ \A i \in 1..n - 1 : Tail(s)[i] = s[i + 1]
      BY <1>1
    <2>3. DOMAIN Tail(s) = 1..n - 1
      BY <2>2, LenProperties
    <2> HIDE DEF n
    <2>4. k - 1 \in 1..n - 1 /\ (k - 1) + 1 = k
      BY <1>0, <1>1, <2>1, <2>2
    <2>5. Tail(s)[k - 1] = x
      BY <2>1, <2>2, <2>4
    <2> QED
      BY <2>3, <2>4, <2>5 DEF Range
  <1>2. ASSUME NEW e \in S, NEW x \in Range(s)
        PROVE  x \in Range(Append(s, e))
    <2>1. PICK k \in 1..n : x = s[k]
      BY <1>0 DEF Range
    <2>2. /\ Append(s, e) \in Seq(S) /\ Len(Append(s, e)) = n + 1
          /\ \A i \in 1..n : Append(s, e)[i] = s[i]
      BY <1>2
    <2>3. DOMAIN Append(s, e) = 1..n + 1
      BY <2>2, LenProperties
    <2> HIDE DEF n
    <2>4. k \in 1..n + 1 /\ Append(s, e)[k] = x
      BY <1>0, <2>1, <2>2
    <2> QED
      BY <2>3, <2>4 DEF Range
  <1> QED
    BY <1>1, <1>2

\* A message moves from the channel to Serve, to its job, and leaves it acknowledged.
LEMMA PendingStep ==
  ASSUME IInv, OrderInv, UpInv, OwnEvents, faults = 0, leaked = {},
         NEW p \in Pods, PodNext(p), ~ Drop(p), ~ Crash(p), ~ Exit(p),
         NEW u \in Topics, AutoACK[u], NEW m \in Msgs, TopicOf[m] = u, Pending(p, u, m),
         NEW i \in 1..Len(unacked'[p][u]), m = unacked'[p][u][i]
  PROVE  Pending(p, u, m)'
  <1>t. TypeOK /\ CurInv /\ PlaceInv
    BY DEF IInv, OrderInv
  <1>0. TypeOK /\ CurInv /\ m \in Msgs /\ m # None /\ TopicOf[m] = u
    BY <1>t, MsgsAssumption
  <1> USE DEF serveVars, jobVars, brokerVars, Goto, Step
  <1>1. CASE \/ Start(p) \/ Poll(p) \/ SelectClosed(p) \/ Acquire(p) \/ CheckShutdown(p)
             \/ StopNext(p)
    <2>1. UNCHANGED <<inbox, cur, job>>
      BY <1>1 DEF Start, Poll, SelectClosed, Acquire, CheckShutdown, StopNext, SendToken,
         SetFlag, Wait, WaitDone
    <2> QED
      BY <2>1 DEF Pending
  <1>2. CASE Spawn(p)
    <2>1. /\ UNCHANGED inbox /\ job' = [job EXCEPT ![p][cur[p]] = "begin"]
      BY <1>2 DEF Spawn
    <2>2. job'[p][m] = IF cur[p] = m THEN "begin" ELSE job[p][m]
      BY <1>0, <2>1 DEF TypeOK
    <2> QED
      BY <2>1, <2>2 DEF Pending
  <1>3. ASSUME NEW t \in Topics, Select(p, t) PROVE Pending(p, u, m)'
    <2>1. /\ serve[p] = "select" /\ inbox[p][t] # <<>> /\ UNCHANGED job
          /\ cur' = [cur EXCEPT ![p] = Head(inbox[p][t])]
          /\ inbox' = [inbox EXCEPT ![p][t] = Tail(inbox[p][t])]
      BY <1>3 DEF Select
    <2>2. cur[p] # m /\ cur'[p] = Head(inbox[p][t])
      BY <1>0, <2>1 DEF CurInv, TypeOK
    <2>3. CASE u # t
      BY <1>0, <2>1, <2>2, <2>3 DEF Pending, TypeOK
    <2>4. CASE u = t
      <3>1. inbox[p][t] \in Seq(Msgs \cup {ErrFrame}) /\ inbox'[p][t] = Tail(inbox[p][t])
        BY <1>0, <2>1 DEF TypeOK
      <3>2. \A x \in Range(inbox[p][t]) :
               x = Head(inbox[p][t]) \/ x \in Range(Tail(inbox[p][t]))
        BY <2>1, <3>1, RangeSteps
      <3> QED
        BY <2>1, <2>2, <2>4, <3>1, <3>2 DEF Pending
    <2> QED
      BY <2>3, <2>4
  <1>4. ASSUME NEW n \in Msgs, JobNext(p, n) PROVE Pending(p, u, m)'
    <2>1. UNCHANGED <<inbox, cur>>
      BY <1>4 DEF JobNext, Skip, Begin, HandlersReturn, AutoAck, Unlock, WgDone, Release
    <2>2. CASE n # m
      <3>1. job'[p][m] = job[p][m]
        BY <1>0, <1>4, <2>2 DEF JobNext, Skip, Begin, HandlersReturn, AutoAck, Unlock,
           WgDone, Release, TypeOK
      <3> QED
        BY <2>1, <3>1 DEF Pending
    <2>3. CASE n = m /\ job[p][m] \notin {"begin", "handle", "ack"}
      BY <2>1, <2>3 DEF Pending
    <2>4. CASE n = m /\ job[p][m] = "begin"
      <3>1. ~ Skip(p, m)
        BY <2>4, NoSkip, <1>0 DEF Skip
      <3>2. job' = [job EXCEPT ![p][m] = "handle"]
        BY <1>4, <2>4, <3>1 DEF JobNext, Begin, HandlersReturn, AutoAck, Unlock, WgDone,
           Release
      <3>3. job'[p][m] = "handle"
        BY <1>0, <3>2 DEF TypeOK
      <3> QED
        BY <3>3 DEF Pending
    <2>5. CASE n = m /\ job[p][m] = "handle"
      <3>1. job' = [job EXCEPT ![p][m] = "ack"]
        BY <1>4, <2>5 DEF JobNext, Skip, Begin, HandlersReturn, AutoAck, Unlock, WgDone,
           Release
      <3>2. job'[p][m] = "ack"
        BY <1>0, <3>1 DEF TypeOK
      <3> QED
        BY <3>2 DEF Pending
    <2>6. CASE n = m /\ job[p][m] = "ack"
      <3>1. AutoAck(p, m)
        BY <1>4, <2>6 DEF JobNext, Skip, Begin, HandlersReturn, Unlock, WgDone, Release
      <3> QED
        BY <1>0, <3>1, AckLeaves
    <2> QED
      BY <2>2, <2>3, <2>4, <2>5, <2>6
  <1>5. ASSUME NEW n \in Msgs, Dispatch(p, n) PROVE Pending(p, u, m)'
    <2> DEFINE t == TopicOf[n]
    <2>1. Appends(p, t, n) /\ t \in Topics
      BY <1>0, <1>5, DispatchFacts, TopicAssumption
    <2>2. CASE u # t
      BY <2>1, <2>2 DEF Appends, Pending
    <2>3. CASE u = t
      <3>1. inbox[p][t] \in Seq(Msgs \cup {ErrFrame}) /\ inbox'[p][t] = Append(inbox[p][t], n)
        BY <1>0, <1>5, <2>1 DEF Dispatch, TypeOK
      <3>2. Range(inbox[p][t]) \subseteq Range(Append(inbox[p][t], n))
        BY <1>0, <3>1, RangeSteps
      <3> QED
        BY <2>1, <2>3, <3>1, <3>2 DEF Appends, Pending
    <2> QED
      BY <2>2, <2>3
  <1> QED
    BY <1>1, <1>2, <1>3, <1>4, <1>5 DEF PodNext, ServeNext

\* Until the first failure the windows of AutoACK topics hold what is on its way only.
LEMMA WindowStep ==
  ASSUME IInv, OrderInv, UpInv, WindowInv, NEW p \in Pods, PodNext(p)
  PROVE  WindowInv'
  <1> SUFFICES ASSUME OwnEvents, faults' = 0, leaked' = {}, NEW q \in Pods,
                      NEW u \in Topics, AutoACK[u], NEW i \in 1..Len(unacked'[q][u]),
                      NEW m, m = unacked'[q][u][i]
               PROVE  Pending(q, u, m)'
    BY DEF WindowInv, OwnEvents, Keys, Pending
  <1>0. TypeOK
    BY DEF IInv
  <1>1. faults \in Nat /\ faults + 1 # 0
    BY <1>0, BoundAssumption DEF TypeOK
  <1>2. ~ Drop(p) /\ ~ Crash(p)
    BY <1>1 DEF Drop, Crash
  <1>3. faults' = faults /\ leaked \subseteq leaked'
    BY <1>2 DEF PodNext, ServeNext, Start, Poll, SelectClosed, Acquire, CheckShutdown,
       Spawn, Select, JobNext, Skip, Begin, HandlersReturn, AutoAck, Unlock, WgDone,
       Release, StopNext, SendToken, SetFlag, Wait, WaitDone, Dispatch, Exit, Die, lockVars
  <1>4. faults = 0 /\ leaked = {}
    BY <1>3
  <1>5. \A r \in Pods, t \in Topics :
           AutoACK[t] => \A j \in 1..Len(unacked[r][t]) : Pending(r, t, unacked[r][t][j])
    BY <1>4 DEF WindowInv
  <1>6. CASE q # p
    <2>1. /\ cur'[q] = cur[q] /\ inbox'[q] = inbox[q] /\ unacked'[q] = unacked[q]
          /\ job'[q] = job[q]
      BY <1>0, <1>6, OtherPods
    <2> QED
      BY <1>5, <2>1 DEF Pending
  <1>7. CASE q = p /\ Exit(p)
    <2>1. Len(unacked'[p][u]) = 0
      BY <1>0, <1>7, EmptySeq DEF Exit, Die, TypeOK
    <2> QED
      BY <1>7, <2>1
  <1>8. CASE q = p /\ ~ Exit(p)
    <2>1. ASSUME NEW j \in 1..Len(unacked[p][u]), m = unacked[p][u][j]
          PROVE  Pending(p, u, m)'
      <3>1. Pending(p, u, m)
        BY <1>5, <2>1
      <3>2. unacked[p][u][j] \in Msgs /\ TopicOf[unacked[p][u][j]] = u
        BY <1>0, WindowPlaces DEF OrderInv
      <3>3. m \in Msgs /\ TopicOf[m] = u
        BY <2>1, <3>2
      <3> QED
        BY <1>2, <1>4, <1>8, <3>1, <3>3, PendingStep
    <2>2. CASE m \in Range(inbox'[p][u])
      BY <1>8, <2>2 DEF Pending
    <2> QED
      BY <1>8, <2>1, <2>2, WasInWindow
  <1> QED
    BY <1>6, <1>7, <1>8

\* Initially nobody is up and every message is with the broker.
LEMMA InitStand == Init => StandInv
  <1> SUFFICES ASSUME Init PROVE StandInv
    OBVIOUS
  <1>1. Len(<<>>) = 0 /\ <<>> \in Seq(Msgs)
    BY EmptySeq
  <1>2. UpInv /\ IdleInv /\ KeptInv
    BY <1>1 DEF Init, UpInv, IdleInv, KeptInv
  <1>3. \A p \in Pods, t \in Topics : Len(unacked[p][t]) = 0
    BY <1>1 DEF Init
  <1> QED
    BY <1>2, <1>3 DEF StandInv, WindowInv

\* A stuttering step changes nothing.
LEMMA StutterStand == StandInv /\ UNCHANGED vars => StandInv'
  <1> SUFFICES ASSUME StandInv, UNCHANGED vars PROVE StandInv'
    OBVIOUS
  <1>1. UNCHANGED <<serve, cur, inbox, conn, stop, flag, job, queue, unacked, acked, leaked,
                    faults>>
    BY DEF vars, serveVars, stopVars, jobVars, lockVars, brokerVars
  <1>2. UpInv' /\ IdleInv' /\ KeptInv'
    BY <1>1 DEF StandInv, UpInv, IdleInv, KeptInv
  <1>3. \A p, t, m : Pending(p, t, m)' <=> Pending(p, t, m)
    BY <1>1 DEF Pending
  <1> QED
    BY <1>1, <1>2, <1>3 DEF StandInv, WindowInv, OwnEvents, Keys

\* The inductive invariant, with where the messages of a window are.
THEOREM StandInductive == Spec => [](IInv /\ OrderInv /\ StandInv)
  <1>1. IInv /\ OrderInv /\ StandInv /\ IInv' /\ [Next]_vars => StandInv'
    <2> SUFFICES ASSUME IInv, OrderInv, StandInv, IInv', [Next]_vars PROVE StandInv'
      OBVIOUS
    <2>1. ASSUME NEW p \in Pods, PodNext(p) PROVE StandInv'
      BY <2>1, UpStep, IdleStep, KeptStep, WindowStep DEF StandInv
    <2> QED
      BY <2>1, StutterStand DEF Next, PodNext
  <1> QED
    BY <1>1, InitStand, Inductive, OrderInductive, PTL DEF Spec

\* A pod with something on its way to an acknowledgement can go on.
LEMMA PendingGoesOn ==
  ASSUME IInv, StandInv, NEW p \in Pods, faults = 0, stop[p] = "idle",
         NEW t \in Topics, NEW m \in Msgs, Pending(p, t, m)
  PROVE  CanServe(p) \/ \E n \in Msgs : CanJob(p, n)
  <1> SUFFICES ASSUME ~ CanServe(p), \A n \in Msgs : ~ CanJob(p, n) PROVE FALSE
    OBVIOUS
  <1>0. /\ TypeOK /\ CurInv /\ SlotInv /\ serve[p] # "returned"
        /\ serve[p] = "acquire" => cur[p] \in Msgs
    BY DEF IInv, StandInv, IdleInv, UpInv
  <1>1. job[p][m] = "none"
    BY DEF CanJob
  <1>2. CASE serve[p] = "select"
    <2>1. cur[p] # m
      BY <1>0, <1>2, MsgsAssumption DEF CurInv
    <2>2. m \in Range(inbox[p][t])
      BY <1>1, <2>1 DEF Pending
    <2>3. inbox[p][t] # <<>>
      BY <2>2, EmptySeq DEF Range
    <2> QED
      BY <1>2, <2>3 DEF CanServe
  <1>3. CASE serve[p] = "acquire"
    <2> DEFINE u == TopicOf[cur[p]]
    <2>1. cur[p] \in Msgs /\ Dest(cur[p]) = u /\ u \in Topics
      BY <1>0, <1>3, TopicAssumption DEF Dest
    <2>2. ~ SlotFree(p, u)
      BY <1>3, <2>1 DEF CanServe
    <2>3. \E n \in Msgs : Owners(p, u) = {n}
      BY <1>0, <2>1, <2>2 DEF SlotInv, SlotFree
    <2>4. \E n \in Msgs : job[p][n] # "none"
      BY <1>3, <2>3 DEF Owners
    <2> QED
      BY <2>4 DEF CanJob
  <1> QED
    BY <1>0, <1>2, <1>3 DEF TypeOK, ServeStates, CanServe

\* Pods, their slots and the windows of the broker do not lock each other up.
LEMMA Standing == IInv /\ OrderInv /\ StandInv => NoStandstill
  <1> SUFFICES ASSUME IInv, OrderInv, StandInv, OwnEvents, Undisturbed, Pods # {},
                      NEW m \in Msgs, m \notin acked, AutoACK[TopicOf[m]]
               PROVE  \E p \in Pods :
                         \/ CanServe(p)
                         \/ \E n \in Msgs : CanJob(p, n) \/ CanDispatch(p, n)
    BY DEF NoStandstill
  <1> DEFINE t == TopicOf[m]
  <1>0. /\ TypeOK /\ t \in Topics /\ faults = 0 /\ leaked = {}
        /\ \A p \in Pods : stop[p] = "idle"
    BY TopicAssumption DEF IInv, Undisturbed
  <1>1. ASSUME NEW p \in Pods, NEW i \in 1..Len(unacked[p][t])
        PROVE  CanServe(p) \/ \E n \in Msgs : CanJob(p, n)
    <2>1. Pending(p, t, unacked[p][t][i])
      BY <1>0 DEF StandInv, WindowInv
    <2>2. unacked[p][t][i] \in Msgs
      BY <1>0, SeqTypes
    <2> HIDE DEF t
    <2> QED
      BY <1>0, <2>1, <2>2, PendingGoesOn
  <1>2. CASE m \in queue
    <2>1. PICK p \in Pods : TRUE
      OBVIOUS
    <2>2. CASE serve[p] = "down"
      BY <2>2 DEF CanServe
    <2>3. CASE serve[p] # "down" /\ Len(unacked[p][t]) < Prefetch
      BY <1>0, <1>2, <2>3 DEF CanDispatch, StandInv, UpInv
    <2>4. CASE ~ (Len(unacked[p][t]) < Prefetch)
      <3>1. Len(unacked[p][t]) \in Nat
        BY <1>0, SeqTypes
      <3>2. 1 \in 1..Len(unacked[p][t])
        BY <2>4, <3>1, BoundAssumption
      <3> QED
        BY <1>1, <3>2
    <2> QED
      BY <2>2, <2>3, <2>4
  <1>3. ASSUME NEW p \in Pods, m \in Range(unacked[p][t])
        PROVE  CanServe(p) \/ \E n \in Msgs : CanJob(p, n)
    BY <1>0, <1>1, <1>3, InWindow
  <1> QED
    BY <1>2, <1>3 DEF StandInv, KeptInv

\* As long as nothing fails and nobody shuts down, somebody can go on while a message of
\* an AutoACK topic is not acknowledged, though all topics share one Serve and wait for
\* each other's slots: the part of EventuallyAcked that needs no fairness, for messages
\* with events of their own, any number of pods and topics and any window.
THEOREM StompNoStandstill == Spec => []NoStandstill
  BY Standing, StandInductive, PTL
=============================================================================
