------------------------ MODULE MqttSubscriberProofs ------------------------
(***************************************************************************)
(* The safety of the MQTT subscriber for any patterns, messages and client *)
(* options, any buffer of the client and any number of lost connections;   *)
(* and that a handler stuck with its publication is its only deadlock.     *)
(***************************************************************************)
EXTENDS MqttSubscriber, FiniteSetTheorems, SequenceTheorems, TLAPS

-----------------------------------------------------------------------------
(* The inductive invariant *)

\* While the constructor mounts, nothing is subscribed and no message comes in: what
\* match answers for a message is fixed before the first one is worked on.
MountInv ==
    /\ mounted \subseteq Patterns
    /\ serve = "mount" => at = "idle" /\ tried = {} /\ acked = {}

\* A callback has a message; the WaitGroup counts the one whose handlers run.
CallInv ==
    /\ at # "idle" => cur \in Msgs /\ left # 0
    /\ wg = IF at \in {"handle", "token", "finish"} THEN 1 ELSE 0

\* Past its handlers a message was worked on, if any pattern matches it; a callback
\* that skipped them did so because of the cancellation.
HandledInv ==
    /\ at = "finish" => cur \in handled \/ Selected(cur) = None
    /\ at = "return" => cur \in handled \/ Selected(cur) = None \/ cancelled

\* Shutdown cancels once; the callback that had passed the check before starts its
\* handlers, and is the only one.
StopInv ==
    /\ cancelled <=> stop \in {"cancelled", "met", "returned"}
    /\ past <= 1
    /\ past # 0 => cancelled /\ at # "add"

IInv == TypeOK /\ MountInv /\ CallInv /\ HandledInv /\ StopInv /\ AckedAsAsked

-----------------------------------------------------------------------------
(* The router *)

\* What match answers depends on the tree alone.
LEMMA SelectedKept ==
  ASSUME UNCHANGED <<nodes, handler>>, NEW m
  PROVE  Selected(m)' = Selected(m)
  BY DEF Selected, Router!match, Router!MatchNode, Router!Child, Router!FoldLeft,
         Router!MapThenFoldSet

\* What match answers for a message changes only while the constructor mounts.
LEMMA SelectedSame ==
  ASSUME MountInv, [Next]_vars, NEW m, serve # "mount" \/ UNCHANGED routerVars
  PROVE  Selected(m)' = Selected(m)
  <1>1. UNCHANGED routerVars
    BY DEF Next, Mount, ServeNext, Serve, Subscribe, Subscribed, ClientNext, Receive, Check,
       Add, HandlersEnd, PublishMessage, TokenDone, Finish, Return, CallShutdown, StopNext,
       Wait, Wake, WakePanics, Cancel, Meet, Disconnect, Lose, Reconnect, SendNext, Send,
       Publish, vars
  <1> QED
    BY <1>1, SelectedKept DEF routerVars

\* A constructor only adds patterns.
LEMMA MountGrows ==
  ASSUME Mount, mounted \subseteq Patterns
  PROVE  mounted \subseteq mounted' /\ mounted' \subseteq Patterns
  BY DEF Mount, Router!Next, Router!addRoute, Router!addRoutePanics

-----------------------------------------------------------------------------
(* Counting subscriptions *)

\* A message has no more callbacks than there are patterns.
LEMMA FittingCounted ==
  ASSUME NEW F \in SUBSET Patterns, NEW m
  PROVE  /\ IsFiniteSet(Fitting(F, m))
         /\ Cardinality(Fitting(F, m)) \in Nat
         /\ Cardinality(Fitting(F, m)) <= Cardinality(Patterns)
         /\ Cardinality(Patterns) \in Nat
         /\ F = {} => Cardinality(Fitting(F, m)) = 0
  <1> DEFINE T == {Filters[p] : p \in F}
             f == [p \in F |-> Filters[p]]
  <1>1. IsFiniteSet(Patterns) /\ IsFiniteSet(F) /\ Cardinality(F) <= Cardinality(Patterns)
    BY MqttSubscriberAssumption, FS_Subset
  <1>2. f \in Surjection(F, T)
    <2>1. f \in [F -> T] /\ \A t \in T : \E p \in F : f[p] = t
      OBVIOUS
    <2> HIDE DEF f, T
    <2> QED
      BY <2>1 DEF Surjection
  <1>3. Fitting(F, m) \subseteq T
    BY DEF Fitting
  <1>4. F = {} => Fitting(F, m) = {}
    BY DEF Fitting
  <1> HIDE DEF T, f
  <1>5. IsFiniteSet(T) /\ Cardinality(T) <= Cardinality(F)
    BY <1>1, <1>2, FS_Surjection
  <1>6. IsFiniteSet(Fitting(F, m)) /\ Cardinality(Fitting(F, m)) <= Cardinality(T)
    BY <1>3, <1>5, FS_Subset
  <1>7. /\ Cardinality(F) \in Nat /\ Cardinality(Patterns) \in Nat
        /\ Cardinality(T) \in Nat /\ Cardinality(Fitting(F, m)) \in Nat
    BY <1>1, <1>5, <1>6, FS_CardinalityType
  <1> QED
    BY <1>1, <1>4, <1>5, <1>6, <1>7, FS_EmptySet

-----------------------------------------------------------------------------
(* Typing *)

\* An acknowledgement concerns a stored message and no other.
LEMMA SettleType ==
  ASSUME NEW m \in Msgs, Settle(m), acked \subseteq Msgs, sent \subseteq stored,
         stored \subseteq Msgs
  PROVE  /\ acked' \subseteq Msgs /\ sent' \subseteq stored' /\ stored' \subseteq Msgs
         /\ acked' \subseteq acked \cup {m}
  BY DEF Settle

\* The steps of the broker, the connection, the constructor, Serve and Shutdown.
LEMMA OuterTypeOK ==
  ASSUME TypeOK, MountInv,
         \/ Mount \/ ServeNext \/ CallShutdown \/ StopNext
         \/ Lose \/ Reconnect \/ SendNext \/ \E m \in Msgs : Publish(m)
  PROVE  TypeOK'
  <1> USE DEF TypeOK, serveVars, sessionVars, callVars, stopVars, histories, optionVars
  <1>1. CASE Mount
    <2>1. mounted \subseteq mounted'
      BY <1>1, MountGrows DEF MountInv
    <2> QED
      BY <1>1, <2>1 DEF Mount
  <1>2. CASE Serve \/ Subscribed
    BY <1>2 DEF Serve, Subscribed, routerVars
  <1>3. ASSUME NEW p \in Patterns, Subscribe(p) PROVE TypeOK'
    BY <1>3 DEF Subscribe, routerVars
  <1>4. CASE CallShutdown \/ Wait \/ Wake \/ Cancel \/ Meet
    BY <1>4 DEF CallShutdown, Wait, Wake, Cancel, Meet, routerVars
  <1>5. \A S : <<>> \in Seq(S)
    OBVIOUS
  <1>6. CASE Disconnect
    BY <1>5, <1>6 DEF Disconnect, routerVars
  <1>11. CASE WakePanics
    <2>1. 0 \in 0..Cardinality(Patterns) /\ 0 \in 0..1
      BY MqttSubscriberAssumption, FS_CardinalityType
    <2> QED
      BY <1>5, <1>11, <2>1 DEF WakePanics, routerVars
  <1>7. CASE Lose
    <2>1. faults' \in 0..MaxFaults
      BY <1>7, MqttSubscriberAssumption DEF Lose
    <2> QED
      BY <1>5, <1>7, <2>1 DEF Lose, routerVars
  <1>8. CASE Reconnect
    <2>1. <<PubAck>> \in Seq(Msgs \cup {PubAck})
      OBVIOUS
    <2> QED
      BY <1>5, <1>8, <2>1 DEF Reconnect, routerVars
  <1>9. ASSUME NEW m \in Msgs, Send(m) PROVE TypeOK'
    <2>1. PICK n \in {1, Cardinality(Fitting(subs, m))} \ {0} :
              inbox' = inbox \o [i \in 1..n |-> m]
      BY <1>9 DEF Send
    <2>2. n \in Nat
      BY FittingCounted
    <2>3. [i \in 1..n |-> m] \in Seq(Msgs \cup {PubAck})
      BY <2>2
    <2>4. inbox' \in Seq(Msgs \cup {PubAck})
      BY <2>1, <2>3
    <2> QED
      BY <1>9, <2>4 DEF Send, routerVars
  <1>10. ASSUME NEW m \in Msgs, Publish(m) PROVE TypeOK'
    BY <1>10 DEF Publish, routerVars
  <1> QED
    BY <1>1, <1>2, <1>3, <1>4, <1>6, <1>7, <1>8, <1>9, <1>10, <1>11 DEF ServeNext,
       StopNext, SendNext

\* A message without an element of a queue is still a queue.
LEMMA Removed ==
  ASSUME NEW S, NEW s \in Seq(S), NEW i \in 1..Len(s)
  PROVE  SubSeq(s, 1, i - 1) \o SubSeq(s, i + 1, Len(s)) \in Seq(S)
  <1>1. SubSeq(s, 1, i - 1) \in Seq(S)
    OBVIOUS
  <1>2. SubSeq(s, i + 1, Len(s)) \in Seq(S)
    OBVIOUS
  <1> QED
    BY <1>1, <1>2

\* The steps of the client and its callback.
LEMMA ClientTypeOK ==
  ASSUME TypeOK, MountInv, CallInv, StopInv, ClientNext
  PROVE  TypeOK'
  <1> USE DEF TypeOK, serveVars, sessionVars, callVars, stopVars, histories, optionVars,
          routerVars
  <1>1. CASE Receive
    <2> DEFINE m == Head(inbox)  n == Cardinality(Fitting(routes, m))
    <2>1. m \in Msgs /\ Tail(inbox) \in Seq(Msgs \cup {PubAck})
      BY <1>1 DEF Receive
    <2>2. routes \in SUBSET Patterns
      BY DEF MountInv
    <2>3. n \in 0..Cardinality(Patterns)
      BY <2>2, FittingCounted
    <2> HIDE DEF n
    <2>4. /\ cur' \in Msgs \cup {None} /\ left' \in 0..Cardinality(Patterns)
          /\ at' \in {"idle", "check"} /\ early' \subseteq Msgs
      BY <1>1, <2>1, <2>3 DEF Receive, n
    <2> QED
      BY <1>1, <2>1, <2>4 DEF Receive
  <1>2. CASE Check
    BY <1>2 DEF Check, Goto
  <1>3. CASE Add
    <2>1. wg' \in 0..1 /\ past' \in Nat
      BY <1>3 DEF Add, Goto, CallInv
    <2> QED
      BY <1>3, <2>1 DEF Add, Goto
  <1>4. CASE HandlersEnd
    BY <1>4 DEF HandlersEnd, Goto, CallInv
  <1>5. CASE PublishMessage
    <2>1. inbox' \in Seq(Msgs \cup {PubAck})
      BY <1>5 DEF PublishMessage
    <2> QED
      BY <1>5, <2>1 DEF PublishMessage, Goto
  <1>6. CASE TokenDone
    <2>1. inbox' \in Seq(Msgs \cup {PubAck})
      BY <1>6, Removed DEF TokenDone
    <2>2. cur \in Msgs
      BY <1>6 DEF TokenDone, Goto, CallInv
    <2> QED
      BY <1>6, <2>1, <2>2 DEF TokenDone, Goto
  <1>7. CASE Finish
    <2>1. cur \in Msgs /\ wg' \in 0..1
      BY <1>7 DEF Finish, Goto, CallInv
    <2>2. acked' \subseteq Msgs /\ sent' \subseteq stored' /\ stored' \subseteq Msgs
      BY <1>7, <2>1, SettleType DEF Finish
    <2> QED
      BY <1>7, <2>1, <2>2 DEF Finish, Goto, Awaken
  <1>8. CASE Return
    <2>1. cur \in Msgs /\ left # 0
      BY <1>8 DEF Return, CallInv
    <2>2. acked' \subseteq Msgs /\ sent' \subseteq stored' /\ stored' \subseteq Msgs
      BY <1>8, <2>1, SettleType DEF Return
    <2>3. Cardinality(Patterns) \in Nat
      BY MqttSubscriberAssumption, FS_CardinalityType
    <2>4. left' \in 0..Cardinality(Patterns)
      BY <1>8, <2>1, <2>3 DEF Return
    <2> QED
      BY <1>8, <2>1, <2>2, <2>4 DEF Return
  <1> QED
    BY <1>1, <1>2, <1>3, <1>4, <1>5, <1>6, <1>7, <1>8 DEF ClientNext

\* Every step keeps the types.
LEMMA TypeOKStep == IInv /\ [Next]_vars => TypeOK'
  <1> SUFFICES ASSUME IInv, [Next]_vars PROVE TypeOK'
    OBVIOUS
  <1>0. TypeOK /\ MountInv /\ CallInv /\ StopInv
    BY DEF IInv
  <1>1. CASE UNCHANGED vars
    BY <1>0, <1>1 DEF vars, TypeOK, routerVars, optionVars, serveVars, sessionVars, callVars,
       stopVars, histories
  <1> QED
    BY <1>0, <1>1, OuterTypeOK, ClientTypeOK DEF Next

-----------------------------------------------------------------------------
(* Mounting and callbacks *)

\* Nothing is subscribed or received before the constructor is done.
LEMMA MountInvStep == IInv /\ [Next]_vars => MountInv'
  <1> SUFFICES ASSUME IInv, [Next]_vars PROVE MountInv'
    OBVIOUS
  <1>0. TypeOK /\ MountInv
    BY DEF IInv
  <1> USE DEF routerVars, serveVars, callVars, sessionVars
  <1>1. CASE Mount
    BY <1>0, <1>1, MountGrows DEF Mount, MountInv
  <1>2. CASE Serve \/ Subscribed \/ \E p \in Patterns : Subscribe(p)
    BY <1>0, <1>2 DEF Serve, Subscribed, Subscribe, MountInv
  <1>3. CASE Receive
    <2>1. serve = "mount" => routes = {}
      BY <1>0 DEF TypeOK, MountInv
    <2>2. serve = "mount" => UNCHANGED callVars
      BY <1>3, <2>1, FittingCounted DEF Receive
    <2> QED
      BY <1>0, <1>3, <2>2 DEF Receive, MountInv
  <1>4. CASE \/ Check \/ Add \/ HandlersEnd \/ PublishMessage \/ TokenDone
             \/ Finish \/ Return
    <2>1. serve # "mount" /\ UNCHANGED <<mounted, serve>>
      BY <1>0, <1>4 DEF Check, Add, HandlersEnd, PublishMessage, TokenDone, Finish, Return,
         Goto, MountInv
    <2> QED
      BY <1>0, <2>1 DEF MountInv
  <1>5. CASE \/ CallShutdown \/ StopNext \/ Lose \/ Reconnect
             \/ SendNext \/ \E m \in Msgs : Publish(m)
    BY <1>0, <1>5 DEF CallShutdown, StopNext, Wait, Wake, WakePanics, Cancel, Meet,
       Disconnect, Lose, Reconnect, SendNext, Send, Publish, MountInv
  <1>6. CASE UNCHANGED vars
    BY <1>0, <1>6 DEF vars, MountInv
  <1> QED
    BY <1>1, <1>2, <1>3, <1>4, <1>5, <1>6 DEF Next, ServeNext, ClientNext

\* The steps that leave the callback alone, or end it with the process.
LEMMA OuterCall ==
  ASSUME \/ Mount \/ ServeNext \/ CallShutdown \/ StopNext
         \/ Lose \/ Reconnect \/ SendNext \/ \E m \in Msgs : Publish(m)
         \/ UNCHANGED vars
  PROVE  /\ UNCHANGED <<past, handled, acked, autoAckDisabled>>
         /\ UNCHANGED <<callVars, wg>> \/ (WakePanics /\ at' = "idle" /\ wg' = 0)
  BY DEF Mount, ServeNext, Serve, Subscribed, Subscribe, CallShutdown, StopNext, Wait, Wake,
     WakePanics, Cancel, Meet, Disconnect, Lose, Reconnect, SendNext, Send, Publish, vars,
     histories, optionVars

\* What was handled stays so, and a cancellation is never taken back.
LEMMA Monotone ==
  ASSUME [Next]_vars
  PROVE  /\ UNCHANGED autoAckDisabled /\ handled \subseteq handled'
         /\ cancelled => cancelled'
  <1> USE DEF optionVars, histories, stopVars
  <1>1. CASE Receive \/ Check \/ Add \/ PublishMessage \/ Finish \/ Return
    BY <1>1 DEF Receive, Check, Add, PublishMessage, Finish, Return
  <1>2. CASE HandlersEnd \/ TokenDone
    <2>1. handled \subseteq handled'
      BY <1>2 DEF HandlersEnd, TokenDone
    <2>2. autoAckDisabled' = autoAckDisabled /\ cancelled' = cancelled
      <3>1. CASE HandlersEnd
        BY <3>1 DEF HandlersEnd
      <3>2. CASE TokenDone
        BY <3>2 DEF TokenDone
      <3> QED
        BY <1>2, <3>1, <3>2
    <2> QED
      BY <2>1, <2>2
  <1>3. CASE Cancel
    BY <1>3 DEF Cancel
  <1>4. CASE CallShutdown \/ Wait \/ Wake \/ WakePanics \/ Meet \/ Disconnect
    BY <1>4 DEF CallShutdown, Wait, Wake, WakePanics, Meet, Disconnect
  <1>5. CASE Mount \/ ServeNext \/ Lose \/ Reconnect
    BY <1>5 DEF Mount, ServeNext, Serve, Subscribed, Subscribe, Lose, Reconnect
  <1>6. CASE SendNext \/ (\E m \in Msgs : Publish(m)) \/ UNCHANGED vars
    BY <1>6 DEF SendNext, Send, Publish, vars
  <1> QED
    BY <1>1, <1>2, <1>3, <1>4, <1>5, <1>6 DEF Next, ClientNext, StopNext

\* The WaitGroup counts the one callback that runs.
LEMMA CallInvStep == IInv /\ [Next]_vars => CallInv'
  <1> SUFFICES ASSUME IInv, [Next]_vars PROVE CallInv'
    OBVIOUS
  <1>0. TypeOK /\ MountInv /\ CallInv
    BY DEF IInv
  <1> USE DEF callVars
  <1>1. CASE Receive
    <2> DEFINE m == Head(inbox)  n == Cardinality(Fitting(routes, m))
    <2>1. n \in Nat
      <3>1. routes \in SUBSET Patterns
        BY <1>0 DEF TypeOK, MountInv
      <3> QED
        BY <3>1, FittingCounted
    <2>2. at = "idle" /\ m \in Msgs /\ wg' = wg
      BY <1>1 DEF Receive
    <2>3. \/ cur' = m /\ left' = n /\ at' = "check" /\ n > 0
          \/ UNCHANGED <<cur, left, at>>
      BY <1>1 DEF Receive
    <2> HIDE DEF m, n
    <2> QED
      BY <1>0, <2>1, <2>2, <2>3 DEF CallInv
  <1>2. CASE Check \/ Add \/ HandlersEnd \/ PublishMessage \/ TokenDone \/ Finish
    <2>1. /\ UNCHANGED <<cur, left>> /\ at # "idle"
          /\ \/ Check /\ at = "check" /\ at' \in {"add", "return"} /\ wg' = wg
             \/ at = "add" /\ at' = "handle" /\ wg' = wg + 1
             \/ /\ at \in {"handle", "token"} /\ at' \in {"token", "finish"}
                /\ wg' = wg
             \/ at = "finish" /\ at' = "return" /\ wg' = wg - 1
      <3>1. CASE Check
        BY <3>1 DEF Check, Goto
      <3>2. CASE Add
        BY <3>2 DEF Add, Goto
      <3>3. CASE HandlersEnd
        BY <3>3 DEF HandlersEnd, Goto
      <3>4. CASE PublishMessage
        BY <3>4 DEF PublishMessage, Goto
      <3>5. CASE TokenDone
        BY <3>5 DEF TokenDone, Goto
      <3>6. CASE Finish
        BY <3>6 DEF Finish, Goto
      <3> QED
        BY <1>2, <3>1, <3>2, <3>3, <3>4, <3>5, <3>6
    <2> QED
      BY <1>0, <2>1 DEF CallInv
  <1>3. CASE Return
    <2>1. left \in Nat /\ left # 0
      <3>1. Cardinality(Patterns) \in Nat
        BY MqttSubscriberAssumption, FS_CardinalityType
      <3> QED
        BY <1>0, <1>3, <3>1 DEF Return, CallInv, TypeOK
    <2>2. /\ at = "return" /\ at' \in {"idle", "check"} /\ wg' = wg /\ left' = left - 1
          /\ at' # "idle" => cur' = cur /\ left # 1
      BY <1>3 DEF Return
    <2>3. at' # "idle" => left' # 0
      BY <2>1, <2>2
    <2> QED
      BY <1>0, <2>2, <2>3 DEF CallInv
  <1>4. CASE ~ ClientNext
    BY <1>0, <1>4, OuterCall DEF Next, CallInv
  <1> QED
    BY <1>1, <1>2, <1>3, <1>4 DEF ClientNext

\* A callback comes to its end after the handlers, or with nothing to run.
LEMMA HandledInvStep == IInv /\ [Next]_vars => HandledInv'
  <1> SUFFICES ASSUME IInv, [Next]_vars PROVE HandledInv'
    OBVIOUS
  <1>0. TypeOK /\ MountInv /\ CallInv /\ HandledInv
    BY DEF IInv
  <1>s. serve # "mount" => Selected(cur)' = Selected(cur) \/ cur' # cur
    <2>1. ASSUME serve # "mount" PROVE \A m : Selected(m)' = Selected(m)
      BY <1>0, <2>1, SelectedSame
    <2> QED
      BY <2>1 DEF Selected
  <1>1. CASE at' \notin {"finish", "return"}
    BY <1>1 DEF HandledInv
  <1>2. CASE at' \in {"finish", "return"} /\ ~ ClientNext
    <2>1. UNCHANGED <<cur, at, handled>> /\ (cancelled => cancelled')
      BY <1>2, OuterCall, Monotone DEF Next, callVars
    <2>2. serve # "mount"
      BY <1>0, <1>2, <2>1 DEF MountInv
    <2>3. Selected(cur)' = Selected(cur)
      BY <1>s, <2>1, <2>2
    <2> QED
      BY <1>0, <2>1, <2>3 DEF HandledInv
  <1>3. CASE at' \in {"finish", "return"} /\ ClientNext
    <2>1. serve # "mount" /\ cur' = cur
      BY <1>0, <1>3 DEF ClientNext, Receive, Check, Add, HandlersEnd, PublishMessage,
         TokenDone, Finish, Return, Goto, callVars, MountInv
    <2>2. Selected(cur)' = Selected(cur)
      BY <1>s, <2>1
    <2>3. \/ Check /\ cancelled /\ cancelled' = cancelled /\ at' = "return"
          \/ HandlersEnd \/ TokenDone \/ Finish
      BY <1>3 DEF ClientNext, Receive, Check, Add, PublishMessage, Return, Goto, callVars,
         stopVars
    <2>4. CASE HandlersEnd
      BY <2>1, <2>2, <2>4 DEF HandlersEnd, Goto, HandledInv
    <2>5. CASE TokenDone
      BY <2>1, <2>5 DEF TokenDone, Goto, HandledInv
    <2>6. CASE Finish
      BY <1>0, <2>1, <2>2, <2>6 DEF Finish, Goto, histories, stopVars, HandledInv
    <2> QED
      BY <2>3, <2>4, <2>5, <2>6 DEF HandledInv
  <1> QED
    BY <1>1, <1>2, <1>3

-----------------------------------------------------------------------------
(* Shutdown and acknowledgements *)

\* Shutdown takes its stages in order, and one run starts past the cancellation at
\* most.
LEMMA StopInvStep == IInv /\ [Next]_vars => StopInv'
  <1> SUFFICES ASSUME IInv, [Next]_vars PROVE StopInv'
    OBVIOUS
  <1>0. TypeOK /\ StopInv
    BY DEF IInv
  <1> USE DEF histories, stopVars, callVars
  <1>1. CASE Cancel
    <2>1. past = 0
      BY <1>0, <1>1 DEF Cancel, StopInv
    <2> QED
      BY <1>1, <2>1 DEF Cancel, StopInv
  <1>2. CASE CallShutdown \/ Wait \/ Wake \/ WakePanics \/ Meet \/ Disconnect
    BY <1>0, <1>2 DEF CallShutdown, Wait, Wake, WakePanics, Meet, Disconnect, StopInv
  <1>3. CASE Add
    <2>1. at = "add" /\ at' = "handle" /\ past = 0 /\ UNCHANGED <<cancelled, stop>>
      BY <1>0, <1>3 DEF Add, Goto, StopInv
    <2>2. past' = IF cancelled THEN 1 ELSE 0
      BY <1>3, <2>1 DEF Add
    <2> QED
      BY <1>0, <2>1, <2>2 DEF StopInv
  <1>4. CASE Check
    BY <1>0, <1>4 DEF Check, Goto, StopInv
  <1>5. CASE Receive \/ HandlersEnd \/ PublishMessage \/ TokenDone \/ Finish \/ Return
    <2>1. at' # "add" \/ at' = at
      <3>1. CASE Receive
        BY <3>1 DEF Receive
      <3>2. CASE HandlersEnd \/ PublishMessage \/ TokenDone \/ Finish
        BY <3>2 DEF HandlersEnd, PublishMessage, TokenDone, Finish, Goto
      <3>3. CASE Return
        BY <3>3 DEF Return
      <3> QED
        BY <1>5, <3>1, <3>2, <3>3
    <2>2. /\ UNCHANGED <<past, cancelled>>
          /\ stop' = stop \/ (stop = "asleep" /\ stop' = "woken")
      BY <1>5 DEF Receive, HandlersEnd, PublishMessage, TokenDone, Finish, Awaken, Return
    <2> QED
      BY <1>0, <2>1, <2>2 DEF StopInv
  <1>6. CASE \/ Mount \/ ServeNext \/ Lose \/ Reconnect \/ SendNext
             \/ \E m \in Msgs : Publish(m)
             \/ UNCHANGED vars
    BY <1>0, <1>6 DEF Mount, ServeNext, Serve, Subscribed, Subscribe, Lose, Reconnect,
       SendNext, Send, Publish, vars, StopInv
  <1> QED
    BY <1>1, <1>2, <1>3, <1>4, <1>5, <1>6 DEF Next, StopNext, ClientNext

\* What is acknowledged in a step was, or is the message of the callback that ends.
LEMMA AckedStep ==
  ASSUME IInv, [Next]_vars, NEW m \in acked'
  PROVE  \/ m \in acked
         \/ /\ m = cur /\ Finish /\ Selected(cur) # None /\ AutoACK[Selected(cur)]
         \/ /\ m = cur /\ Return /\ ~ autoAckDisabled
  <1>1. CASE Finish
    BY <1>1 DEF Finish, Settle
  <1>2. CASE Return
    BY <1>2 DEF Return, Settle
  <1>3. CASE Receive \/ Check \/ Add \/ HandlersEnd \/ PublishMessage \/ TokenDone
    BY <1>3 DEF Receive, Check, Add, HandlersEnd, PublishMessage, TokenDone
  <1>4. CASE ~ ClientNext
    BY <1>4, OuterCall DEF Next
  <1> QED
    BY <1>1, <1>2, <1>3, <1>4 DEF ClientNext

\* What is acknowledged in a step was to be acknowledged.
LEMMA AckedAsAskedStep == IInv /\ [Next]_vars => AckedAsAsked'
  <1> SUFFICES ASSUME IInv, [Next]_vars, NEW m \in acked'
               PROVE  IF autoAckDisabled'
                      THEN m \in handled' /\ Selected(m)' # None /\ AutoACK[Selected(m)']
                      ELSE m \in handled' \/ Selected(m)' = None \/ cancelled'
    BY DEF AckedAsAsked, Selected
  <1>0. TypeOK /\ MountInv /\ CallInv /\ HandledInv /\ AckedAsAsked
    BY DEF IInv
  <1>1. UNCHANGED autoAckDisabled /\ handled \subseteq handled' /\ (cancelled => cancelled')
    BY Monotone
  <1>2. serve # "mount"
    <2>1. m \in acked \/ at # "idle"
      BY AckedStep DEF Finish, Return, Goto
    <2> QED
      BY <1>0, <2>1 DEF MountInv
  <1>3. Selected(m)' = Selected(m)
    BY <1>0, <1>2, SelectedSame
  <1>4. CASE m \in acked
    BY <1>0, <1>1, <1>3, <1>4 DEF AckedAsAsked
  <1>5. CASE m = cur /\ Finish /\ Selected(cur) # None /\ AutoACK[Selected(cur)]
    <2>1. cur \in handled
      BY <1>0, <1>5 DEF Finish, Goto, HandledInv
    <2> QED
      BY <1>1, <1>3, <1>5, <2>1
  <1>6. CASE m = cur /\ Return /\ ~ autoAckDisabled
    <2>1. cur \in handled \/ Selected(cur) = None \/ cancelled
      BY <1>0, <1>6 DEF Return, HandledInv
    <2> QED
      BY <1>1, <1>3, <1>6, <2>1
  <1> QED
    BY <1>4, <1>5, <1>6, AckedStep

-----------------------------------------------------------------------------
(* Theorems *)

\* A process starts in the invariant.
LEMMA InitIInv == Init => IInv
  <1> SUFFICES ASSUME Init PROVE IInv
    OBVIOUS
  <1>1. Cardinality(Patterns) \in Nat /\ MaxFaults \in Nat
    BY MqttSubscriberAssumption, FS_CardinalityType
  <1>2. <<cleanSession, autoAckDisabled>> \in Options
    <2>1. PICK o \in Options : cleanSession = o[1] /\ autoAckDisabled = o[2]
      BY DEF Init
    <2>2. o \in BOOLEAN \X BOOLEAN
      BY MqttSubscriberAssumption
    <2>3. o = <<o[1], o[2]>>
      BY <2>2
    <2> QED
      BY <2>1, <2>3
  <1>3. subs \subseteq Patterns /\ mounted = {}
    BY DEF Init, Router!Init
  <1>4. <<>> \in Seq(Msgs \cup {PubAck})
    OBVIOUS
  <1>5. TypeOK
    <2>1. 0 \in 0..Cardinality(Patterns) /\ 0 \in 0..MaxFaults /\ 0 \in 0..1
      BY <1>1
    <2>2. subs \subseteq Patterns /\ tried \subseteq mounted /\ routes \subseteq tried
      BY <1>3 DEF Init
    <2> QED
      BY <1>2, <1>4, <2>1, <2>2 DEF Init, TypeOK
  <1>6. MountInv /\ CallInv /\ HandledInv /\ StopInv /\ AckedAsAsked
    BY <1>3 DEF Init, MountInv, CallInv, HandledInv, StopInv, AckedAsAsked
  <1> QED
    BY <1>5, <1>6 DEF IInv

\* IInv holds in every reachable state of the subscriber (mqtt-broker/subscriber.go).
THEOREM MqttInductive == Spec => []IInv
  <1>1. IInv /\ [Next]_vars => IInv'
    BY TypeOKStep, MountInvStep, CallInvStep, HandledInvStep, StopInvStep, AckedAsAskedStep
       DEF IInv
  <1> QED
    BY InitIInv, <1>1, PTL DEF Spec

\* Every variable has its type: the WaitGroup never goes below zero, which panics in Go,
\* nor above one, and no more callbacks run for a message than there are patterns.
THEOREM MqttTypeCorrect == Spec => []TypeOK
  <1>1. IInv => TypeOK
    BY DEF IInv
  <1> QED
    BY <1>1, MqttInductive, PTL

\* Shutdown waits before it cancels, so a callback may start its handlers behind it, but
\* never more than one.
THEOREM MqttOneRunPastCancel == Spec => []OneRunPastCancel
  <1>1. IInv => OneRunPastCancel
    BY DEF IInv, StopInv, OneRunPastCancel
  <1> QED
    BY <1>1, MqttInductive, PTL

\* With AutoAckDisabled only messages whose handlers have ended and whose pattern has
\* AutoACK are acknowledged; without it a message nobody worked on only when no pattern
\* matches it or Shutdown has cancelled.
THEOREM MqttAckedAsAsked == Spec => []AckedAsAsked
  <1>1. IInv => AckedAsAsked
    BY DEF IInv
  <1> QED
    BY <1>1, MqttInductive, PTL

-----------------------------------------------------------------------------
(* No standstill: but for a handler that waits for the answer to its own        *)
(* publication, somebody can always go on                                       *)

\* What the actions of the constructor and of Serve, of the client, of the broker and of
\* Shutdown wait for.
CanServe == (serve = "mount" /\ ~ panicked) \/ serve = "subscribe"

CanClient ==
    \/ at = "idle" /\ inbox # <<>> /\ Head(inbox) \in Msgs
    \/ at \in {"check", "add", "handle", "finish", "return"}
    \/ /\ at = "token"
       /\ \/ stop = "returned"
          \/ \E i \in 1..Len(inbox) : inbox[i] = PubAck /\ i <= ClientBuffer + 1

CanReconnect == ~ conn /\ stop \notin StopOver

CanSend(m) == conn /\ m \in stored \ sent

CanStop ==
    \/ stop \in {"waiting", "woken", "waited", "met"}
    \/ stop = "cancelled" /\ serve = "waiting"

\* A callback that runs and a Shutdown that was called can go on, or wait for Serve, for the
\* client or for the connection, which can; a message the session holds can be sent, is
\* being worked on, was, or never will be: it came before Serve had subscribed, no
\* subscription of this process fits it, or no pattern matches.  The one exception is a
\* handler that is stuck.
NoStandstill ==
    \/ Stuck
    \/ /\ at # "idle" => CanClient \/ CanReconnect
       /\ stop \notin {"idle"} \cup StopOver =>
             CanStop \/ CanServe \/ CanClient \/ CanReconnect
       /\ serve = "waiting" /\ stop = "idle" =>
             \A m \in stored \ (handled \cup early) :
                 Fitting(routes, m) # {} /\ Selected(m) # None =>
                     CanSend(m) \/ CanClient \/ CanReconnect

\* What is between the connection and the client.
Holds(e) == \E i \in 1..Len(inbox) : inbox[i] = e

\* The answer to a publication is there once, for the handler that waits for it, unless the
\* connection is lost: then nothing is there, and nothing counts as sent.
AnswerInv ==
    /\ ~ conn => inbox = <<>> /\ sent = {}
    /\ \A i, j \in 1..Len(inbox) : inbox[i] = PubAck /\ inbox[j] = PubAck => i = j
    /\ Holds(PubAck) => at = "token"
    /\ at = "token" /\ conn => Holds(PubAck)

\* Serve is there to meet Shutdown, which has disconnected when it returns, and sleeps
\* only while a callback runs that will wake it.
MeetInv ==
    /\ stop \in {"waiting", "asleep", "woken", "waited", "cancelled"}
           => serve \in {"subscribe", "waiting"}
    /\ stop = "asleep" => wg = 1
    /\ stop \in StopOver => ~ conn
    /\ stop = "panicked" => at = "idle"

\* No subscription of this process fits the message, and none will.
Unrouted(m) == serve # "mount" /\ tried = mounted /\ Fitting(routes, m) = {}

\* What was sent is still to be read or being worked on, or was dealt with for good.
SentInv ==
    \A m \in sent :
        \/ Holds(m)
        \/ at # "idle" /\ cur = m
        \/ m \in handled \cup early \/ cancelled
        \/ serve # "mount" /\ Selected(m) = None
        \/ Unrouted(m)

StandInv == AnswerInv /\ MeetInv /\ SentInv

\* Only Shutdown moves its stages on, and Serve returns when they meet.
LEMMA MeetStep == IInv /\ AnswerInv /\ MeetInv /\ [Next]_vars => MeetInv'
  <1> SUFFICES ASSUME IInv, AnswerInv, MeetInv, [Next]_vars PROVE MeetInv'
    OBVIOUS
  <1>0. wg \in 0..1 /\ CallInv
    BY DEF IInv, TypeOK
  <1> USE DEF StopOver, serveVars, stopVars, callVars
  <1>1. CASE Mount \/ ServeNext \/ Lose \/ Reconnect
    BY <1>1 DEF MeetInv, Mount, ServeNext, Serve, Subscribed, Subscribe, Lose, Reconnect
  <1>2. CASE CallShutdown \/ StopNext
    <2>1. CASE CallShutdown \/ Wait \/ Wake
      BY <1>0, <2>1 DEF MeetInv, CallShutdown, Wait, Wake
    <2>2. CASE WakePanics
      BY <2>2 DEF MeetInv, WakePanics
    <2>3. CASE Cancel \/ Meet \/ Disconnect
      BY <2>3 DEF MeetInv, Cancel, Meet, Disconnect
    <2> QED
      BY <1>2, <2>1, <2>2, <2>3 DEF StopNext
  <1>3. CASE ClientNext
    <2>1. stop # "panicked"
      <3>1. CASE Receive
        BY <3>1 DEF Receive, AnswerInv, MeetInv
      <3>2. CASE ~ Receive
        <4>1. at # "idle"
          BY <1>3, <3>2 DEF ClientNext, Check, Add, HandlersEnd, PublishMessage, TokenDone,
             Finish, Return, Goto
        <4> QED
          BY <4>1 DEF MeetInv
      <3> QED
        BY <3>1, <3>2
    <2>2. UNCHANGED <<serve, conn>>
      BY <1>3 DEF ClientNext, Receive, Check, Add, HandlersEnd, PublishMessage, TokenDone,
         Finish, Return
    <2>3. CASE Finish
      <3>1. /\ at = "finish" /\ wg' = wg - 1
            /\ stop' = IF stop = "asleep" /\ wg' = 0 THEN "woken" ELSE stop
        BY <2>3 DEF Finish, Goto, Awaken
      <3>2. wg = 1
        BY <1>0, <3>1 DEF CallInv
      <3> QED
        BY <2>1, <2>2, <3>1, <3>2 DEF MeetInv
    <2>4. CASE ~ Finish
      <3>1. stop' = stop
        BY <1>3, <2>4 DEF ClientNext, Receive, Check, Add, HandlersEnd, PublishMessage,
           TokenDone, Return
      <3>2. wg' = wg \/ at = "add"
        BY <1>3, <2>4 DEF ClientNext, Receive, Check, Add, HandlersEnd, PublishMessage,
           TokenDone, Return, Goto
      <3>3. at = "add" => wg = 0
        BY <1>0 DEF CallInv
      <3> QED
        BY <2>1, <2>2, <3>1, <3>2, <3>3 DEF MeetInv
    <2> QED
      BY <2>3, <2>4
  <1>4. CASE SendNext \/ (\E m \in Msgs : Publish(m)) \/ UNCHANGED vars
    BY <1>4 DEF MeetInv, SendNext, Send, Publish, vars
  <1> QED
    BY <1>1, <1>2, <1>3, <1>4 DEF Next

\* What is left of a queue without its first element.
LEMMA TailElements ==
  ASSUME NEW S, NEW s \in Seq(S), s # <<>>
  PROVE  /\ Len(Tail(s)) = Len(s) - 1 /\ Len(s) \in Nat \ {0} /\ Head(s) = s[1]
         /\ \A i \in 1..Len(Tail(s)) : i + 1 \in 1..Len(s) /\ Tail(s)[i] = s[i + 1]
         /\ \A i \in 1..Len(s) : i # 1 => i - 1 \in 1..Len(Tail(s)) /\ Tail(s)[i - 1] = s[i]
  <1>1. Len(Tail(s)) = Len(s) - 1 /\ Len(s) \in Nat \ {0} /\ Head(s) = s[1]
    BY EmptySeq, LenProperties
  <1>2. \A i \in 1..Len(s) - 1 : Tail(s)[i] = s[i + 1]
    OBVIOUS
  <1> HIDE DEF Tail
  <1>3. \A i \in 1..Len(Tail(s)) : i + 1 \in 1..Len(s) /\ Tail(s)[i] = s[i + 1]
    BY <1>1, <1>2
  <1>4. ASSUME NEW i \in 1..Len(s), i # 1
        PROVE  i - 1 \in 1..Len(Tail(s)) /\ Tail(s)[i - 1] = s[i]
    <2>1. i - 1 \in 1..Len(s) - 1 /\ (i - 1) + 1 = i
      BY <1>1, <1>4
    <2> QED
      BY <1>1, <1>2, <2>1
  <1> QED
    BY <1>1, <1>3, <1>4

\* A queue without one of its elements.
Without(s, i) == SubSeq(s, 1, i - 1) \o SubSeq(s, i + 1, Len(s))

\* What is left of a queue without one of its elements.
LEMMA RemovedElements ==
  ASSUME NEW S, NEW s \in Seq(S), NEW i \in 1..Len(s)
  PROVE  LET r == Without(s, i) IN
         /\ Len(s) \in Nat /\ Len(r) = Len(s) - 1
         /\ \A j \in 1..Len(r) : r[j] = IF j < i THEN s[j] ELSE s[j + 1]
         /\ \A k \in 1..Len(s) : k # i => \E j \in 1..Len(r) : r[j] = s[k]
         /\ \A j \in 1..Len(r) : \E k \in 1..Len(s) \ {i} : r[j] = s[k]
  <1> DEFINE r == Without(s, i)
             a == SubSeq(s, 1, i - 1)
             b == SubSeq(s, i + 1, Len(s))
  <1>1. Len(s) \in Nat /\ i \in Nat /\ 1 <= i /\ i <= Len(s)
    OBVIOUS
  <1>2. /\ a \in Seq(S) /\ Len(a) = i - 1
        /\ \A j \in 1..(i - 1) : a[j] = s[j]
    BY <1>1
  <1>3. /\ b \in Seq(S) /\ Len(b) = Len(s) - i
        /\ \A j \in 1..(Len(s) - i) : b[j] = s[i + j]
    BY <1>1
  <1>5. r = a \o b
    BY DEF Without
  <1> HIDE DEF a, b, r
  <1>4. /\ Len(a \o b) = Len(a) + Len(b)
        /\ \A j \in 1..(Len(a) + Len(b)) :
              (a \o b)[j] = IF j <= Len(a) THEN a[j] ELSE b[j - Len(a)]
    BY <1>2, <1>3, ConcatProperties
  <1>6. Len(r) = Len(s) - 1
    <2>1. Len(a) = i - 1 /\ Len(b) = Len(s) - i
      BY <1>2, <1>3
    <2>2. Len(a) + Len(b) = Len(s) - 1
      BY <1>1, <2>1
    <2>3. Len(a \o b) = Len(a) + Len(b)
      BY <1>4
    <2> QED
      BY <1>5, <2>2, <2>3
  <1>7. ASSUME NEW j \in 1..Len(r) PROVE r[j] = IF j < i THEN s[j] ELSE s[j + 1]
    <2>1. j \in 1..(Len(a) + Len(b))
      BY <1>1, <1>2, <1>3, <1>6
    <2>2. CASE j < i
      <3>1. j \in 1..(i - 1) /\ j <= Len(a)
        BY <1>2, <2>2
      <3> QED
        BY <1>2, <1>4, <1>5, <2>1, <2>2, <3>1
    <2>3. CASE ~ (j < i)
      <3>1. j - (i - 1) \in 1..(Len(s) - i) /\ i + (j - (i - 1)) = j + 1
            /\ ~ (j <= Len(a)) /\ j - Len(a) = j - (i - 1)
        BY <1>1, <1>2, <1>6, <2>3
      <3> QED
        BY <1>3, <1>4, <1>5, <2>1, <2>3, <3>1
    <2> QED
      BY <2>2, <2>3
  <1>8. ASSUME NEW k \in 1..Len(s), k # i PROVE \E j \in 1..Len(r) : r[j] = s[k]
    <2>1. CASE k < i
      <3>1. k \in 1..Len(r)
        BY <1>1, <1>6, <2>1
      <3> QED
        BY <1>7, <2>1, <3>1
    <2>2. CASE k > i
      <3>1. k - 1 \in 1..Len(r) /\ ~ (k - 1 < i) /\ (k - 1) + 1 = k
        BY <1>1, <1>6, <2>2
      <3> QED
        BY <1>7, <3>1
    <2> QED
      BY <1>1, <1>8, <2>1, <2>2
  <1>9. ASSUME NEW j \in 1..Len(r) PROVE \E k \in 1..Len(s) \ {i} : r[j] = s[k]
    <2>1. CASE j < i
      BY <1>1, <1>6, <1>7, <2>1
    <2>2. CASE ~ (j < i)
      <3>1. j + 1 \in 1..Len(s) \ {i}
        BY <1>1, <1>6, <2>2
      <3> QED
        BY <1>7, <2>2, <3>1
    <2> QED
      BY <2>1, <2>2
  <1> QED
    BY <1>1, <1>6, <1>7, <1>8, <1>9 DEF r

\* The queue before the client loses its first element, gains at its end, or loses the
\* answer a handler has waited for.
LEMMA HoldsTail ==
  ASSUME TypeOK, inbox # <<>>, inbox' = Tail(inbox), NEW e
  PROVE  Holds(e) <=> e = Head(inbox) \/ Holds(e)'
  <1>1. inbox \in Seq(Msgs \cup {PubAck})
    BY DEF TypeOK
  <1>2. 1 \in 1..Len(inbox) /\ Head(inbox) = inbox[1]
    BY <1>1, TailElements
  <1>3. ASSUME NEW i \in 1..Len(inbox), inbox[i] = e PROVE e = Head(inbox) \/ Holds(e)'
    <2>1. i = 1 \/ (i - 1 \in 1..Len(Tail(inbox)) /\ Tail(inbox)[i - 1] = inbox[i])
      BY <1>1, TailElements
    <2> QED
      BY <1>2, <1>3, <2>1 DEF Holds
  <1>4. ASSUME NEW i \in 1..Len(inbox'), inbox'[i] = e PROVE Holds(e)
    <2>1. i + 1 \in 1..Len(inbox) /\ Tail(inbox)[i] = inbox[i + 1]
      BY <1>1, TailElements
    <2> QED
      BY <1>4, <2>1 DEF Holds
  <1> QED
    BY <1>2, <1>3, <1>4 DEF Holds

\* What is put behind the queue is what is new in it.
LEMMA HoldsMore ==
  ASSUME TypeOK, NEW r \in Seq(Msgs \cup {PubAck}), inbox' = inbox \o r
  PROVE  /\ Len(inbox) \in Nat /\ Len(r) \in Nat /\ Len(inbox') = Len(inbox) + Len(r)
         /\ \A i \in 1..Len(inbox) : i \in 1..Len(inbox') /\ inbox'[i] = inbox[i]
         /\ \A i \in 1..Len(r) : /\ Len(inbox) + i \in 1..Len(inbox')
                                 /\ inbox'[Len(inbox) + i] = r[i]
         /\ \A i \in 1..Len(inbox') :
               i \in 1..Len(inbox) \/ i - Len(inbox) \in 1..Len(r)
  <1> DEFINE s == inbox
  <1>1. s \in Seq(Msgs \cup {PubAck}) /\ Len(s) \in Nat /\ Len(r) \in Nat
    BY DEF TypeOK
  <1>2. inbox' = s \o r
    OBVIOUS
  <1> HIDE DEF s
  <1>3. /\ Len(s \o r) = Len(s) + Len(r)
        /\ \A i \in 1..Len(s) + Len(r) :
              (s \o r)[i] = IF i <= Len(s) THEN s[i] ELSE r[i - Len(s)]
    BY <1>1, ConcatProperties
  <1>4. Len(inbox') = Len(s) + Len(r)
    BY <1>2, <1>3
  <1>5. ASSUME NEW i \in 1..Len(s) PROVE i \in 1..Len(inbox') /\ inbox'[i] = s[i]
    <2>1. i \in 1..Len(s) + Len(r) /\ i <= Len(s)
      BY <1>1
    <2> QED
      BY <1>2, <1>3, <1>4, <2>1
  <1>6. ASSUME NEW i \in 1..Len(r)
        PROVE  Len(s) + i \in 1..Len(inbox') /\ inbox'[Len(s) + i] = r[i]
    <2>1. /\ Len(s) + i \in 1..Len(s) + Len(r) /\ ~ (Len(s) + i <= Len(s))
          /\ (Len(s) + i) - Len(s) = i
      BY <1>1
    <2> QED
      BY <1>2, <1>3, <1>4, <2>1
  <1>7. \A i \in 1..Len(inbox') : i \in 1..Len(s) \/ i - Len(s) \in 1..Len(r)
    BY <1>1, <1>4
  <1> QED
    BY <1>1, <1>4, <1>5, <1>6, <1>7 DEF s

\* The answer is put behind the messages when a handler publishes, and taken out for it;
\* what else happens to the queue happens without one in it.
LEMMA AnswerStep == IInv /\ MeetInv /\ AnswerInv /\ [Next]_vars => AnswerInv'
  <1> SUFFICES ASSUME IInv, MeetInv, AnswerInv, [Next]_vars PROVE AnswerInv'
    OBVIOUS
  <1>0. TypeOK /\ CallInv
    BY DEF IInv
  <1>q. inbox \in Seq(Msgs \cup {PubAck})
    BY <1>0 DEF TypeOK
  <1> USE DEF serveVars, sessionVars, callVars
  <1>1. ASSUME UNCHANGED <<inbox, conn, at>>, sent' \subseteq sent PROVE AnswerInv'
    BY <1>1 DEF AnswerInv, Holds
  <1>2. CASE \/ Mount \/ ServeNext \/ CallShutdown \/ Wait \/ Wake \/ Cancel \/ Meet
             \/ (\E m \in Msgs : Publish(m)) \/ UNCHANGED vars
    <2>1. UNCHANGED <<inbox, conn, at, sent>>
      BY <1>2 DEF Mount, ServeNext, Serve, Subscribed, Subscribe, CallShutdown, Wait,
         Wake, Cancel, Meet, Publish, vars
    <2> QED
      BY <1>1, <2>1
  <1>3. CASE Lose \/ Disconnect \/ WakePanics
    <2>1. conn' = FALSE /\ inbox' = <<>> /\ sent' = {}
      BY <1>3 DEF Lose, Disconnect, WakePanics
    <2>2. Len(inbox') = 0
      BY <2>1
    <2> QED
      BY <2>1, <2>2 DEF AnswerInv, Holds
  <1>4. CASE Reconnect
    <2>1. conn' /\ at' = at /\ inbox' = IF at = "token" THEN <<PubAck>> ELSE <<>>
      BY <1>4 DEF Reconnect
    <2>2. CASE at = "token"
      <3>1. Len(inbox') = 1 /\ inbox'[1] = PubAck
        BY <2>1, <2>2
      <3> QED
        BY <2>1, <2>2, <3>1 DEF AnswerInv, Holds
    <2>3. CASE at # "token"
      <3>1. Len(inbox') = 0
        BY <2>1, <2>3
      <3> QED
        BY <2>1, <2>3, <3>1 DEF AnswerInv, Holds
    <2> QED
      BY <2>2, <2>3
  <1>5. ASSUME NEW m \in Msgs, Send(m) PROVE AnswerInv'
    <2>1. PICK n \in {1, Cardinality(Fitting(subs, m))} \ {0} :
              inbox' = inbox \o [i \in 1..n |-> m]
      BY <1>5 DEF Send
    <2> DEFINE r == [i \in 1..n |-> m]
    <2>2. subs \in SUBSET Patterns
      BY <1>0 DEF TypeOK
    <2>3. n \in Nat
      BY <2>2, FittingCounted
    <2>4. r \in Seq(Msgs \cup {PubAck}) /\ \A i \in 1..Len(r) : r[i] = m
      BY <2>3
    <2>5. inbox' = inbox \o r
      BY <2>1
    <2> HIDE DEF r
    <2>6. m # PubAck
      BY MqttSubscriberAssumption
    <2>7. \A i \in 1..Len(inbox') :
             inbox'[i] = PubAck => i \in 1..Len(inbox) /\ inbox[i] = PubAck
      <3> SUFFICES ASSUME NEW i \in 1..Len(inbox'), inbox'[i] = PubAck, i \notin 1..Len(inbox)
                   PROVE  FALSE
        BY <1>0, <2>4, <2>5, HoldsMore
      <3>1. i - Len(inbox) \in 1..Len(r) /\ Len(inbox) + (i - Len(inbox)) = i
        BY <1>0, <2>4, <2>5, HoldsMore
      <3>2. inbox'[i] = r[i - Len(inbox)]
        BY <1>0, <2>4, <2>5, <3>1, HoldsMore
      <3> QED
        BY <2>4, <2>6, <3>1, <3>2
    <2>8. conn /\ conn' /\ at' = at
      BY <1>5 DEF Send
    <2>9. Holds(PubAck) => Holds(PubAck)'
      BY <1>0, <2>4, <2>5, HoldsMore DEF Holds
    <2>10. Holds(PubAck)' => Holds(PubAck)
      BY <2>7 DEF Holds
    <2> QED
      BY <2>7, <2>8, <2>9, <2>10 DEF AnswerInv
  <1>6. CASE Receive
    <2>1. /\ inbox # <<>> /\ inbox' = Tail(inbox) /\ at = "idle" /\ at' \in {"idle", "check"}
          /\ UNCHANGED <<conn, sent>>
      BY <1>6 DEF Receive
    <2>2. ~ Holds(PubAck)
      BY <2>1 DEF AnswerInv
    <2>3. ~ Holds(PubAck)'
      BY <1>0, <2>1, <2>2, HoldsTail
    <2>4. conn
      BY <2>1 DEF AnswerInv
    <2> QED
      BY <2>1, <2>3, <2>4 DEF AnswerInv, Holds
  <1>7. CASE Check \/ Add \/ HandlersEnd
    <2>1. UNCHANGED <<inbox, conn, sent>> /\ at # "token" /\ at' # "token"
      BY <1>7 DEF Check, Add, HandlersEnd, Goto
    <2> QED
      BY <2>1 DEF AnswerInv, Holds
  <1>8. CASE Finish \/ Return
    <2>1. sent' \subseteq sent
      BY <1>8 DEF Finish, Return, Settle
    <2>2. UNCHANGED <<inbox, conn>> /\ at # "token" /\ at' # "token"
      BY <1>8 DEF Finish, Return, Goto
    <2> QED
      BY <2>1, <2>2 DEF AnswerInv, Holds
  <1>9. CASE PublishMessage
    <2>1. /\ at = "handle" /\ at' = "token" /\ UNCHANGED <<conn, sent>>
          /\ inbox' = IF conn THEN Append(inbox, PubAck) ELSE inbox
      BY <1>9 DEF PublishMessage, Goto
    <2>2. ~ Holds(PubAck)
      BY <2>1 DEF AnswerInv
    <2>3. CASE ~ conn
      BY <2>1, <2>2, <2>3 DEF AnswerInv, Holds
    <2>4. CASE conn
      <3>1. /\ Len(inbox) \in Nat /\ Len(inbox') = Len(inbox) + 1
            /\ inbox'[Len(inbox) + 1] = PubAck
            /\ \A i \in 1..Len(inbox) : inbox'[i] = inbox[i]
        BY <1>q, <2>1, <2>4, AppendProperties
      <3>2. Holds(PubAck)'
        BY <3>1 DEF Holds
      <3>3. \A i \in 1..Len(inbox') : inbox'[i] = PubAck => i = Len(inbox) + 1
        BY <2>2, <3>1 DEF Holds
      <3> QED
        BY <2>1, <2>4, <3>2, <3>3 DEF AnswerInv
    <2> QED
      BY <2>3, <2>4
  <1>10. CASE TokenDone
    <2>1. at = "token" /\ at' = "finish" /\ UNCHANGED <<conn, sent>>
      BY <1>10 DEF TokenDone, Goto
    <2>2. CASE stop = "returned" /\ UNCHANGED inbox
      <3>1. ~ Holds(PubAck)
        BY <2>2, EmptySeq DEF MeetInv, AnswerInv, Holds, StopOver
      <3> QED
        BY <2>1, <2>2, <3>1 DEF AnswerInv, Holds
    <2>3. ASSUME NEW i \in 1..Len(inbox), inbox[i] = PubAck, inbox' = Without(inbox, i)
          PROVE  AnswerInv'
      <3>1. conn
        <4>1. inbox # <<>>
          BY <2>3
        <4> QED
          BY <4>1 DEF AnswerInv
      <3>2. ASSUME NEW j \in 1..Len(inbox'), inbox'[j] = PubAck PROVE FALSE
        <4> DEFINE r == Without(inbox, i)
        <4>0. \A l \in 1..Len(r) : \E k \in 1..Len(inbox) \ {i} : r[l] = inbox[k]
          BY <1>q, RemovedElements
        <4> HIDE DEF r
        <4>r. inbox' = r
          BY <2>3 DEF r
        <4>1. PICK k \in 1..Len(inbox) \ {i} : inbox'[j] = inbox[k]
          BY <4>0, <4>r
        <4> QED
          BY <2>3, <3>2, <4>1 DEF AnswerInv
      <3> QED
        BY <2>1, <3>1, <3>2 DEF AnswerInv, Holds
    <2> QED
      BY <1>10, <2>2, <2>3 DEF TokenDone, Without
  <1> QED
    BY <1>2, <1>3, <1>4, <1>5, <1>6, <1>7, <1>8, <1>9, <1>10 DEF Next, ClientNext, StopNext,
       SendNext

\* Once Serve has subscribed, what a subscription of this process fits is settled; what
\* came in too early, was handled or was cancelled stays so.
LEMMA DoneKept ==
  ASSUME IInv, [Next]_vars, NEW m
  PROVE  /\ handled \subseteq handled' /\ early \subseteq early' /\ (cancelled => cancelled')
         /\ serve # "mount" /\ Selected(m) = None => serve' # "mount" /\ Selected(m)' = None
         /\ Unrouted(m) => Unrouted(m)'
  <1>0. TypeOK /\ MountInv
    BY DEF IInv
  <1>1. handled \subseteq handled' /\ (cancelled => cancelled')
    BY Monotone
  <1> USE DEF serveVars, sessionVars, callVars, histories, routerVars
  <1>2. /\ early \subseteq early'
        /\ serve # "mount" => /\ serve' # "mount" /\ mounted' = mounted
                              /\ tried = mounted => UNCHANGED <<tried, routes>>
    <2>1. CASE Mount \/ Serve \/ Subscribed \/ \E p \in Patterns : Subscribe(p)
      BY <2>1 DEF Mount, Serve, Subscribed, Subscribe
    <2>2. CASE CallShutdown \/ StopNext \/ Lose \/ Reconnect
      BY <2>2 DEF CallShutdown, StopNext, Wait, Wake, WakePanics, Cancel, Meet, Disconnect,
         Lose, Reconnect
    <2>3. CASE Receive \/ Check \/ Add \/ HandlersEnd
      BY <2>3 DEF Receive, Check, Add, HandlersEnd
    <2>4. CASE PublishMessage \/ TokenDone
      BY <2>4 DEF PublishMessage, TokenDone
    <2>5. CASE Finish \/ Return
      BY <2>5 DEF Finish, Return
    <2>6. CASE SendNext \/ (\E n \in Msgs : Publish(n)) \/ UNCHANGED vars
      BY <2>6 DEF SendNext, Send, Publish, vars
    <2> QED
      BY <2>1, <2>2, <2>3, <2>4, <2>5, <2>6 DEF Next, ServeNext, ClientNext
  <1>3. serve # "mount" => Selected(m)' = Selected(m)
    BY <1>0, SelectedSame
  <1>4. routes' = routes => Fitting(routes, m)' = Fitting(routes, m)
    BY DEF Fitting, Filters, Router!Fits, Router!Filter, Router!Trim
  <1> QED
    BY <1>1, <1>2, <1>3, <1>4 DEF Unrouted

\* A message that was sent is read, worked on and dealt with, in this order.
LEMMA SentStep == IInv /\ AnswerInv /\ SentInv /\ [Next]_vars => SentInv'
  <1> SUFFICES ASSUME IInv, AnswerInv, SentInv, [Next]_vars, NEW m \in sent'
               PROVE  \/ Holds(m)'
                      \/ at' # "idle" /\ cur' = m
                      \/ m \in handled' \cup early' \/ cancelled'
                      \/ serve' # "mount" /\ Selected(m)' = None
                      \/ Unrouted(m)'
    BY DEF SentInv, Selected
  <1> DEFINE Dealt == \/ m \in handled \cup early \/ cancelled
                      \/ serve # "mount" /\ Selected(m) = None
                      \/ Unrouted(m)
             Left == \/ m \in handled' \cup early' \/ cancelled'
                     \/ serve' # "mount" /\ Selected(m)' = None
                     \/ Unrouted(m)'
  <1>0. TypeOK /\ MountInv /\ CallInv /\ HandledInv
    BY DEF IInv
  <1>q. inbox \in Seq(Msgs \cup {PubAck})
    BY <1>0 DEF TypeOK
  <1>d. Dealt => Left
    BY DoneKept
  <1>s. m \in sent => Holds(m) \/ (at # "idle" /\ cur = m) \/ Dealt
    BY DEF SentInv
  <1> HIDE DEF Dealt
  <1> USE DEF serveVars, sessionVars, callVars
  <1>1. ASSUME m \in sent, Holds(m) => Holds(m)',
               at # "idle" /\ cur = m => (at' # "idle" /\ cur' = m) \/ Left
        PROVE  Holds(m)' \/ (at' # "idle" /\ cur' = m) \/ Left
    BY <1>1, <1>d, <1>s
  <1>2. CASE \/ Mount \/ ServeNext \/ CallShutdown \/ Wait \/ Wake \/ Cancel \/ Meet
             \/ (\E n \in Msgs : Publish(n)) \/ UNCHANGED vars
    <2>1. UNCHANGED <<inbox, at, cur, sent>>
      BY <1>2 DEF Mount, ServeNext, Serve, Subscribed, Subscribe, CallShutdown, Wait,
         Wake, Cancel, Meet, Publish, vars
    <2> QED
      BY <1>1, <2>1 DEF Holds
  <1>3. CASE Lose \/ Disconnect \/ WakePanics
    <2>1. sent' = {}
      BY <1>3 DEF Lose, Disconnect, WakePanics
    <2> QED
      BY <2>1
  <1>4. CASE Reconnect
    <2>1. ~ conn /\ sent' = sent
      BY <1>4 DEF Reconnect
    <2> QED
      BY <2>1 DEF AnswerInv
  <1>5. ASSUME NEW n \in Msgs, Send(n) PROVE Holds(m)' \/ (at' # "idle" /\ cur' = m) \/ Left
    <2>1. PICK k \in {1, Cardinality(Fitting(subs, n))} \ {0} :
              inbox' = inbox \o [i \in 1..k |-> n]
      BY <1>5 DEF Send
    <2> DEFINE r == [i \in 1..k |-> n]
    <2>2. subs \in SUBSET Patterns
      BY <1>0 DEF TypeOK
    <2>3. k \in Nat \ {0}
      BY <2>2, FittingCounted
    <2>4. r \in Seq(Msgs \cup {PubAck}) /\ Len(r) = k /\ 1 \in 1..Len(r) /\ r[1] = n
      BY <2>3
    <2>5. inbox' = inbox \o r
      BY <2>1
    <2> HIDE DEF r
    <2>6. Holds(n)'
      BY <1>0, <2>4, <2>5, HoldsMore DEF Holds
    <2>7. Holds(m) => Holds(m)'
      BY <1>0, <2>4, <2>5, HoldsMore DEF Holds
    <2>8. m \in sent \/ m = n
      BY <1>5 DEF Send
    <2>9. at' = at /\ cur' = cur
      BY <1>5 DEF Send
    <2> QED
      BY <1>1, <2>6, <2>7, <2>8, <2>9
  <1>6. CASE Receive
    <2>1. /\ inbox # <<>> /\ inbox' = Tail(inbox) /\ at = "idle" /\ sent' = sent
      BY <1>6 DEF Receive
    <2>2. Holds(m) => m = Head(inbox) \/ Holds(m)'
      BY <1>0, <2>1, HoldsTail
    <2>3. CASE m = Head(inbox)
      <3> DEFINE n == Cardinality(Fitting(routes, m))
      <3>1. routes \in SUBSET Patterns
        BY <1>0 DEF TypeOK, MountInv
      <3>2. n \in Nat
        BY <3>1, FittingCounted
      <3>3. CASE n > 0
        BY <1>6, <2>3, <3>3 DEF Receive
      <3>4. CASE ~ (n > 0)
        <4>1. n = 0
          BY <3>2, <3>4
        <4>2. Fitting(routes, m) = {}
          <5>1. IsFiniteSet(Fitting(routes, m))
            BY <3>1, FittingCounted
          <5> QED
            BY <4>1, <5>1, FS_EmptySet
        <4>3. m \in early' \/ (tried = mounted /\ serve # "mount")
          BY <1>6, <2>3, <3>4 DEF Receive
        <4>4. Unrouted(m) \/ m \in early'
          BY <4>2, <4>3 DEF Unrouted
        <4> QED
          BY <1>d, <4>4 DEF Dealt
      <3> QED
        BY <3>3, <3>4
    <2>4. CASE m # Head(inbox)
      BY <1>1, <2>1, <2>2, <2>4
    <2> QED
      BY <2>3, <2>4
  <1>7. CASE Check \/ Add \/ HandlersEnd \/ Finish
    <2>1. sent' \subseteq sent
      BY <1>7 DEF Check, Add, HandlersEnd, Finish, Settle
    <2>2. UNCHANGED <<inbox, cur>> /\ at' # "idle"
      BY <1>7 DEF Check, Add, HandlersEnd, Finish, Goto
    <2> QED
      BY <1>1, <2>1, <2>2 DEF Holds
  <1>8. CASE PublishMessage
    <2>1. /\ at' = "token" /\ UNCHANGED <<cur, sent>>
          /\ inbox' = IF conn THEN Append(inbox, PubAck) ELSE inbox
      BY <1>8 DEF PublishMessage, Goto
    <2>2. Holds(m) => Holds(m)'
      <3>1. CASE conn
        <4>1. /\ Len(inbox) \in Nat /\ Len(inbox') = Len(inbox) + 1
              /\ \A i \in 1..Len(inbox) : inbox'[i] = inbox[i]
          BY <1>q, <2>1, <3>1, AppendProperties
        <4> QED
          BY <4>1 DEF Holds
      <3>2. CASE ~ conn
        BY <2>1, <3>2 DEF Holds
      <3> QED
        BY <3>1, <3>2
    <2> QED
      BY <1>1, <2>1, <2>2
  <1>9. CASE TokenDone
    <2>1. at' = "finish" /\ UNCHANGED <<cur, sent>>
      BY <1>9 DEF TokenDone, Goto
    <2>2. m # PubAck
      BY <1>0, <2>1, MqttSubscriberAssumption DEF TypeOK
    <2>3. CASE UNCHANGED inbox
      BY <1>1, <2>1, <2>3 DEF Holds
    <2>4. ASSUME NEW i \in 1..Len(inbox), inbox[i] = PubAck, inbox' = Without(inbox, i)
          PROVE  Holds(m) => Holds(m)'
      <3> SUFFICES ASSUME NEW k \in 1..Len(inbox), inbox[k] = m PROVE Holds(m)'
        BY DEF Holds
      <3> DEFINE r == Without(inbox, i)
      <3>1. \A l \in 1..Len(inbox) : l # i => \E j \in 1..Len(r) : r[j] = inbox[l]
        BY <1>q, RemovedElements
      <3> HIDE DEF r
      <3>2. inbox' = r
        BY <2>4 DEF r
      <3>3. k # i
        BY <2>2, <2>4
      <3> QED
        BY <3>1, <3>2, <3>3 DEF Holds
    <2>5. (Holds(m) => Holds(m)') \/ UNCHANGED inbox
      BY <1>9, <2>4 DEF TokenDone, Without
    <2> QED
      BY <1>1, <2>1, <2>3, <2>5
  <1>10. CASE Return
    <2>1. /\ sent' \subseteq sent /\ UNCHANGED inbox /\ at = "return"
          /\ (at' = "idle" \/ cur' = cur)
      BY <1>10 DEF Return, Settle
    <2>2. CASE at' # "idle"
      BY <1>1, <2>1, <2>2 DEF Holds
    <2>3. cur = m => Dealt
      BY <1>0, <2>1 DEF HandledInv, MountInv, Dealt
    <2> QED
      BY <1>1, <1>d, <2>1, <2>3 DEF Holds
  <1> QED
    BY <1>2, <1>3, <1>4, <1>5, <1>6, <1>7, <1>8, <1>9, <1>10 DEF Next, ClientNext, StopNext,
       SendNext

\* The inductive invariant, with where a sent message and an answer are.
THEOREM MqttStandInductive == Spec => [](IInv /\ StandInv)
  <1>1. Init => StandInv
    BY DEF Init, StandInv, AnswerInv, MeetInv, SentInv, Holds, StopOver
  <1>2. IInv /\ StandInv /\ [Next]_vars => StandInv'
    BY AnswerStep, MeetStep, SentStep DEF StandInv
  <1> QED
    BY <1>1, <1>2, MqttInductive, PTL DEF Spec

\* A callback that runs can go on, or waits for the connection, or is stuck.
LEMMA CallbackGoesOn ==
  ASSUME IInv, StandInv, at # "idle"
  PROVE  CanClient \/ CanReconnect \/ Stuck
  <1>1. at \in {"check", "add", "handle", "token", "finish", "return"}
    BY DEF IInv, TypeOK
  <1>2. CASE at # "token"
    BY <1>1, <1>2 DEF CanClient
  <1>3. CASE at = "token" /\ ~ conn
    BY <1>3 DEF CanClient, CanReconnect, StandInv, MeetInv, StopOver
  <1>4. CASE at = "token" /\ conn
    <2>1. PICK i \in 1..Len(inbox) : inbox[i] = PubAck
      BY <1>4 DEF StandInv, AnswerInv, Holds
    <2>2. i \in Nat /\ ClientBuffer + 1 \in Nat
      BY MqttSubscriberAssumption
    <2>3. i <= ClientBuffer + 1 \/ i > ClientBuffer + 1
      BY <2>2
    <2> QED
      BY <1>4, <2>1, <2>3 DEF CanClient, Stuck
  <1> QED
    BY <1>2, <1>3, <1>4

\* What Shutdown, a callback and a message wait for can go on, unless a handler is stuck.
LEMMA Standing == IInv /\ StandInv => NoStandstill
  <1> SUFFICES ASSUME IInv, StandInv, ~ Stuck PROVE NoStandstill
    BY DEF NoStandstill
  <1>0. TypeOK /\ CallInv
    BY DEF IInv
  <1>1. at # "idle" => CanClient \/ CanReconnect
    BY CallbackGoesOn
  <1>2. ASSUME stop \notin {"idle"} \cup StopOver
        PROVE  CanStop \/ CanServe \/ CanClient \/ CanReconnect
    <2>1. stop \in {"waiting", "asleep", "woken", "waited", "cancelled", "met"}
      BY <1>0, <1>2 DEF TypeOK, StopOver
    <2>2. stop = "asleep" => at # "idle"
      BY <1>0 DEF CallInv, StandInv, MeetInv
    <2> QED
      BY <1>1, <2>1, <2>2 DEF StandInv, MeetInv, CanStop, CanServe
  <1>3. ASSUME serve = "waiting", stop = "idle", NEW m \in stored \ (handled \cup early),
               Fitting(routes, m) # {}, Selected(m) # None
        PROVE  CanSend(m) \/ CanClient \/ CanReconnect
    <2>1. CASE ~ conn
      BY <1>3, <2>1 DEF CanReconnect, StopOver
    <2>2. CASE conn /\ m \notin sent
      BY <1>3, <2>2 DEF CanSend
    <2>3. CASE m \in sent
      <3>1. ~ cancelled
        BY <1>3 DEF IInv, StopInv
      <3>2. Holds(m) \/ at # "idle"
        BY <1>3, <2>3, <3>1 DEF StandInv, SentInv, Unrouted
      <3>3. CASE Holds(m) /\ at = "idle"
        <4>1. inbox \in Seq(Msgs \cup {PubAck}) /\ inbox # <<>>
          BY <1>0, <3>3, EmptySeq DEF TypeOK, Holds
        <4>2. Head(inbox) = inbox[1] /\ 1 \in 1..Len(inbox)
          BY <4>1, TailElements
        <4>3. inbox[1] # PubAck
          BY <3>3, <4>2 DEF StandInv, AnswerInv, Holds
        <4>4. inbox[1] \in Msgs \cup {PubAck}
          BY <4>1, <4>2, ElementOfSeq
        <4> QED
          BY <3>3, <4>1, <4>2, <4>3, <4>4 DEF CanClient
      <3> QED
        BY <1>1, <3>2, <3>3
    <2> QED
      BY <2>1, <2>2, <2>3
  <1> QED
    BY <1>1, <1>2, <1>3 DEF NoStandstill

\* A callback, a Shutdown and a message of the session wait for nothing that cannot go on,
\* but for the handler that waits for the answer to its own publication: for any patterns,
\* messages, buffer of the client and number of lost connections.
THEOREM MqttNoStandstill == Spec => []NoStandstill
  BY MqttStandInductive, Standing, PTL
=============================================================================
