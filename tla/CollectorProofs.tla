-------------------------- MODULE CollectorProofs --------------------------
(***************************************************************************)
(* Theorems about Collector, for every number of messages and streams: its *)
(* types, what it acknowledges, takes and stores, that Stop returns and    *)
(* that a broken stream is left.                                           *)
(***************************************************************************)
EXTENDS Collector, TLAPS

-----------------------------------------------------------------------------
(* Type correctness. *)

\* What TypeOK leaves out: the variables of the queue that only Broadcast has
\* names for.
QueueTypeOK ==
  /\ topicOf \in [Subs -> Topics \cup {NoTopic}]
  /\ from \in [Subs -> 0 .. Len(log)]
  /\ shown \in [Subs -> Seq(DOMAIN log)]
  /\ limit \in [Subs -> 0 .. Len(log)]

\* A message in the collector's hands is one of the log.
InHand == pc \in {"store", "ack"} => msg \in DOMAIN log

Types == TypeOK /\ QueueTypeOK /\ InHand

\* A sequence over a set is one over any larger set.
LEMMA SeqWiden ==
  ASSUME NEW S, NEW T, S \subseteq T, NEW q \in Seq(S)
  PROVE  q \in Seq(T)
OBVIOUS

\* An interval that a longer log only widens.
LEMMA LogGrows ==
  ASSUME TypeOK, NEW m \in Message, log' = Append(log, m)
  PROVE  /\ log' \in Seq(Message)
         /\ Len(log') = Len(log) + 1
         /\ DOMAIN log \subseteq DOMAIN log'
         /\ 0 .. Len(log) \subseteq 0 .. Len(log')
         /\ \A i \in DOMAIN log : log'[i] = log[i]
BY DEF TypeOK

\* What is shown next is a position of the log beyond the last one shown.
LEMMA ShownNext ==
  ASSUME Types, NEW k \in Subs, Q!Show(k)
  PROVE  \E i \in DOMAIN log :
           /\ i > Q!Last(k)
           /\ shown' = [shown EXCEPT ![k] = Append(@, i)]
           /\ Q!Last(k)' = i
           /\ UNCHANGED <<log, status, topicOf, from, limit>>
<1>1. PICK i \in (Q!Last(k) + 1) .. Q!Horizon(k) :
        shown' = [shown EXCEPT ![k] = Append(@, i)]
  BY DEF Q!Show
<1>2. Q!Last(k) \in 0 .. Len(log)
  <2>1. shown[k] \in Seq(DOMAIN log) /\ from[k] \in 0 .. Len(log)
    BY DEF Types, QueueTypeOK
  <2>2. DOMAIN log = 1 .. Len(log) /\ Len(log) \in Nat BY DEF Types, TypeOK
  <2> QED BY <2>1, <2>2 DEF Q!Last
<1>3. Q!Horizon(k) \in 0 .. Len(log)
  BY DEF Q!Horizon, Types, QueueTypeOK, TypeOK
<1>4. i \in DOMAIN log /\ i > Q!Last(k) /\ i \in Nat
  BY <1>1, <1>2, <1>3 DEF Types, TypeOK
<1>5. shown'[k] = Append(shown[k], i) /\ shown[k] \in Seq(DOMAIN log)
  BY <1>1 DEF Types, QueueTypeOK
<1>6. Q!Last(k)' = i
  BY <1>5 DEF Q!Last
<1> QED BY <1>1, <1>4, <1>6 DEF Q!Show

\* Every step keeps every variable in its type; the log only grows, so that what
\* points into it still does.
LEMMA TypeStep ==
  ASSUME Types, [Next]_vars
  PROVE  Types'
<1> USE DEF Types, QueueTypeOK, TypeOK, InHand
<1> USE CollectorAssumption
<1>1. CASE Publish
  <2>1. PICK m \in Message : Q!Publish(m) BY <1>1 DEF Publish
  <2>2. /\ log' \in Seq(Message)
        /\ DOMAIN log \subseteq DOMAIN log'
        /\ 0 .. Len(log) \subseteq 0 .. Len(log')
    BY <2>1, LogGrows DEF Q!Publish
  <2>3. /\ wire \in Seq(DOMAIN log') /\ storage \in Seq(DOMAIN log')
        /\ stored \in Seq(DOMAIN log')
    BY <2>2, SeqWiden
  <2>4. Seq(DOMAIN log) \subseteq Seq(DOMAIN log') BY <2>2, SeqWiden
  <2>5. /\ from \in [Subs -> 0 .. Len(log')] /\ limit \in [Subs -> 0 .. Len(log')]
        /\ shown \in [Subs -> Seq(DOMAIN log')]
    BY <2>2, <2>4
  <2>6. UNCHANGED <<loopVars, linkVars, storage, ackVars, stopVars, joinedAt>>
        /\ UNCHANGED <<status, topicOf>>
    BY <1>1, <2>1 DEF Publish, Q!Publish
  <2>7. /\ msg' \in 0 .. Len(log') /\ joinedAt' \in 0 .. Len(log')
        /\ late' \subseteq DOMAIN log' /\ acked' \subseteq DOMAIN log'
        /\ pc' \in {"store", "ack"} => msg' \in DOMAIN log'
    BY <2>2, <2>6 DEF loopVars, ackVars
  <2> QED BY <2>1, <2>2, <2>3, <2>5, <2>6, <2>7
        DEF Q!Publish, loopVars, linkVars, ackVars, stopVars
<1>2. ASSUME NEW k \in Subs, Join(k) PROVE Types'
  <2>1. Len(log) \in 0 .. Len(log) OBVIOUS
  <2>2. joinedAt' \in 0 .. Len(log) BY <1>2, <2>1 DEF Join
  <2>3. /\ from' \in [Subs -> 0 .. Len(log)]
        /\ topicOf' \in [Subs -> Topics \cup {NoTopic}]
        /\ status' \in [Subs -> {"idle", "live", "gone"}]
        /\ UNCHANGED <<log, shown, limit>>
    BY <1>2, <2>1 DEF Join, Q!Join, Topics
  <2>4. UNCHANGED <<loopVars, linkVars, storage, ackVars, stopVars>>
    BY <1>2 DEF Join
  <2> QED BY <2>2, <2>3, <2>4 DEF loopVars, linkVars, ackVars, stopVars
<1>3. ASSUME NEW k \in Subs, Deliver(k) PROVE Types'
  <2>1. PICK i \in DOMAIN log :
          /\ shown' = [shown EXCEPT ![k] = Append(@, i)]
          /\ Q!Last(k)' = i
          /\ UNCHANGED <<log, status, topicOf, from, limit>>
    BY <1>3, ShownNext DEF Deliver
  <2>2. Append(shown[k], i) \in Seq(DOMAIN log) OBVIOUS
  <2>3. shown' \in [Subs -> Seq(DOMAIN log)] BY <2>1, <2>2
  <2>4. wire' = Append(wire, i) BY <1>3, <2>1 DEF Deliver
  <2>5. wire' \in Seq(DOMAIN log) BY <2>4
  <2> QED BY <1>3, <2>1, <2>3, <2>5 DEF Deliver, loopVars, ackVars, stopVars
<1>4. CASE Break
  <2>1. PICK n \in 0 .. Len(wire) : wire' = SubSeq(wire, 1, n) BY <1>4 DEF Break
  <2>2. wire' \in Seq(DOMAIN log) BY <2>1
  <2> QED BY <1>4, <2>2 DEF Break, queueVars, loopVars, ackVars, stopVars
<1>5. ASSUME NEW k \in Subs, Leave(k) PROVE Types'
  BY <1>5 DEF Leave, Q!Leave, loopVars, linkVars, ackVars, stopVars
<1>6. CASE EndLoop
  BY <1>6 DEF EndLoop, queueVars, linkVars, ackVars, stopVars
<1>7. CASE Connect
  BY <1>7 DEF Connect, queueVars, ackVars, stopVars
<1>8. CASE LeaveStream
  BY <1>8 DEF LeaveStream, queueVars, ackVars, stopVars
<1>9. CASE Check
  BY <1>8, <1>9 DEF Check, queueVars, linkVars, ackVars, stopVars
<1>10. CASE Receive
  <2>1. Head(wire) \in DOMAIN log /\ Tail(wire) \in Seq(DOMAIN log)
    BY <1>10 DEF Receive
  <2>2. Head(wire) \in 0 .. Len(log) BY <2>1
  <2> QED BY <1>10, <2>1, <2>2 DEF Receive, Unread, queueVars, ackVars, stopVars
<1>11. CASE ReceiveFails
  BY <1>8, <1>11 DEF ReceiveFails
<1>12. CASE StoreMessage
  <2>1. Append(storage, msg) \in Seq(DOMAIN log)
        /\ Append(stored, msg) \in Seq(DOMAIN log)
    BY <1>12 DEF StoreMessage
  <2> QED BY <1>12, <2>1
          DEF StoreMessage, queueVars, linkVars, ackVars, stopVars
<1>13. CASE StoreFails
  BY <1>13 DEF StoreFails, AfterFailedStore, queueVars, linkVars, ackVars,
               stopVars
<1>14. CASE Ack
  BY <1>14 DEF Ack, Acknowledged, queueVars, linkVars, stopVars
<1>15. CASE AckFails
  BY <1>15 DEF AckFails, AfterFailedAck, queueVars, linkVars, stopVars
<1>16. ASSUME NEW p \in late, LateAck(p) PROVE Types'
  BY <1>16 DEF LateAck, queueVars, loopVars, linkVars, stopVars
<1>17. CASE Cancel
  BY <1>17 DEF Cancel, queueVars, loopVars, linkVars, ackVars
<1>18. CASE Stop
  BY <1>18 DEF Stop, queueVars, loopVars, linkVars, ackVars
<1>19. CASE CloseStorage
  BY <1>19 DEF CloseStorage, queueVars, loopVars, linkVars, ackVars
<1>20. CASE UNCHANGED vars
  BY <1>20 DEF vars, queueVars, loopVars, linkVars, ackVars, stopVars
<1> HIDE DEF Types, QueueTypeOK, TypeOK, InHand
<1>21. CASE LoopStep
  BY <1>6, <1>7, <1>9, <1>10, <1>11, <1>12, <1>13, <1>14, <1>15, <1>21
  DEF LoopStep
<1> QED
  BY <1>1, <1>2, <1>3, <1>4, <1>5, <1>16, <1>17, <1>18, <1>19, <1>20, <1>21
  DEF Next

\* The variables begin in their types.
LEMMA TypesInit == Init => Types
<1> SUFFICES ASSUME Init PROVE Types OBVIOUS
<1>1. /\ log = <<>> /\ log \in Seq(Message)
      /\ Len(log) = 0
      /\ <<>> \in Seq(DOMAIN log)
  BY DEF Init, Q!Init
<1>2. QueueTypeOK
  <2>1. shown = [s \in Subs |-> <<>>] BY DEF Init, Q!Init
  <2>2. shown \in [Subs -> Seq(DOMAIN log)] BY <1>1, <2>1
  <2> QED BY <1>1, <2>2 DEF Init, Q!Init, QueueTypeOK
<1>3. TypeOK
  <2>1. /\ wire \in Seq(DOMAIN log) /\ storage \in Seq(DOMAIN log)
        /\ stored \in Seq(DOMAIN log)
    BY <1>1 DEF Init
  <2>2. opened \in 0 .. MaxStreams BY CollectorAssumption DEF Init
  <2>3. status \in [Subs -> {"idle", "live", "gone"}] BY DEF Init, Q!Init
  <2>4. msg \in 0 .. Len(log) /\ joinedAt \in 0 .. Len(log) BY <1>1 DEF Init
  <2> QED BY <1>1, <2>1, <2>2, <2>3, <2>4 DEF Init, TypeOK
<1> QED BY <1>2, <1>3 DEF Init, Types, InHand

\* Every variable has its type at all times, for any number of messages and
\* streams.
THEOREM TypeCorrect == Spec => []TypeOK
<1>1. Types => TypeOK BY DEF Types
<1> QED BY <1>1, TypesInit, TypeStep, PTL DEF Spec

\* The same of the variables TypeOK leaves out.
LEMMA TypesCorrect == Spec => []Types
BY TypesInit, TypeStep, PTL DEF Spec

-----------------------------------------------------------------------------
(* Acknowledgements, and the closed storage. *)

\* A message about to be acknowledged was stored; once Stop has closed the
\* storage the loop is over, and has put nothing into it since.
AckInv ==
  /\ AckedIsStored
  /\ pc = "ack" => msg \in Stored
  /\ stop = "closed" => pc = "ended" /\ storage = <<>>

\* Nothing stored is ever taken out, and only StoreMessage adds to it.
LEMMA StoredGrows ==
  ASSUME Types, StoreMessage
  PROVE  Stored \cup {msg} = Stored'
<1>1. /\ stored \in Seq(DOMAIN log)
      /\ stored' = Append(stored, msg)
      /\ msg \in DOMAIN log
  BY DEF Types, TypeOK, InHand, StoreMessage
<1>2. /\ DOMAIN stored' = 1 .. Len(stored) + 1
      /\ DOMAIN stored = 1 .. Len(stored)
      /\ Len(stored) \in Nat
      /\ stored'[Len(stored) + 1] = msg
      /\ \A n \in 1 .. Len(stored) : stored'[n] = stored[n]
  BY <1>1
<1> QED BY <1>2 DEF Stored

\* What is about to be acknowledged stays stored, and a closed storage is not
\* written to: AckInv is inductive.
LEMMA AckStep ==
  ASSUME Types, AckInv, [Next]_vars
  PROVE  AckInv'
<1> USE DEF AckInv, AckedIsStored
<1>1. CASE StoreMessage
  <2>1. Stored \cup {msg} = Stored' BY <1>1, StoredGrows
  <2>2. msg' = msg /\ pc' = "ack" /\ UNCHANGED <<late, acked, stop>> /\ pc = "store"
    BY <1>1 DEF StoreMessage, ackVars, stopVars
  <2> QED BY <2>1, <2>2
<1>2. CASE ~StoreMessage
  <2>1. UNCHANGED stored
    BY <1>2 DEF Next, LoopStep, Publish, Join, Deliver, Leave, Break, EndLoop,
       Connect, Check, LeaveStream, Receive, ReceiveFails, StoreFails, Ack,
       AckFails, LateAck, Cancel, Stop, CloseStorage, vars, loopVars
  <2>2. Stored' = Stored BY <2>1 DEF Stored
  <2>3. acked' \cup late' \subseteq acked \cup late \cup (IF pc = "ack" THEN {msg} ELSE {})
    BY <1>2 DEF Next, LoopStep, Publish, Join, Deliver, Leave, Break, EndLoop,
       Connect, Check, LeaveStream, Receive, ReceiveFails, StoreFails, Ack,
       Acknowledged, AckFails, LateAck, Cancel, Stop, CloseStorage, vars, ackVars
  <2>4. pc' = "ack" => pc = "ack" /\ msg' = msg
    BY <1>2 DEF Next, LoopStep, Publish, Join, Deliver, Leave, Break, EndLoop,
       Connect, Check, LeaveStream, Receive, ReceiveFails, StoreFails, Ack,
       AfterFailedStore, AfterFailedAck,
       AckFails, LateAck, Cancel, Stop, CloseStorage, vars, loopVars
  <2>5. stop' = "closed" => pc' = "ended" /\ storage' = <<>>
    BY <1>2 DEF Next, LoopStep, Publish, Join, Deliver, Leave, Break, EndLoop,
       Connect, Check, LeaveStream, Receive, ReceiveFails, StoreFails, Ack,
       AckFails, LateAck, Cancel, Stop, CloseStorage, Waited, vars, loopVars,
       stopVars
  <2> QED BY <2>2, <2>3, <2>4, <2>5
<1> QED BY <1>1, <1>2

\* Both hold at all times.
LEMMA AckInvCorrect == Spec => []AckInv
<1>1. Init => AckInv BY DEF Init, AckInv, AckedIsStored
<1> QED BY <1>1, AckStep, TypesCorrect, PTL DEF Spec

\* The queue never hears of a message the collector has not stored.
THEOREM AckedWasStored == Spec => []AckedIsStored
<1>1. AckInv => AckedIsStored BY DEF AckInv
<1> QED BY <1>1, AckInvCorrect, PTL

\* Nothing is put into the storage once Stop has closed it.
THEOREM ClosedIsEmpty == Spec => []ClosedStaysEmpty
<1>1. AckInv => ClosedStaysEmpty BY DEF AckInv, ClosedStaysEmpty
<1> QED BY <1>1, AckInvCorrect, PTL

-----------------------------------------------------------------------------
(* Stop returns. *)

\* How many steps the loop takes at most from here on, once the context is done:
\* it may receive one message yet, store it and try to acknowledge it.
StepsToEnd ==
  CASE pc = "recv"    -> 5
    [] pc = "store"   -> 4
    [] pc = "ack"     -> 3
    [] pc = "check"   -> 2
    [] pc = "connect" -> 1
    [] OTHER          -> 0

\* Every step of the loop is one of them, and goes to a place nearer the end.
LEMMA LoopShortens ==
  ASSUME ctxDone, LoopStep
  PROVE  StepsToEnd' < StepsToEnd
<1>1. \/ pc = "connect" /\ pc' = "ended"
      \/ pc = "check" /\ pc' = "connect"
      \/ pc = "recv" /\ pc' \in {"store", "check", "connect"}
      \/ pc = "store" /\ pc' \in {"ack", "check"}
      \/ pc = "ack" /\ pc' = "check"
  BY DEF LoopStep, EndLoop, Connect, Check, LeaveStream, Receive, ReceiveFails,
     StoreMessage, StoreFails, AfterFailedStore, Ack, AckFails, AfterFailedAck
<1>2. CASE pc = "connect" /\ pc' = "ended"
  <2>1. StepsToEnd = 1 /\ StepsToEnd' = 0 BY <1>2 DEF StepsToEnd
  <2> QED BY <2>1
<1>3. CASE pc = "check" /\ pc' = "connect"
  <2>1. StepsToEnd = 2 /\ StepsToEnd' = 1 BY <1>3 DEF StepsToEnd
  <2> QED BY <2>1
<1>4. CASE pc = "recv" /\ pc' \in {"store", "check", "connect"}
  <2>1. StepsToEnd = 5 /\ StepsToEnd' \in {4, 2, 1} BY <1>4 DEF StepsToEnd
  <2> QED BY <2>1
<1>5. CASE pc = "store" /\ pc' \in {"ack", "check"}
  <2>1. StepsToEnd = 4 /\ StepsToEnd' \in {3, 2} BY <1>5 DEF StepsToEnd
  <2> QED BY <2>1
<1>6. CASE pc = "ack" /\ pc' = "check"
  <2>1. StepsToEnd = 3 /\ StepsToEnd' = 2 BY <1>6 DEF StepsToEnd
  <2> QED BY <2>1
<1> QED BY <1>1, <1>2, <1>3, <1>4, <1>5, <1>6

\* No step but the loop's moves it, and a context that is done stays done.
LEMMA OthersWait ==
  ASSUME [Next]_vars
  PROVE  /\ ~LoopStep => StepsToEnd' = StepsToEnd
         /\ ctxDone => ctxDone'
<1>1. ~LoopStep => pc' = pc
  BY DEF Next, Publish, Join, Deliver, Leave, Break, LateAck, Cancel, Stop,
     CloseStorage, vars, loopVars
<1>2. pc' = pc => StepsToEnd' = StepsToEnd BY DEF StepsToEnd
<1>3. ctxDone => ctxDone'
  BY DEF Next, LoopStep, Publish, Join, Deliver, Leave, Break, EndLoop, Connect,
     Check, LeaveStream, Receive, ReceiveFails, StoreMessage, StoreFails, Ack,
     AckFails, LateAck, Cancel, Stop, CloseStorage, vars, stopVars
<1> QED BY <1>1, <1>2, <1>3

\* The loop is over when none is left.
LEMMA StepsToEndIs ==
  ASSUME Types
  PROVE  StepsToEnd \in 0 .. 5 /\ (StepsToEnd = 0 <=> pc = "ended")
BY DEF Types, TypeOK, StepsToEnd

LoopEndsShortly ==
  [][ctxDone => /\ LoopStep => StepsToEnd' < StepsToEnd
                /\ ~LoopStep => StepsToEnd' = StepsToEnd]_vars

\* Once its context is done the loop takes at most five steps, whatever the queue,
\* the storage and the streams do: it stores one message more at most, and is not
\* held by a stream on which nothing comes.
THEOREM LoopEnds == Spec => [](StepsToEnd \in 0 .. 5) /\ LoopEndsShortly
<1>1. Types => StepsToEnd \in 0 .. 5 BY StepsToEndIs
<1>2. [Next]_vars =>
        [ctxDone => /\ LoopStep => StepsToEnd' < StepsToEnd
                    /\ ~LoopStep => StepsToEnd' = StepsToEnd]_vars
  BY LoopShortens, OthersWait
<1> QED BY <1>1, <1>2, TypesCorrect, PTL DEF Spec, LoopEndsShortly

\* What the prover has no rules for: that the loop, once its context is done, has
\* a step to take until it is over, and then the caller of Stop has one.
CanGoOn ==
  /\ ctxDone /\ pc # "ended" => ENABLED <<LoopStep>>_vars
  /\ stop = "waiting" /\ pc = "ended" => ENABLED <<CloseStorage>>_vars

\* Where a call of Stop may be, and that its context is done.
StopInv == stop \in {"idle", "waiting", "closed"} /\ (stop # "idle" => ctxDone)

\* A call of Stop that waits goes on to wait until it closes the storage.
LEMMA StopStep ==
  ASSUME StopInv, [Next]_vars
  PROVE  /\ StopInv'
         /\ stop = "waiting" => stop' = "waiting" \/ stop' = "closed"
         /\ CloseStorage => stop' = "closed"
<1>1. \/ stop' = stop
      \/ stop' = "waiting" /\ ctxDone' /\ stop = "idle"
      \/ stop' = "closed" /\ stop = "waiting"
  BY DEF Next, LoopStep, Publish, Join, Deliver, Leave, Break, EndLoop, Connect,
     Check, LeaveStream, Receive, ReceiveFails, StoreMessage, StoreFails, Ack,
     AckFails, LateAck, Cancel, Stop, CloseStorage, vars, stopVars
<1>2. ctxDone => ctxDone' BY OthersWait
<1>3. CloseStorage => stop' = "closed" BY DEF CloseStorage
<1> QED BY <1>1, <1>2, <1>3 DEF StopInv

\* From k steps on there are fewer after the next one of the loop, and not more
\* after any other.
LEMMA OneLess ==
  ASSUME Types, ctxDone, NEW k \in 1 .. 5, StepsToEnd <= k, [Next]_vars
  PROVE  /\ StepsToEnd' <= k
         /\ LoopStep => StepsToEnd' <= k - 1
<1>1. Types' BY TypeStep
<1>2. StepsToEnd \in 0 .. 5 BY StepsToEndIs
<1>3. StepsToEnd' \in 0 .. 5 BY <1>1 DEF Types, TypeOK, StepsToEnd
<1>4. CASE LoopStep
  <2>1. StepsToEnd' < StepsToEnd BY <1>4, LoopShortens
  <2> QED BY <1>2, <1>3, <2>1
<1>5. CASE ~LoopStep
  <2>1. StepsToEnd' = StepsToEnd BY <1>5, OthersWait
  <2> QED BY <1>5, <2>1
<1> QED BY <1>4, <1>5

\* Stop returns, also when the loop is waiting for a message on a stream that is
\* still open, or has one in its hands.
THEOREM StopComesBack == FairSpec /\ []CanGoOn => StopReturns
<1> DEFINE L(k) == StepsToEnd <= k
<1>1. Types => L(5)
  <2> SUFFICES ASSUME Types PROVE L(5) OBVIOUS
  <2>1. StepsToEnd \in 0 .. 5 BY StepsToEndIs
  <2> QED BY <2>1
<1>2. Types /\ ctxDone /\ [Next]_vars =>
        /\ L(5) => L(5)'
        /\ L(4) => L(4)'
        /\ L(3) => L(3)'
        /\ L(2) => L(2)'
        /\ L(1) => L(1)'
  <2> SUFFICES ASSUME Types, ctxDone, [Next]_vars
               PROVE  \A k \in 1 .. 5 : L(k) => L(k)'
    OBVIOUS
  <2> QED BY OneLess
<1>3. Types /\ ctxDone /\ <<LoopStep>>_vars =>
        /\ L(5) => L(4)'
        /\ L(4) => L(3)'
        /\ L(3) => L(2)'
        /\ L(2) => L(1)'
        /\ L(1) => L(0)'
  <2> SUFFICES ASSUME Types, ctxDone, LoopStep
               PROVE  \A k \in 1 .. 5 : L(k) => L(k - 1)'
    OBVIOUS
  <2>1. Next BY DEF Next
  <2> QED BY <2>1, OneLess
<1>4. Types => (L(0) <=> pc = "ended")
  <2> SUFFICES ASSUME Types PROVE L(0) <=> pc = "ended" OBVIOUS
  <2>1. StepsToEnd \in 0 .. 5 /\ (StepsToEnd = 0 <=> pc = "ended")
    BY StepsToEndIs
  <2> QED BY <2>1
<1>5. pc = "ended" /\ [Next]_vars => (pc = "ended")'
  BY DEF Next, LoopStep, Publish, Join, Deliver, Leave, Break, EndLoop, Connect,
     Check, LeaveStream, Receive, ReceiveFails, StoreMessage, StoreFails, Ack,
     AckFails, LateAck, Cancel, Stop, CloseStorage, vars, loopVars
<1>6. Init => StopInv BY DEF Init, StopInv
<1>7. /\ StopInv /\ [Next]_vars =>
           StopInv' /\ (stop = "waiting" => (stop = "waiting")' \/ (stop = "closed")')
      /\ StopInv /\ <<CloseStorage>>_vars => (stop = "closed")'
  <2>1. CloseStorage => Next BY DEF Next
  <2> QED BY <2>1, StopStep
<1>8. StopInv /\ stop = "waiting" => ctxDone BY DEF StopInv
<1>9. ctxDone /\ [Next]_vars => (ctxDone)' BY OthersWait
<1>10. /\ CanGoOn /\ ctxDone /\ ~(pc = "ended") => ENABLED <<LoopStep>>_vars
       /\ CanGoOn /\ stop = "waiting" /\ pc = "ended"
            => ENABLED <<CloseStorage>>_vars
  BY DEF CanGoOn
<1> QED
  BY <1>1, <1>2, <1>3, <1>4, <1>5, <1>6, <1>7, <1>8, <1>9, <1>10, TypesCorrect,
     PTL
  DEF Spec, FairSpec, StopReturns

-----------------------------------------------------------------------------
(* A broken stream is left. *)

\* The collector has a stream only within processSubscription.
LinkInv == link # "none" => pc \in {"check", "recv", "store", "ack"}

\* No step of the loop or of the queue changes that.
LEMMA LinkStep == ASSUME LinkInv, [Next]_vars PROVE LinkInv'
BY DEF LinkInv, Next, LoopStep, Publish, Join, Deliver, Leave, Break, EndLoop,
   Connect, Check, LeaveStream, Receive, ReceiveFails, StoreMessage, StoreFails,
   AfterFailedStore, Ack, AckFails, AfterFailedAck, LateAck, Cancel, Stop,
   CloseStorage, vars, loopVars, linkVars

\* How many steps the loop takes at most on a stream that is broken: four for each
\* message that had arrived, and those for the message in its hands.
StepsFrom(place) ==
  CASE place = "store" -> 4
    [] place = "ack"   -> 3
    [] place = "check" -> 2
    [] OTHER           -> 1

StepsToLeave == 4 * Len(wire) + StepsFrom(pc)

BrokenIsLeftShortly ==
  [][link = "broken" =>
       /\ LoopStep => \/ link' = "none"
                      \/ link' = "broken" /\ StepsToLeave' < StepsToLeave
       /\ ~LoopStep => link' = "broken" /\ StepsToLeave' = StepsToLeave]_vars

\* Every step of the loop on a broken stream brings it nearer to leaving it.
LEMMA LoopLeaves ==
  ASSUME Types, LinkInv, link = "broken", LoopStep
  PROVE  \/ link' = "none"
         \/ link' = "broken" /\ StepsToLeave' < StepsToLeave
<1> DEFINE n == Len(wire)
           n2 == Len(wire')
<1>1. wire \in Seq(DOMAIN log) /\ n \in Nat BY DEF Types, TypeOK
<1>2. pc \in {"check", "recv", "store", "ack"} BY DEF LinkInv
<1>3. CASE LeaveStream BY <1>3 DEF LeaveStream
<1>4. CASE Receive
  <2>1. /\ pc = "recv" /\ pc' \in {"store", "check"} /\ link' = "broken"
        /\ wire # <<>> /\ wire' = Tail(wire)
    BY <1>4 DEF Receive, Unread
  <2>2. n2 = n - 1 BY <1>1, <2>1
  <2>3. StepsFrom(pc) = 1 /\ StepsFrom(pc)' \in {4, 2} BY <2>1 DEF StepsFrom
  <2>4. StepsToLeave = 4 * n + 1 BY <2>3 DEF StepsToLeave
  <2>5. StepsToLeave' = 4 * n2 + StepsFrom(pc)' BY DEF StepsToLeave
  <2> HIDE DEF n, n2
  <2>6. StepsToLeave' \in {4 * n, 4 * n - 2} BY <1>1, <2>2, <2>3, <2>5
  <2> QED BY <1>1, <2>1, <2>4, <2>6
<1>5. ASSUME wire' = wire, link' = link,
             \/ pc = "check" /\ pc' = "recv"
             \/ pc = "store" /\ pc' \in {"ack", "check"}
             \/ pc = "ack" /\ pc' = "check"
      PROVE  link' = "broken" /\ StepsToLeave' < StepsToLeave
  <2>1. StepsFrom(pc) \in Nat /\ StepsFrom(pc)' \in Nat BY DEF StepsFrom
  <2>2. StepsFrom(pc)' < StepsFrom(pc)
    <3>1. CASE pc = "check" /\ pc' = "recv"
      <4>1. StepsFrom(pc) = 2 /\ StepsFrom(pc)' = 1 BY <3>1 DEF StepsFrom
      <4> QED BY <4>1
    <3>2. CASE pc = "store" /\ pc' \in {"ack", "check"}
      <4>1. StepsFrom(pc) = 4 /\ StepsFrom(pc)' \in {3, 2} BY <3>2 DEF StepsFrom
      <4> QED BY <4>1
    <3>3. CASE pc = "ack" /\ pc' = "check"
      <4>1. StepsFrom(pc) = 3 /\ StepsFrom(pc)' = 2 BY <3>3 DEF StepsFrom
      <4> QED BY <4>1
    <3> QED BY <1>5, <3>1, <3>2, <3>3
  <2>3. /\ StepsToLeave = 4 * n + StepsFrom(pc)
        /\ StepsToLeave' = 4 * n + StepsFrom(pc)'
    BY <1>5 DEF StepsToLeave
  <2> HIDE DEF n
  <2> QED BY <1>1, <1>5, <2>1, <2>2, <2>3
<1>6. LoopStep =>
        \/ LeaveStream \/ Receive
        \/ pc = "connect"
        \/ /\ wire' = wire /\ link' = link
           /\ \/ pc = "check" /\ pc' = "recv"
              \/ pc = "store" /\ pc' \in {"ack", "check"}
              \/ pc = "ack" /\ pc' = "check"
  BY DEF LoopStep, EndLoop, Connect, Check, ReceiveFails, StoreMessage, StoreFails,
     AfterFailedStore, Ack, AckFails, AfterFailedAck, linkVars
<1> QED BY <1>2, <1>3, <1>4, <1>5, <1>6

\* A stream that broke is left, whatever had arrived on it and whatever the storage
\* and the acknowledgements do, within four steps of the loop for every message
\* that had arrived and four more: no error keeps the loop from subscribing again.
THEOREM BrokenIsLeft == Spec => BrokenIsLeftShortly
<1>1. Init => LinkInv BY DEF Init, LinkInv
<1>2. LinkInv /\ [Next]_vars => LinkInv' BY LinkStep
<1>3. Types /\ LinkInv /\ [Next]_vars =>
        [link = "broken" =>
           /\ LoopStep => \/ link' = "none"
                          \/ link' = "broken" /\ StepsToLeave' < StepsToLeave
           /\ ~LoopStep => link' = "broken" /\ StepsToLeave' = StepsToLeave]_vars
  <2> SUFFICES ASSUME Types, LinkInv, Next, link = "broken", ~LoopStep
               PROVE  link' = "broken" /\ StepsToLeave' = StepsToLeave
    BY LoopLeaves
  <2>1. link' = "broken" /\ wire' = wire /\ pc' = pc
    BY DEF Next, Publish, Join, Deliver, Leave, Break, LateAck, Cancel, Stop,
       CloseStorage, loopVars, linkVars
  <2> QED BY <2>1 DEF StepsToLeave, StepsFrom
<1> QED BY <1>1, <1>2, <1>3, TypesCorrect, PTL DEF Spec, BrokenIsLeftShortly

-----------------------------------------------------------------------------
(* One subscription. *)

Ascending(q) == \A i, j \in DOMAIN q : i < j => q[i] < q[j]
AllBelow(q, n) == \A i \in DOMAIN q : q[i] < n
AllAbove(q, n) == \A i \in DOMAIN q : n < q[i]
AllUpTo(q, n) == \A i \in DOMAIN q : q[i] <= n

\* Streams are joined after they were opened, at the end of the log, and are
\* shown nothing before.
StreamInv ==
  /\ \A k \in Subs : opened < k => status[k] = "idle"
  /\ \A k \in Subs : status[k] = "idle" => shown[k] = <<>>
  /\ \A k \in Subs : from[k] <= Q!Last(k)
  /\ \A k \in Subs : status[k] # "idle" => joinedAt <= from[k]

\* The message in hand to be stored comes after all that were stored, and what
\* is on the wire after both.
HandInv ==
  /\ Ascending(wire)
  /\ \A n \in DOMAIN stored : AllAbove(wire, stored[n])
  /\ pc = "store" => AllBelow(stored, msg) /\ AllAbove(wire, msg)

\* A message comes after the point at which the first stream joined.
JoinInv ==
  /\ AllAbove(wire, joinedAt)
  /\ wire # <<>> => Joined
  /\ pc = "store" => joinedAt < msg /\ Joined

\* What the collector's stream is shown next comes after all of it.
NextInv ==
  \A k \in Subs : k = opened /\ status[k] # "idle" =>
    /\ AllUpTo(wire, Q!Last(k))
    /\ AllUpTo(stored, Q!Last(k))
    /\ pc = "store" => msg <= Q!Last(k)

OrderInv == StreamInv /\ HandInv /\ JoinInv /\ NextInv

\* Steps that put nothing on the wire or into the storage, and open and join no
\* stream; the wire may lose entries at either end.
LEMMA OrderKept ==
  ASSUME Types, OrderInv,
         NEW d \in Nat,
         wire' \in Seq(Nat),
         \A i \in DOMAIN wire' : i + d \in DOMAIN wire /\ wire'[i] = wire[i + d],
         UNCHANGED <<opened, stored, joinedAt, from, shown>>,
         \A k \in Subs : status'[k] = "idle" <=> status[k] = "idle",
         pc' = "store" => pc = "store" /\ msg' = msg
  PROVE  OrderInv'
<1>1. \A k \in Subs : Q!Last(k)' = Q!Last(k) BY DEF Q!Last
<1>2. Joined' = Joined BY DEF Joined
<1>3. StreamInv' BY <1>1 DEF OrderInv, StreamInv
<1>4. /\ wire \in Seq(Nat) /\ DOMAIN wire = 1 .. Len(wire)
      /\ DOMAIN wire' = 1 .. Len(wire')
      /\ \A i \in DOMAIN wire : wire[i] \in Nat
      /\ Len(wire) \in Nat /\ Len(wire') \in Nat
  BY DEF Types, TypeOK
<1>5. HandInv'
  <2>1. Ascending(wire)'
    <3> SUFFICES ASSUME NEW i \in DOMAIN wire', NEW j \in DOMAIN wire', i < j
                 PROVE  wire'[i] < wire'[j]
      BY DEF Ascending
    <3>1. i + d < j + d BY <1>4
    <3> QED BY <3>1 DEF OrderInv, HandInv, Ascending
  <2> QED BY <2>1 DEF OrderInv, HandInv, AllBelow, AllAbove
<1>6. JoinInv'
  <2>1. wire' # <<>> => wire # <<>>
    <3> SUFFICES ASSUME wire' # <<>>, wire = <<>> PROVE FALSE OBVIOUS
    <3>1. 1 \in DOMAIN wire' BY <1>4
    <3>2. 1 + d \in DOMAIN wire BY <3>1
    <3> QED BY <3>2
  <2> QED BY <1>2, <2>1 DEF OrderInv, JoinInv, AllAbove
<1>7. NextInv' BY <1>1 DEF OrderInv, NextInv, AllUpTo
<1> QED BY <1>3, <1>5, <1>6, <1>7 DEF OrderInv

\* The message that is received is the first on the wire.
LEMMA OrderReceive ==
  ASSUME Types, OrderInv, Receive
  PROVE  OrderInv'
<1>1. /\ wire \in Seq(Nat) /\ wire # <<>>
      /\ wire' = Tail(wire) /\ msg' = Head(wire)
      /\ UNCHANGED <<opened, stored, joinedAt, from, shown, status>>
  BY DEF Types, TypeOK, Receive, Unread, queueVars
<1>2. /\ Len(wire) \in Nat \ {0}
      /\ DOMAIN wire = 1 .. Len(wire)
      /\ wire' \in Seq(Nat)
      /\ DOMAIN wire' = 1 .. Len(wire) - 1
      /\ msg' = wire[1]
      /\ \A i \in DOMAIN wire' : i + 1 \in DOMAIN wire /\ wire'[i] = wire[i + 1]
  BY <1>1
<1>3. CASE pc' # "store" BY <1>1, <1>2, <1>3, OrderKept
<1>4. CASE pc' = "store"
  <2>1. \A k \in Subs : Q!Last(k)' = Q!Last(k) BY <1>1 DEF Q!Last
  <2>2. Joined' = Joined BY <1>1 DEF Joined
  <2>3. StreamInv' BY <1>1, <2>1 DEF OrderInv, StreamInv
  <2>4. 1 \in DOMAIN wire BY <1>2
  <2>5. AllAbove(wire', msg') /\ Ascending(wire')
    <3>1. Ascending(wire) BY DEF OrderInv, HandInv
    <3>2. ASSUME NEW i \in DOMAIN wire' PROVE msg' < wire'[i]
      <4>1. 1 < i + 1 /\ i + 1 \in DOMAIN wire BY <1>2
      <4> QED BY <1>2, <2>4, <3>1, <4>1 DEF Ascending
    <3>3. ASSUME NEW i \in DOMAIN wire', NEW j \in DOMAIN wire', i < j
          PROVE  wire'[i] < wire'[j]
      <4>1. i + 1 < j + 1 BY <1>2, <3>3
      <4> QED BY <1>2, <3>1, <4>1 DEF Ascending
    <3> QED BY <3>2, <3>3 DEF Ascending, AllAbove
  <2>6. AllBelow(stored', msg')
    BY <1>1, <1>2, <2>4 DEF OrderInv, HandInv, AllAbove, AllBelow
  <2>7. \A n \in DOMAIN stored' : AllAbove(wire', stored'[n])
    BY <1>1, <1>2 DEF OrderInv, HandInv, AllAbove
  <2>8. JoinInv'
    BY <1>1, <1>2, <2>2, <2>4 DEF OrderInv, JoinInv, AllAbove
  <2>9. NextInv'
    BY <1>1, <1>2, <2>1, <2>4 DEF OrderInv, NextInv, AllUpTo
  <2> QED BY <2>3, <2>5, <2>6, <2>7, <2>8, <2>9 DEF OrderInv, HandInv
<1> QED BY <1>3, <1>4

\* What is stored becomes the last that was.
LEMMA OrderStore ==
  ASSUME Types, OrderInv, StoreMessage
  PROVE  OrderInv'
<1>1. /\ pc = "store" /\ pc' = "ack"
      /\ stored' = Append(stored, msg)
      /\ UNCHANGED <<opened, wire, joinedAt, from, shown, status>>
  BY DEF StoreMessage, queueVars, linkVars
<1>2. /\ stored \in Seq(Nat) /\ msg \in Nat
      /\ \A n \in DOMAIN stored' :
           stored'[n] = msg \/ (n \in DOMAIN stored /\ stored'[n] = stored[n])
  <2>1. stored \in Seq(Nat) /\ msg \in Nat BY DEF Types, TypeOK
  <2>2. /\ DOMAIN stored' = 1 .. Len(stored) + 1
        /\ DOMAIN stored = 1 .. Len(stored)
        /\ Len(stored) \in Nat
        /\ stored'[Len(stored) + 1] = msg
        /\ \A n \in 1 .. Len(stored) : stored'[n] = stored[n]
    BY <1>1, <2>1
  <2> QED BY <2>1, <2>2
<1>3. \A k \in Subs : Q!Last(k)' = Q!Last(k) BY <1>1 DEF Q!Last
<1>4. Joined' = Joined BY <1>1 DEF Joined
<1>5. StreamInv' BY <1>1, <1>3 DEF OrderInv, StreamInv
<1>6. HandInv'
  <2>1. \A n \in DOMAIN stored' : AllAbove(wire, stored'[n])
    BY <1>1, <1>2 DEF OrderInv, HandInv
  <2>2. Ascending(wire) BY DEF OrderInv, HandInv
  <2>3. wire' = wire /\ pc' # "store" BY <1>1
  <2> QED BY <2>1, <2>2, <2>3 DEF HandInv
<1>7. JoinInv' BY <1>1, <1>4 DEF OrderInv, JoinInv, AllAbove
<1>8. NextInv'
  <2> SUFFICES ASSUME NEW k \in Subs, k = opened, status[k] # "idle"
               PROVE  AllUpTo(wire, Q!Last(k)) /\ AllUpTo(stored', Q!Last(k))
    BY <1>1, <1>3 DEF NextInv
  <2> QED BY <1>1, <1>2 DEF OrderInv, NextInv, AllUpTo
<1> QED BY <1>5, <1>6, <1>7, <1>8 DEF OrderInv

\* The stream that was just opened has yet to be joined.
LEMMA OrderConnect ==
  ASSUME Types, OrderInv, Connect
  PROVE  OrderInv'
<1>1. /\ opened \in Nat /\ opened' = opened + 1 /\ pc' = "check"
      /\ UNCHANGED <<wire, stored, joinedAt, from, shown, status>>
  BY CollectorAssumption DEF Types, TypeOK, Connect, queueVars
<1>2. \A k \in Subs : Q!Last(k)' = Q!Last(k) BY <1>1 DEF Q!Last
<1>3. Joined' = Joined BY <1>1 DEF Joined
<1>4. \A k \in Subs : k = opened + 1 => opened < k
  BY <1>1, CollectorAssumption DEF Subs
<1>5. StreamInv'
  <2>1. \A k \in Subs : opened' < k => opened < k
    BY <1>1, CollectorAssumption DEF Subs
  <2> QED BY <1>1, <1>2, <2>1 DEF OrderInv, StreamInv
<1>6. HandInv' BY <1>1 DEF OrderInv, HandInv
<1>7. JoinInv' BY <1>1, <1>3 DEF OrderInv, JoinInv
<1>8. NextInv' BY <1>1, <1>4, CollectorAssumption DEF OrderInv, StreamInv, NextInv, Subs
<1> QED BY <1>5, <1>6, <1>7, <1>8 DEF OrderInv

\* A stream is joined at the end of the log, after everything there is.
LEMMA OrderJoin ==
  ASSUME Types, OrderInv, NEW k \in Subs, Join(k)
  PROVE  OrderInv'
<1>1. /\ k <= opened /\ status[k] = "idle"
      /\ status' = [status EXCEPT ![k] = "live"]
      /\ from' = [from EXCEPT ![k] = Len(log)]
      /\ joinedAt' = IF \A j \in Subs : status[j] = "idle" THEN Len(log) ELSE joinedAt
      /\ UNCHANGED <<log, shown, opened, pc, msg, stored, wire>>
  BY DEF Join, Q!Join, loopVars, linkVars
<1>2. /\ status'[k] = "live" /\ from'[k] = Len(log) /\ shown[k] = <<>>
      /\ \A j \in Subs \ {k} : status'[j] = status[j] /\ from'[j] = from[j]
  BY <1>1 DEF OrderInv, StreamInv, Types, TypeOK, QueueTypeOK
<1>3. /\ Q!Last(k)' = Len(log)
      /\ \A j \in Subs \ {k} : Q!Last(j)' = Q!Last(j)
  BY <1>1, <1>2 DEF Q!Last
<1>4. Len(log) \in Nat /\ DOMAIN log = 1 .. Len(log) /\ joinedAt \in 0 .. Len(log)
  BY DEF Types, TypeOK
<1>5. Joined' BY <1>2 DEF Joined
<1>6. ASSUME Joined PROVE StreamInv' /\ JoinInv'
  <2>1. joinedAt' = joinedAt BY <1>1, <1>6 DEF Joined
  <2>2. StreamInv'
    <3>1. \A j \in Subs : opened' < j => status'[j] = "idle"
      BY <1>1, <1>2, CollectorAssumption DEF OrderInv, StreamInv, Subs, Types, TypeOK
    <3>2. \A j \in Subs : status'[j] = "idle" => shown'[j] = <<>>
      BY <1>1, <1>2 DEF OrderInv, StreamInv
    <3>3. \A j \in Subs : from'[j] <= Q!Last(j)'
      BY <1>2, <1>3, <1>4 DEF OrderInv, StreamInv
    <3>4. \A j \in Subs : status'[j] # "idle" => joinedAt' <= from'[j]
      BY <1>2, <1>4, <2>1 DEF OrderInv, StreamInv
    <3> QED BY <3>1, <3>2, <3>3, <3>4 DEF StreamInv
  <2>3. JoinInv' BY <1>1, <1>5, <2>1 DEF OrderInv, JoinInv
  <2> QED BY <2>2, <2>3
<1>7. ASSUME ~Joined PROVE StreamInv' /\ JoinInv'
  <2>1. \A j \in Subs : status[j] = "idle" BY <1>7 DEF Joined
  <2>2. joinedAt' = Len(log) BY <1>1, <2>1
  <2>3. wire = <<>> /\ pc # "store" BY <1>7 DEF OrderInv, JoinInv
  <2>4. StreamInv'
    <3>1. \A j \in Subs : opened' < j => status'[j] = "idle"
      BY <1>1, <1>2, CollectorAssumption DEF OrderInv, StreamInv, Subs, Types, TypeOK
    <3>2. \A j \in Subs : status'[j] = "idle" => shown'[j] = <<>>
      BY <1>1, <1>2 DEF OrderInv, StreamInv
    <3>3. \A j \in Subs : from'[j] <= Q!Last(j)'
      BY <1>2, <1>3, <1>4 DEF OrderInv, StreamInv
    <3>4. \A j \in Subs : status'[j] # "idle" => joinedAt' <= from'[j]
      BY <1>2, <1>4, <2>1, <2>2
    <3> QED BY <3>1, <3>2, <3>3, <3>4 DEF StreamInv
  <2>5. JoinInv' BY <1>1, <1>5, <2>3 DEF JoinInv, AllAbove
  <2> QED BY <2>4, <2>5
<1>8. HandInv' BY <1>1 DEF OrderInv, HandInv
<1>9. NextInv'
  <2> SUFFICES ASSUME NEW j \in Subs, j = opened, status'[j] # "idle"
               PROVE  /\ AllUpTo(wire, Q!Last(j)')
                      /\ AllUpTo(stored, Q!Last(j)')
                      /\ pc = "store" => msg <= Q!Last(j)'
    BY <1>1 DEF NextInv
  <2>1. CASE j = k
    BY <1>3, <1>4, <2>1 DEF AllUpTo, Types, TypeOK
  <2>2. CASE j # k
    BY <1>2, <1>3, <2>2 DEF OrderInv, NextInv
  <2> QED BY <2>1, <2>2
<1> QED BY <1>6, <1>7, <1>8, <1>9 DEF OrderInv

\* What arrives on the wire comes after all that was shown.
LEMMA OrderDeliver ==
  ASSUME Types, OrderInv, NEW k \in Subs, Deliver(k)
  PROVE  OrderInv'
<1>1. PICK i \in DOMAIN log :
        /\ i > Q!Last(k)
        /\ shown' = [shown EXCEPT ![k] = Append(@, i)]
        /\ Q!Last(k)' = i
        /\ UNCHANGED <<log, status, topicOf, from, limit>>
  BY ShownNext DEF Deliver
<1>2. /\ k = opened /\ status[k] # "idle" /\ wire' = Append(wire, i)
      /\ UNCHANGED <<pc, opened, msg, stored, joinedAt>>
  BY <1>1 DEF Deliver, Q!Show, loopVars
<1>3. /\ \A j \in Subs \ {k} : shown'[j] = shown[j]
      /\ \A j \in Subs \ {k} : Q!Last(j)' = Q!Last(j)
  BY <1>1 DEF Q!Last, Types, QueueTypeOK
<1>4. /\ DOMAIN wire' = 1 .. Len(wire) + 1
      /\ DOMAIN wire = 1 .. Len(wire)
      /\ Len(wire) \in Nat
      /\ wire'[Len(wire) + 1] = i
      /\ \A n \in 1 .. Len(wire) : wire'[n] = wire[n]
  BY <1>2 DEF Types, TypeOK
<1>5. /\ i \in Nat /\ Q!Last(k) < i /\ from[k] \in Nat /\ from[k] <= Q!Last(k)
      /\ joinedAt \in Nat /\ joinedAt <= from[k]
      /\ Q!Last(k) \in Nat
  <2>1. shown[k] \in Seq(Nat) /\ from[k] \in Nat /\ i \in Nat /\ joinedAt \in Nat
    BY DEF Types, TypeOK, QueueTypeOK
  <2>2. Q!Last(k) \in Nat BY <2>1 DEF Q!Last
  <2> QED BY <1>1, <1>2, <2>1, <2>2 DEF OrderInv, StreamInv
<1>6. StreamInv'
  <2>1. \A j \in Subs : status'[j] = "idle" => shown'[j] = <<>>
    BY <1>1, <1>2, <1>3 DEF OrderInv, StreamInv
  <2>2. \A j \in Subs : from'[j] <= Q!Last(j)'
    BY <1>1, <1>3, <1>5 DEF OrderInv, StreamInv
  <2> QED BY <1>1, <1>2, <2>1, <2>2 DEF OrderInv, StreamInv
<1>7. Joined' /\ Joined BY <1>1, <1>2 DEF Joined
<1>8. HandInv'
  <2>1. AllUpTo(wire, Q!Last(k)) /\ AllUpTo(stored, Q!Last(k))
        /\ (pc = "store" => msg <= Q!Last(k))
    BY <1>2 DEF OrderInv, NextInv
  <2>2. /\ \A n \in DOMAIN wire : wire[n] \in Nat
        /\ \A n \in DOMAIN stored : stored[n] \in Nat
        /\ msg \in Nat
    BY DEF Types, TypeOK
  <2>3. ASSUME NEW m \in DOMAIN wire', NEW n \in DOMAIN wire', m < n
        PROVE  wire'[m] < wire'[n]
    <3>1. m \in 1 .. Len(wire) BY <1>4, <2>3
    <3>2. CASE n = Len(wire) + 1
      BY <1>4, <1>5, <2>1, <2>2, <3>1, <3>2 DEF AllUpTo
    <3>3. CASE n \in 1 .. Len(wire)
      BY <1>4, <2>3, <3>1, <3>3 DEF OrderInv, HandInv, Ascending
    <3> QED BY <1>4, <3>2, <3>3
  <2>4. ASSUME NEW n \in DOMAIN stored PROVE AllAbove(wire', stored[n])
    BY <1>4, <1>5, <2>1, <2>2 DEF OrderInv, HandInv, AllAbove, AllUpTo
  <2>5. ASSUME pc = "store" PROVE AllAbove(wire', msg)
    BY <1>4, <1>5, <2>1, <2>2, <2>5 DEF OrderInv, HandInv, AllAbove
  <2> QED BY <1>2, <2>3, <2>4, <2>5 DEF OrderInv, HandInv, Ascending
<1>9. JoinInv'
  <2>1. AllAbove(wire', joinedAt) BY <1>4, <1>5 DEF OrderInv, JoinInv, AllAbove
  <2> QED BY <1>2, <1>7, <2>1 DEF OrderInv, JoinInv
<1>10. NextInv'
  <2>1. \A n \in DOMAIN wire : wire[n] \in Nat BY DEF Types, TypeOK
  <2>2. AllUpTo(wire', i)
    BY <1>2, <1>4, <1>5, <2>1 DEF OrderInv, NextInv, AllUpTo
  <2>3. \A n \in DOMAIN stored : stored[n] \in Nat BY DEF Types, TypeOK
  <2>4. AllUpTo(stored, i) BY <1>2, <1>5, <2>3 DEF OrderInv, NextInv, AllUpTo
  <2>5. pc = "store" => msg <= i
    BY <1>2, <1>5 DEF OrderInv, NextInv, Types, TypeOK
  <2> QED BY <1>1, <1>2, <2>2, <2>4, <2>5 DEF NextInv
<1> QED BY <1>6, <1>8, <1>9, <1>10 DEF OrderInv

\* The order is kept by every step: OrderInv is inductive.
LEMMA OrderStep ==
  ASSUME Types, OrderInv, [Next]_vars
  PROVE  OrderInv'
<1>1. wire \in Seq(Nat) /\ DOMAIN wire = 1 .. Len(wire) /\ Len(wire) \in Nat
  BY DEF Types, TypeOK
<1>2. ASSUME UNCHANGED <<wire, opened, stored, joinedAt, from, shown>>,
             \A k \in Subs : status'[k] = "idle" <=> status[k] = "idle",
             pc' = "store" => pc = "store" /\ msg' = msg
      PROVE  OrderInv'
  <2>1. \A i \in DOMAIN wire' : i + 0 \in DOMAIN wire /\ wire'[i] = wire[i + 0]
    BY <1>1, <1>2
  <2>2. wire' \in Seq(Nat) BY <1>1, <1>2
  <2> QED BY <1>2, <2>1, <2>2, OrderKept
<1>3. CASE Publish
  <2>1. UNCHANGED <<wire, opened, stored, joinedAt, from, shown, status, pc, msg>>
    BY <1>3 DEF Publish, Q!Publish, loopVars, linkVars
  <2> QED BY <1>2, <2>1
<1>4. ASSUME NEW k \in Subs, Leave(k) PROVE OrderInv'
  <2>1. UNCHANGED <<wire, opened, stored, joinedAt, from, shown, pc, msg>>
    BY <1>4 DEF Leave, Q!Leave, loopVars, linkVars
  <2>2. \A j \in Subs : status'[j] = "idle" <=> status[j] = "idle"
    BY <1>4 DEF Leave, Q!Leave
  <2> QED BY <1>2, <2>1, <2>2
<1>5. CASE Break
  <2>1. PICK n \in 0 .. Len(wire) : wire' = SubSeq(wire, 1, n) BY <1>5 DEF Break
  <2>2. /\ wire' \in Seq(Nat)
        /\ \A i \in DOMAIN wire' : i + 0 \in DOMAIN wire /\ wire'[i] = wire[i + 0]
    BY <1>1, <2>1
  <2>3. UNCHANGED <<opened, stored, joinedAt, from, shown, status, pc, msg>>
    BY <1>5 DEF Break, queueVars, loopVars
  <2> QED BY <2>2, <2>3, OrderKept
<1>6. CASE LeaveStream
  <2>1. /\ wire' \in Seq(Nat)
        /\ \A i \in DOMAIN wire' : i + 0 \in DOMAIN wire /\ wire'[i] = wire[i + 0]
    BY <1>6 DEF LeaveStream
  <2>2. /\ UNCHANGED <<opened, stored, joinedAt, from, shown, status>>
        /\ pc' # "store"
    BY <1>6 DEF LeaveStream, queueVars
  <2> QED BY <2>1, <2>2, OrderKept
<1>7. CASE EndLoop \/ Check \/ StoreFails \/ Ack \/ AckFails \/ Cancel \/ Stop
             \/ CloseStorage \/ UNCHANGED vars
  <2>1. CASE LeaveStream BY <1>6, <2>1
  <2>2. CASE ~LeaveStream
    <3>1. /\ UNCHANGED <<wire, opened, stored, joinedAt, from, shown, status>>
          /\ pc' = "store" => pc = "store" /\ msg' = msg
      BY <1>7, <2>2
      DEF EndLoop, Check, StoreFails, AfterFailedStore, Ack, AckFails,
          AfterFailedAck, Cancel, Stop, CloseStorage, vars, queueVars, loopVars,
          linkVars
    <3> QED BY <1>2, <3>1
  <2> QED BY <2>1, <2>2
<1>8. ASSUME NEW p \in late, LateAck(p) PROVE OrderInv'
  <2>1. UNCHANGED <<wire, opened, stored, joinedAt, from, shown, status, pc, msg>>
    BY <1>8 DEF LateAck, queueVars, loopVars, linkVars
  <2> QED BY <1>2, <2>1
<1>9. CASE LoopStep
  BY <1>6, <1>7, <1>9, OrderConnect, OrderReceive, OrderStore
  DEF LoopStep, ReceiveFails
<1> QED
  BY <1>3, <1>4, <1>5, <1>7, <1>8, <1>9, OrderJoin, OrderDeliver DEF Next

\* It holds at first.
LEMMA OrderInit == Init => OrderInv
<1> SUFFICES ASSUME Init PROVE OrderInv OBVIOUS
<1>1. /\ wire = <<>> /\ stored = <<>> /\ pc = "connect" /\ joinedAt = 0
      /\ \A k \in Subs : status[k] = "idle" /\ shown[k] = <<>> /\ from[k] = 0
  BY DEF Init, Q!Init
<1>2. \A k \in Subs : Q!Last(k) = 0 BY <1>1 DEF Q!Last
<1>3. StreamInv BY <1>1, <1>2 DEF StreamInv
<1>4. HandInv BY <1>1 DEF HandInv, Ascending
<1>5. JoinInv BY <1>1 DEF JoinInv, AllAbove
<1>6. NextInv BY <1>1 DEF NextInv
<1> QED BY <1>3, <1>4, <1>5, <1>6 DEF OrderInv

\* It holds at all times.
LEMMA OrderCorrect == Spec => [](Types /\ OrderInv)
BY OrderInit, OrderStep, TypesCorrect, PTL DEF Spec

\* Storing a message shows it to the one subscriber; the first join is its join;
\* publishing is publishing; nothing else is seen of the collector.
LEMMA SubscriptionStep ==
  ASSUME Types, OrderInv, [Next]_vars
  PROVE  [P!Next]_(P!vars)
<1>1. CASE Publish
  <2>1. PICK m \in Message : Q!Publish(m) BY <1>1 DEF Publish
  <2>2. UNCHANGED <<stored, joinedAt>> /\ Joined' = Joined
    BY <1>1, <2>1 DEF Publish, loopVars, Q!Publish, Joined
  <2>3. P!Publish(m) BY <2>1, <2>2 DEF P!Publish, Q!Publish
  <2> QED BY <2>3 DEF P!Next
<1>2. ASSUME NEW k \in Subs, Join(k) PROVE [P!Next]_(P!vars)
  <2>1. UNCHANGED <<log, stored>> /\ Joined'
    BY <1>2 DEF Join, Q!Join, loopVars, Joined, Types, TypeOK
  <2>2. CASE Joined
    <3>1. joinedAt' = joinedAt BY <1>2, <2>2 DEF Join, Joined
    <3> QED BY <2>1, <2>2, <3>1 DEF P!vars
  <2>3. CASE ~Joined
    <3>1. joinedAt' = Len(log) BY <1>2, <2>3 DEF Join, Joined
    <3>2. P!Join("collector", Topic) BY <2>1, <2>3, <3>1 DEF P!Join
    <3> QED BY <3>2 DEF P!Next, Topics
  <2> QED BY <2>2, <2>3
<1>3. CASE StoreMessage
  <2>1. /\ pc = "store" /\ stored' = Append(stored, msg)
        /\ UNCHANGED <<log, status, joinedAt>>
    BY <1>3 DEF StoreMessage, queueVars
  <2>2. Joined /\ Joined' = Joined /\ joinedAt < msg /\ AllBelow(stored, msg)
    BY <2>1 DEF OrderInv, HandInv, JoinInv, Joined
  <2>3. msg \in DOMAIN log /\ log[msg].topic = Topic
    <3>1. msg \in DOMAIN log BY <2>1 DEF Types, InHand
    <3>2. log[msg] \in Message BY <3>1 DEF Types, TypeOK
    <3> QED BY <3>1, <3>2 DEF Message, Topics
  <2>4. /\ P!Last("collector") \in Nat /\ P!Last("collector") < msg
        /\ P!Horizon("collector") = Len(log)
    <3>1. stored \in Seq(Nat) /\ joinedAt \in Nat BY DEF Types, TypeOK
    <3>2. stored # <<>> => Len(stored) \in DOMAIN stored BY <3>1
    <3> QED BY <2>2, <3>1, <3>2 DEF P!Last, P!Horizon, AllBelow
  <2>5. msg \in (P!Last("collector") + 1) .. P!Horizon("collector")
    BY <2>3, <2>4 DEF Types, TypeOK
  <2>6. P!Show("collector") BY <2>1, <2>2, <2>3, <2>5 DEF P!Show
  <2> QED BY <2>6 DEF P!Next
<1>4. ASSUME UNCHANGED <<log, stored, joinedAt>>,
             \A k \in Subs : status'[k] = "idle" <=> status[k] = "idle"
      PROVE  UNCHANGED P!vars
  <2>1. Joined' = Joined BY <1>4 DEF Joined
  <2> QED BY <1>4, <2>1 DEF P!vars
<1>5. ASSUME NEW k \in Subs, Deliver(k) \/ Leave(k) PROVE UNCHANGED P!vars
  <2>1. /\ UNCHANGED <<log, stored, joinedAt>>
        /\ \A j \in Subs : status'[j] = "idle" <=> status[j] = "idle"
    BY <1>5 DEF Deliver, Leave, Q!Show, Q!Leave, loopVars
  <2> QED BY <1>4, <2>1
<1>6. CASE Break \/ EndLoop \/ Connect \/ Check \/ Receive \/ ReceiveFails
             \/ StoreFails \/ Ack \/ AckFails \/ (\E p \in late : LateAck(p))
             \/ Cancel \/ Stop \/ CloseStorage \/ UNCHANGED vars
  <2>1. UNCHANGED <<log, stored, joinedAt, status>>
    BY <1>6 DEF Break, EndLoop, Connect, Check, LeaveStream, Receive,
       ReceiveFails, StoreFails, Ack, AckFails, LateAck, Cancel, Stop,
       CloseStorage, vars, queueVars, loopVars
  <2> QED BY <1>4, <2>1
<1> QED BY <1>1, <1>2, <1>3, <1>5, <1>6 DEF Next, LoopStep

\* All the streams of a collector together are one subscription of the lossy
\* broadcast, for any number of messages and streams.
THEOREM OneSubscription == Spec => StreamsAreOneSubscription
<1>1. Init => P!Init
  <2> SUFFICES ASSUME Init PROVE P!Init OBVIOUS
  <2>1. ~Joined BY DEF Init, Q!Init, Joined
  <2> QED BY <2>1 DEF Init, Q!Init, P!Init
<1> QED
  BY <1>1, SubscriptionStep, OrderCorrect, PTL
  DEF Spec, StreamsAreOneSubscription, P!Spec

-----------------------------------------------------------------------------
(* Messages are taken in turn. *)

\* The loop has taken the first n messages sent on its stream, the last of them
\* msg; on the wire are the next ones, all the others if the stream is open.
TakenUpTo(n) ==
  /\ n > 0 => shown[opened][n] = msg
  /\ n + Len(wire) <= Len(shown[opened])
  /\ link = "open" => n + Len(wire) = Len(shown[opened])
  /\ \A i \in DOMAIN wire : wire[i] = shown[opened][n + i]

\* That is so as long as it has a stream.
TurnInv ==
  /\ link = "none" => wire = <<>>
  /\ link # "none" => opened \in Subs /\ \E n \in Nat : TakenUpTo(n)
  /\ pc \in {"check", "recv", "store", "ack"} => link # "none"

\* The numbers TurnInv is about.
LEMMA TurnCounted ==
  ASSUME Types
  PROVE  /\ wire \in Seq(Nat) /\ Len(wire) \in Nat /\ DOMAIN wire = 1 .. Len(wire)
         /\ \A k \in Subs : /\ shown[k] \in Seq(Nat) /\ Len(shown[k]) \in Nat
                            /\ DOMAIN shown[k] = 1 .. Len(shown[k])
         /\ opened \in Nat
BY CollectorAssumption DEF Types, TypeOK, QueueTypeOK

\* What the message taken next is.
NextInTurn ==
  \E n \in DOMAIN shown[opened] :
    /\ msg' = shown[opened][n]
    /\ n = 1 \/ msg = shown[opened][n - 1]

\* The message that is received is the one sent after the last.
LEMMA TurnReceive ==
  ASSUME Types, TurnInv, Receive
  PROVE  TurnInv' /\ NextInTurn
<1>1. /\ wire # <<>> /\ msg' = Head(wire) /\ wire' = Tail(wire) /\ link # "none"
      /\ UNCHANGED <<opened, shown, link>>
  BY DEF Receive, Unread, queueVars, TurnInv
<1>2. PICK n \in Nat : TakenUpTo(n) BY <1>1 DEF TurnInv
<1>3. /\ opened \in Subs /\ wire \in Seq(Nat) /\ Len(wire) \in Nat
      /\ DOMAIN wire = 1 .. Len(wire)
      /\ DOMAIN shown[opened] = 1 .. Len(shown[opened])
      /\ Len(shown[opened]) \in Nat
  BY <1>1, TurnCounted DEF TurnInv
<1>4. /\ Len(wire) >= 1 /\ msg' = wire[1] /\ Len(wire') = Len(wire) - 1
      /\ DOMAIN wire' = 1 .. Len(wire) - 1
      /\ \A i \in DOMAIN wire' : wire'[i] = wire[i + 1]
  BY <1>1, <1>3
<1>5. msg' = shown[opened][n + 1] BY <1>2, <1>3, <1>4 DEF TakenUpTo
<1>6. TakenUpTo(n + 1)'
  <2>1. n + 1 + Len(wire') = n + Len(wire) BY <1>3, <1>4
  <2>2. \A i \in DOMAIN wire' : wire'[i] = shown'[opened'][n + 1 + i]
    <3> SUFFICES ASSUME NEW i \in DOMAIN wire'
                 PROVE  wire[i + 1] = shown[opened][n + 1 + i]
      BY <1>1, <1>4
    <3>1. i + 1 \in DOMAIN wire /\ n + (i + 1) = n + 1 + i BY <1>3, <1>4
    <3> QED BY <1>2, <3>1 DEF TakenUpTo
  <2> QED BY <1>1, <1>2, <1>5, <2>1, <2>2 DEF TakenUpTo
<1>7. TurnInv' BY <1>1, <1>3, <1>6 DEF TurnInv
<1>8. n + 1 \in DOMAIN shown[opened] BY <1>2, <1>3, <1>4 DEF TakenUpTo
<1>9. n + 1 = 1 \/ msg = shown[opened][n + 1 - 1] BY <1>2 DEF TakenUpTo
<1> QED BY <1>5, <1>7, <1>8, <1>9 DEF NextInTurn

\* What the server sends comes last.
LEMMA TurnDeliver ==
  ASSUME Types, TurnInv, NEW k \in Subs, Deliver(k)
  PROVE  TurnInv'
<1>1. PICK i \in DOMAIN log :
        /\ shown' = [shown EXCEPT ![k] = Append(@, i)]
        /\ Q!Last(k)' = i
  BY ShownNext DEF Deliver
<1>2. /\ k = opened /\ link = "open" /\ wire' = Append(wire, i)
      /\ shown'[k] = Append(shown[k], i)
      /\ UNCHANGED <<pc, opened, msg, link>>
  BY <1>1 DEF Deliver, loopVars, Types, QueueTypeOK
<1>3. /\ wire \in Seq(Nat) /\ Len(wire) \in Nat /\ DOMAIN wire = 1 .. Len(wire)
      /\ shown[k] \in Seq(Nat) /\ Len(shown[k]) \in Nat
  BY TurnCounted
<1>4. PICK n \in Nat : TakenUpTo(n) BY <1>2 DEF TurnInv
<1>5. /\ Len(wire') = Len(wire) + 1 /\ Len(shown'[k]) = Len(shown[k]) + 1
      /\ DOMAIN wire' = 1 .. Len(wire) + 1
      /\ wire'[Len(wire) + 1] = i /\ shown'[k][Len(shown[k]) + 1] = i
      /\ \A j \in 1 .. Len(wire) : wire'[j] = wire[j]
      /\ \A j \in 1 .. Len(shown[k]) : shown'[k][j] = shown[k][j]
  BY <1>2, <1>3
<1>6. n + Len(wire) = Len(shown[k]) /\ (n > 0 => shown[k][n] = msg)
  BY <1>2, <1>4 DEF TakenUpTo
<1>7. TakenUpTo(n)'
  <2>1. n > 0 => shown'[k][n] = msg
    <3>1. n > 0 => n \in 1 .. Len(shown[k]) BY <1>3, <1>6
    <3> QED BY <1>5, <1>6, <3>1
  <2>2. n + Len(wire') = Len(shown'[k])
    <3> DEFINE w == Len(wire)
               t == Len(shown[k])
    <3>1. w \in Nat /\ t \in Nat /\ n + w = t BY <1>3, <1>6
    <3> HIDE DEF w, t
    <3>2. n + (w + 1) = t + 1 BY <3>1
    <3> QED BY <1>5, <3>2 DEF w, t
  <2>3. ASSUME NEW j \in DOMAIN wire' PROVE wire'[j] = shown'[k][n + j]
    <3>1. CASE j = Len(wire) + 1 BY <1>3, <1>5, <1>6, <3>1
    <3>2. CASE j \in 1 .. Len(wire)
      <4>1. n + j \in 1 .. Len(shown[k]) BY <1>3, <1>6, <3>2
      <4>2. wire[j] = shown[k][n + j] BY <1>2, <1>3, <1>4, <3>2 DEF TakenUpTo
      <4> QED BY <1>5, <3>2, <4>1, <4>2
    <3> QED BY <1>5, <3>1, <3>2
  <2>4. n + Len(wire') <= Len(shown'[k])
    <3>1. Len(shown'[k]) \in Nat BY <1>3, <1>5
    <3> QED BY <2>2, <3>1
  <2>5. opened' = k /\ msg' = msg BY <1>2
  <2> QED BY <2>1, <2>2, <2>3, <2>4, <2>5 DEF TakenUpTo
<1> QED BY <1>2, <1>7 DEF TurnInv

\* A stream that breaks loses what came last.
LEMMA TurnBreak ==
  ASSUME Types, TurnInv, Break
  PROVE  TurnInv'
<1>1. PICK m \in 0 .. Len(wire) : wire' = SubSeq(wire, 1, m) BY DEF Break
<1>2. /\ link = "open" /\ link' = "broken"
      /\ UNCHANGED <<pc, opened, msg, shown>>
  BY DEF Break, loopVars, queueVars
<1>3. /\ wire \in Seq(Nat) /\ Len(wire) \in Nat /\ DOMAIN wire = 1 .. Len(wire)
      /\ opened \in Subs /\ Len(shown[opened]) \in Nat
  BY <1>2, TurnCounted DEF TurnInv
<1>4. PICK n \in Nat : TakenUpTo(n) BY <1>2 DEF TurnInv
<1>5. /\ Len(wire') = m /\ DOMAIN wire' = 1 .. m
      /\ \A j \in 1 .. m : wire'[j] = wire[j]
  BY <1>1, <1>3
<1>6. TakenUpTo(n)' BY <1>2, <1>3, <1>4, <1>5 DEF TakenUpTo
<1> QED BY <1>2, <1>3, <1>6 DEF TurnInv

\* On a stream that was just opened nothing was sent.
LEMMA TurnConnect ==
  ASSUME Types, OrderInv, LinkInv, TurnInv, Connect
  PROVE  TurnInv'
<1>1. /\ link = "none" /\ link' = "open" /\ opened < MaxStreams
      /\ opened' = opened + 1 /\ UNCHANGED <<wire, shown, msg>>
  BY DEF Connect, LinkInv, queueVars
<1>2. opened' \in Subs /\ opened < opened'
  BY <1>1, CollectorAssumption, TurnCounted DEF Subs
<1>3. shown'[opened'] = <<>> BY <1>1, <1>2 DEF OrderInv, StreamInv
<1>4. wire' = <<>> BY <1>1 DEF TurnInv
<1>5. TakenUpTo(0)' BY <1>3, <1>4 DEF TakenUpTo
<1> QED BY <1>1, <1>2, <1>5 DEF TurnInv

\* Every step keeps TurnInv, and takes a message in its turn when it takes one.
LEMMA TurnStep ==
  ASSUME Types, OrderInv, LinkInv, TurnInv, [Next]_vars
  PROVE  /\ TurnInv'
         /\ pc = "recv" /\ pc' \in {"store", "check"} => NextInTurn
<1>1. CASE Receive BY <1>1, TurnReceive
<1>2. ASSUME NEW k \in Subs, Deliver(k)
      PROVE  TurnInv' /\ pc' = pc
  BY <1>2, TurnDeliver DEF Deliver, loopVars
<1>3. CASE Break BY <1>3, TurnBreak DEF Break, loopVars
<1>4. CASE Connect BY <1>4, TurnConnect DEF Connect
<1>5. CASE LeaveStream BY <1>5 DEF LeaveStream, TurnInv
<1>6. ASSUME UNCHANGED <<opened, msg, link, wire, shown>>,
             pc' \in {"check", "recv", "store", "ack"} =>
               pc \in {"check", "recv", "store", "ack"},
             pc = "recv" => pc' \notin {"store", "check"}
      PROVE  /\ TurnInv'
             /\ pc = "recv" /\ pc' \in {"store", "check"} => NextInTurn
  BY <1>6 DEF TurnInv, TakenUpTo
<1>7. \/ Receive \/ Break \/ Connect \/ LeaveStream
      \/ \E k \in Subs : Deliver(k)
      \/ /\ UNCHANGED <<opened, msg, link, wire, shown>>
         /\ pc' \in {"check", "recv", "store", "ack"} =>
              pc \in {"check", "recv", "store", "ack"}
         /\ pc = "recv" => pc' \notin {"store", "check"}
  BY DEF Next, LoopStep, Publish, Q!Publish, Join, Q!Join, Leave, Q!Leave, EndLoop,
     Check, ReceiveFails, StoreMessage, StoreFails, AfterFailedStore, Ack,
     AckFails, AfterFailedAck, LateAck, Cancel, Stop, CloseStorage, vars,
     queueVars, loopVars, linkVars
<1> QED BY <1>1, <1>2, <1>3, <1>4, <1>5, <1>6, <1>7

\* The loop takes the messages of a stream in the order they were sent in and
\* leaves none out: what is lost of a stream is its end.
THEOREM NoneLeftOut == Spec => TakenInTurn
<1>1. Init => LinkInv /\ TurnInv BY DEF Init, LinkInv, TurnInv
<1>2. LinkInv /\ [Next]_vars => LinkInv' BY LinkStep
<1>3. Types /\ OrderInv /\ LinkInv /\ TurnInv /\ [Next]_vars =>
        /\ TurnInv'
        /\ [pc = "recv" /\ pc' \in {"store", "check"} =>
              \E n \in DOMAIN shown[opened] :
                /\ msg' = shown[opened][n]
                /\ n = 1 \/ msg = shown[opened][n - 1]]_vars
  BY TurnStep DEF NextInTurn
<1> QED BY <1>1, <1>2, <1>3, OrderCorrect, PTL DEF Spec, TakenInTurn

=============================================================================
