--------------------------- MODULE PipelineProofs ---------------------------
(***************************************************************************)
(* Theorems about Pipeline, for any number of faults: processes that end   *)
(* and are started again, and streams that break, in any states of one     *)
(* another, whatever the file, the windows and the batches.                *)
(*                                                                         *)
(* They rest on the theorems about Collector and Streamer, whose           *)
(* invariants survive what only happens here.                              *)
(***************************************************************************)
EXTENDS Pipeline, TLAPS

\* The collector's theorems, about the collector of this module.
K == INSTANCE CollectorProofs WITH pc <- loopPc

\* The streamer's, likewise.
T == INSTANCE StreamerProofs WITH pc <- sendPc, wire <- requests

\* What they assume of the constants.
LEMMA Bounds == K!CollectorAssumption /\ T!StreamerAssumption
BY PipelineAssumption DEF K!CollectorAssumption, T!StreamerAssumption, T!Rows

\* The collector's invariant: its types, that what it acknowledges was stored,
\* and the order of what it has in its hands.  Its Stop is never called, so that
\* no loop begins anew over a closed storage.
SinkInv == K!Types /\ K!AckInv /\ K!OrderInv /\ stop = "idle"

-----------------------------------------------------------------------------
(* Steps of the processes at work are steps of the collector and its queue. *)

\* The queue takes a request.
LEMMA PublishIsCollectors == ASSUME C!Publish PROVE K!Publish
BY DEF C!Publish, K!Publish, C!Q!Publish, K!Q!Publish, C!Message, K!Message,
   C!Topics, K!Topics, C!Topic, K!Topic, C!loopVars, K!loopVars, C!linkVars,
   K!linkVars, C!ackVars, K!ackVars, C!stopVars, K!stopVars

\* The queue does something for a stream of the collector.
LEMMA StreamsAreCollectors ==
  ASSUME NEW k \in C!Subs, C!Join(k) \/ C!Deliver(k) \/ C!Leave(k)
  PROVE  K!Join(k) \/ K!Deliver(k) \/ K!Leave(k)
BY DEF C!Join, K!Join, C!Q!Join, K!Q!Join, C!Deliver, K!Deliver, C!Q!Show,
   K!Q!Show, C!Q!Last, K!Q!Last, C!Q!Horizon, K!Q!Horizon, C!Leave, K!Leave,
   C!Q!Leave, K!Q!Leave, C!Topic, K!Topic, C!Subs, K!Subs, C!loopVars,
   K!loopVars, C!linkVars, K!linkVars, C!ackVars, K!ackVars, C!stopVars,
   K!stopVars

\* The loop goes on.
LEMMA LoopIsCollectors == ASSUME C!LoopStep PROVE K!LoopStep
BY DEF C!LoopStep, K!LoopStep, C!EndLoop, K!EndLoop, C!Connect, K!Connect,
   C!Check, K!Check, C!LeaveStream, K!LeaveStream, C!Receive, K!Receive,
   C!Unread, K!Unread, C!ReceiveFails, K!ReceiveFails, C!Failed, K!Failed, C!StoreMessage,
   K!StoreMessage, C!StoreFails, K!StoreFails, C!AfterFailedStore,
   K!AfterFailedStore, C!Ack, K!Ack, C!Acknowledged, K!Acknowledged,
   C!AckFails, K!AckFails, C!AfterFailedAck, K!AfterFailedAck, C!queueVars,
   K!queueVars, C!linkVars, K!linkVars, C!ackVars, K!ackVars, C!stopVars,
   K!stopVars

\* A stream breaks, or a late acknowledgement arrives.
LEMMA OthersAreCollectors ==
  ASSUME C!Break \/ \E p \in late : C!LateAck(p)
  PROVE  K!Break \/ \E p \in late : K!LateAck(p)
BY DEF C!Break, K!Break, C!LateAck, K!LateAck, C!queueVars, K!queueVars,
   C!loopVars, K!loopVars, C!linkVars, K!linkVars, C!ackVars, K!ackVars,
   C!stopVars, K!stopVars

\* The collector and its queue, left alone.
LEMMA CollectorUnchanged ==
  ASSUME UNCHANGED <<queueVars, sinkVars>>
  PROVE  UNCHANGED K!vars
BY DEF queueVars, sinkVars, K!vars, K!queueVars, K!loopVars, K!linkVars,
   K!ackVars, K!stopVars

\* Unless the queue or the sink ends, every step is one of the collector and its
\* queue, or leaves them alone.
LEMMA CollectorCases ==
  ASSUME [Next]_vars, ~QueueEnds, ~SinkEnds
  PROVE  [K!Next]_(K!vars)
<1>1. ASSUME NEW k \in Streams, Publish(k) PROVE K!Next
  <2>1. C!Publish BY <1>1 DEF Publish
  <2> QED BY <2>1, PublishIsCollectors DEF K!Next
<1>2. ASSUME SinkStep PROVE K!Next
  <2>1. CASE C!LoopStep BY <2>1, LoopIsCollectors DEF K!Next
  <2>2. ASSUME NEW k \in C!Subs, C!Join(k) \/ C!Deliver(k) \/ C!Leave(k)
        PROVE  K!Next
    <3>1. K!Join(k) \/ K!Deliver(k) \/ K!Leave(k) BY <2>2, StreamsAreCollectors
    <3>2. k \in K!Subs BY <2>2 DEF C!Subs, K!Subs
    <3> QED BY <3>1, <3>2 DEF K!Next
  <2>3. CASE \E p \in late : C!LateAck(p)
    BY <2>3, OthersAreCollectors DEF K!Next
  <2> QED BY <1>2, <2>1, <2>2, <2>3 DEF SinkStep
<1>3. ASSUME StreamBreaks PROVE [K!Next]_(K!vars)
  <2>1. CASE C!Break BY <2>1, OthersAreCollectors DEF K!Next
  <2>2. CASE UNCHANGED <<queueVars, sinkVars>> BY <2>2, CollectorUnchanged
  <2> QED BY <1>3, <2>1, <2>2 DEF StreamBreaks
<1>4. CASE UNCHANGED <<queueVars, sinkVars>> BY <1>4, CollectorUnchanged
<1> QED
  BY <1>1, <1>2, <1>3, <1>4
  DEF Next, TakeBatch, OpenStream, StreamerStep, StreamerEnds, vars

-----------------------------------------------------------------------------
(* What only happens here. *)

\* What is left of the wire when a stream breaks is a beginning of it.
LEMMA Beginning ==
  ASSUME NEW Val, NEW q \in Seq(Val), NEW n \in 0 .. Len(q)
  PROVE  /\ SubSeq(q, 1, n) \in Seq(Val)
         /\ \A i \in DOMAIN SubSeq(q, 1, n) :
              i + 0 \in DOMAIN q /\ SubSeq(q, 1, n)[i] = q[i + 0]
<1>1. Len(q) \in Nat /\ DOMAIN q = 1 .. Len(q) OBVIOUS
<1>2. \A i \in 1 .. n : q[i] \in Val BY <1>1
<1>3. SubSeq(q, 1, n) = [i \in 1 .. n |-> q[i]] BY <1>1
<1>4. [i \in 1 .. n |-> q[i]] \in Seq(Val) BY <1>1, <1>2
<1> QED BY <1>1, <1>3, <1>4

\* The end of the queue's process takes from the sink only what was on the wire.
LEMMA QueueEndsSafely ==
  ASSUME SinkInv, QueueEnds
  PROVE  SinkInv'
<1>1. K!Types /\ K!AckInv /\ K!OrderInv /\ stop = "idle" BY DEF SinkInv
<1>2. /\ UNCHANGED <<log, topicOf, from, shown, loopPc, opened, msg, storage,
                     late, acked, ctxDone, stop, stored, joinedAt>>
      /\ status' = [k \in K!Subs |-> IF status[k] = "live" THEN "gone" ELSE status[k]]
      /\ limit' = [k \in K!Subs |-> IF status[k] = "live" THEN Len(log) ELSE limit[k]]
      /\ link' = IF link = "open" THEN "broken" ELSE link
      /\ \E n \in 0 .. Len(wire) : wire' = SubSeq(wire, 1, n)
  BY DEF QueueEnds, C!Subs, K!Subs
<1>3. wire \in Seq(DOMAIN log) /\ Len(log) \in Nat /\ DOMAIN log = 1 .. Len(log)
  BY <1>1 DEF K!Types, K!TypeOK
<1>4. PICK n \in 0 .. Len(wire) : wire' = SubSeq(wire, 1, n) BY <1>2
<1>5. /\ wire' \in Seq(DOMAIN log)
      /\ \A i \in DOMAIN wire' : i + 0 \in DOMAIN wire /\ wire'[i] = wire[i + 0]
  BY <1>3, <1>4, Beginning
<1>6. K!Types'
  <2>1. /\ status' \in [K!Subs -> {"idle", "live", "gone"}]
        /\ limit' \in [K!Subs -> 0 .. Len(log)]
        /\ link' \in {"none", "open", "broken"}
    BY <1>1, <1>2, <1>3 DEF K!Types, K!TypeOK, K!QueueTypeOK
  <2>2. K!TypeOK' BY <1>1, <1>2, <1>5, <2>1 DEF K!Types, K!TypeOK
  <2>3. K!QueueTypeOK' BY <1>1, <1>2, <2>1 DEF K!Types, K!QueueTypeOK
  <2>4. K!InHand' BY <1>1, <1>2 DEF K!Types, K!InHand
  <2> QED BY <2>2, <2>3, <2>4 DEF K!Types
<1>7. K!AckInv' BY <1>1, <1>2 DEF K!AckInv, K!AckedIsStored, K!Stored
<1>8. K!OrderInv'
  <2>1. wire' \in Seq(Nat) BY <1>3, <1>5
  <2>2. \A k \in K!Subs : status'[k] = "idle" <=> status[k] = "idle" BY <1>2
  <2> QED BY <1>1, <1>2, <1>5, <2>1, <2>2, Bounds, K!OrderKept
<1> QED BY <1>1, <1>2, <1>6, <1>7, <1>8 DEF SinkInv

\* A sink that is started again has nothing in its hands; what may still arrive
\* of the one before was stored by it.
LEMMA SinkEndsSafely ==
  ASSUME SinkInv, SinkEnds
  PROVE  SinkInv'
<1>1. K!Types /\ K!AckInv /\ K!OrderInv /\ stop = "idle" BY DEF SinkInv
<1>2. /\ UNCHANGED <<log, status, topicOf, from, shown, limit, opened, acked,
                     ctxDone, stop, stored, joinedAt>>
      /\ loopPc' = "connect" /\ msg' = 0 /\ link' = "none" /\ wire' = <<>>
      /\ storage' = <<>>
      /\ late' \subseteq late \cup IF loopPc = "ack" THEN {msg} ELSE {}
  BY DEF SinkEnds, AfterRestart, queueVars
<1>3. Len(log) \in Nat BY <1>1 DEF K!Types, K!TypeOK
<1>4. K!Types'
  <2>1. late' \subseteq DOMAIN log
    BY <1>1, <1>2 DEF K!Types, K!TypeOK, K!InHand
  <2>2. wire' \in Seq(DOMAIN log) /\ storage' \in Seq(DOMAIN log) BY <1>2
  <2>3. K!TypeOK' BY <1>1, <1>2, <1>3, <2>1, <2>2 DEF K!Types, K!TypeOK
  <2>4. K!QueueTypeOK' BY <1>1, <1>2 DEF K!Types, K!QueueTypeOK
  <2>5. K!InHand' BY <1>2 DEF K!InHand
  <2> QED BY <2>3, <2>4, <2>5 DEF K!Types
<1>5. K!AckInv'
  BY <1>1, <1>2 DEF K!AckInv, K!AckedIsStored, K!Stored
<1>6. K!OrderInv'
  <2>1. /\ wire' \in Seq(Nat)
        /\ \A i \in DOMAIN wire' : i + 0 \in DOMAIN wire /\ wire'[i] = wire[i + 0]
    BY <1>2
  <2> QED BY <1>1, <1>2, <2>1, Bounds, K!OrderKept
<1> QED BY <1>1, <1>2, <1>4, <1>5, <1>6 DEF SinkInv

\* So the collector's invariant survives every step, faults included.
LEMMA SinkInvStep ==
  ASSUME SinkInv, [Next]_vars
  PROVE  SinkInv'
<1>1. CASE QueueEnds BY <1>1, QueueEndsSafely
<1>2. CASE SinkEnds BY <1>2, SinkEndsSafely
<1>3. CASE ~QueueEnds /\ ~SinkEnds
  <2>1. [K!Next]_(K!vars) BY <1>3, CollectorCases
  <2>2. K!Types' BY <2>1, Bounds, K!TypeStep DEF SinkInv
  <2>3. K!AckInv' BY <2>1, Bounds, K!AckStep DEF SinkInv
  <2>4. K!OrderInv' BY <2>1, Bounds, K!OrderStep DEF SinkInv
  <2>5. stop' = stop
    BY <1>3 DEF Next, TakeBatch, OpenStream, Publish, StreamerStep, SinkStep,
       StreamBreaks, StreamerEnds, sinkVars, C!Publish, C!Join, C!Deliver,
       C!Leave, C!Break, C!LateAck, C!LoopStep, C!EndLoop, C!Connect, C!Check,
       C!LeaveStream, C!Receive, C!ReceiveFails, C!StoreMessage, C!StoreFails,
       C!Ack, C!AckFails, C!stopVars, vars
  <2> QED BY <2>2, <2>3, <2>4, <2>5 DEF SinkInv
<1> QED BY <1>1, <1>2, <1>3

\* It holds at all times.
LEMMA SinkCorrect == Spec => []SinkInv
<1>1. Init => SinkInv
  <2> SUFFICES ASSUME Init PROVE SinkInv OBVIOUS
  <2>1. K!Init
    BY DEF Init, C!Init, K!Init, C!Q!Init, K!Q!Init, C!Subs, K!Subs,
       C!NoTopic, K!NoTopic
  <2>2. K!Types BY <2>1, Bounds, K!TypesInit
  <2>3. K!AckInv BY <2>1 DEF K!Init, K!AckInv, K!AckedIsStored
  <2>4. K!OrderInv BY <2>1, Bounds, K!OrderInit
  <2>5. stop = "idle" BY <2>1 DEF K!Init
  <2> QED BY <2>2, <2>3, <2>4, <2>5 DEF SinkInv
<1> QED BY <1>1, SinkInvStep, PTL DEF Spec

-----------------------------------------------------------------------------

\* The queue never hears of a message that no sink has stored, through any number
\* of crashes and restarts of the three processes.
THEOREM AcksSurviveRestarts == Spec => []AckedWasStored
<1>1. SinkInv => AckedWasStored
  BY DEF SinkInv, K!AckInv, K!AckedIsStored, K!Stored, AckedWasStored,
     C!AckedIsStored, C!Stored
<1> QED BY <1>1, SinkCorrect, PTL

\* No step here, the ends of processes included, is seen of the one subscription
\* but what the collector's own steps show of it.
LEMMA OneSubscriptionStep ==
  ASSUME SinkInv, [Next]_vars
  PROVE  [C!P!Next]_(C!P!vars)
<1>1. CASE QueueEnds \/ SinkEnds
  <2>1. /\ UNCHANGED <<log, stored, joinedAt>>
        /\ \A k \in C!Subs : status'[k] = "idle" <=> status[k] = "idle"
    BY <1>1 DEF QueueEnds, SinkEnds, queueVars
  <2>2. C!Joined' = C!Joined BY <2>1 DEF C!Joined
  <2> QED BY <2>1, <2>2 DEF C!P!vars
<1>2. CASE ~QueueEnds /\ ~SinkEnds
  <2>1. [K!Next]_(K!vars) BY <1>2, CollectorCases
  <2>2. [K!P!Next]_(K!P!vars)
    BY <2>1, Bounds, K!SubscriptionStep DEF SinkInv
  <2> QED
    BY <2>2 DEF K!P!Next, C!P!Next, K!P!vars, C!P!vars, K!P!Publish, C!P!Publish,
       K!P!Join, C!P!Join, K!P!Show, C!P!Show, K!P!Leave, C!P!Leave, K!P!Last,
       C!P!Last, K!P!Horizon, C!P!Horizon, K!Joined, C!Joined, K!Subs, C!Subs,
       K!Topics, C!Topics, K!Topic, C!Topic, K!NoTopic, C!NoTopic, K!Message,
       C!Message
<1> QED BY <1>1, <1>2

\* The streams of all sinks that follow on each other are one subscription of one
\* lossy broadcast: no number of restarts repeats or reorders what is stored.
THEOREM SinksSeeOneBroadcast == Spec => SinksAreOneSubscription
<1>1. Init => C!P!Init
  <2> SUFFICES ASSUME Init PROVE C!P!Init OBVIOUS
  <2>1. ~C!Joined BY DEF Init, C!Init, C!Q!Init, C!Joined
  <2> QED BY <2>1 DEF Init, C!Init, C!Q!Init, C!P!Init
<1> QED
  BY <1>1, OneSubscriptionStep, SinkCorrect, PTL
  DEF Spec, SinksAreOneSubscription, C!StreamsAreOneSubscription, C!P!Spec

-----------------------------------------------------------------------------
(* The order of the file: in the storage the API answers from, rows stand in *)
(* it, but for streams that overlapped.  Parts of sequences first. *)

Ascending(q) == \A i, j \in DOMAIN q : i < j => q[i] < q[j]

\* What is left of a sequence once some of its ends were taken away.
Part(p, q) ==
  \E d \in Nat : \A i \in DOMAIN p : i + d \in DOMAIN q /\ p[i] = q[i + d]

\* A part of an ascending sequence ascends, and has no entries of its own.
LEMMA PartAscends ==
  ASSUME NEW p \in Seq(Nat), NEW q \in Seq(Nat), Part(p, q)
  PROVE  /\ Ascending(q) => Ascending(p)
         /\ \A i \in DOMAIN p : \E j \in DOMAIN q : p[i] = q[j]
<1>1. PICK d \in Nat : \A i \in DOMAIN p : i + d \in DOMAIN q /\ p[i] = q[i + d]
  BY DEF Part
<1>2. DOMAIN p = 1 .. Len(p) /\ Len(p) \in Nat OBVIOUS
<1>3. \A i, j \in DOMAIN p : i < j => i + d < j + d BY <1>2
<1> QED BY <1>1, <1>3 DEF Ascending

\* The whole, the tail, a beginning and the empty sequence are parts.
LEMMA WholeIsPart == ASSUME NEW q \in Seq(Nat) PROVE Part(q, q)
<1>1. \A i \in DOMAIN q : i + 0 \in DOMAIN q /\ q[i] = q[i + 0] OBVIOUS
<1> QED BY <1>1 DEF Part

\* See above.
LEMMA TailIsPart ==
  ASSUME NEW q \in Seq(Nat), q # <<>>
  PROVE  Tail(q) \in Seq(Nat) /\ Part(Tail(q), q)
<1>1. /\ Tail(q) \in Seq(Nat) /\ DOMAIN q = 1 .. Len(q) /\ Len(q) \in Nat
      /\ DOMAIN Tail(q) = 1 .. Len(q) - 1
      /\ \A i \in DOMAIN Tail(q) : Tail(q)[i] = q[i + 1]
  OBVIOUS
<1>2. \A i \in DOMAIN Tail(q) : i + 1 \in DOMAIN q /\ Tail(q)[i] = q[i + 1]
  BY <1>1
<1> QED BY <1>1, <1>2 DEF Part

\* See above.
LEMMA BeginningIsPart ==
  ASSUME NEW q \in Seq(Nat), NEW n \in 0 .. Len(q)
  PROVE  SubSeq(q, 1, n) \in Seq(Nat) /\ Part(SubSeq(q, 1, n), q)
BY Beginning DEF Part

\* See above.
LEMMA EmptyIsPart == ASSUME NEW q PROVE Part(<<>>, q)
<1>1. \A i \in DOMAIN <<>> : i + 0 \in DOMAIN q /\ <<>>[i] = q[i + 0] OBVIOUS
<1> QED BY <1>1 DEF Part

\* Appending what comes after every entry keeps a sequence ascending.
LEMMA AppendAscends ==
  ASSUME NEW q \in Seq(Nat), NEW n \in Nat, Ascending(q),
         \A i \in DOMAIN q : q[i] < n
  PROVE  /\ Append(q, n) \in Seq(Nat)
         /\ Ascending(Append(q, n))
         /\ \A i \in DOMAIN Append(q, n) :
              (i \in DOMAIN q /\ Append(q, n)[i] = q[i]) \/ Append(q, n)[i] = n
<1>1. /\ Len(q) \in Nat /\ DOMAIN q = 1 .. Len(q)
      /\ DOMAIN Append(q, n) = 1 .. Len(q) + 1
      /\ Append(q, n)[Len(q) + 1] = n
      /\ \A i \in 1 .. Len(q) : Append(q, n)[i] = q[i]
      /\ Append(q, n) \in Seq(Nat)
  OBVIOUS
<1>2. Ascending(Append(q, n))
  <2> SUFFICES ASSUME NEW i \in 1 .. Len(q) + 1, NEW j \in 1 .. Len(q) + 1, i < j
               PROVE  Append(q, n)[i] < Append(q, n)[j]
    BY <1>1 DEF Ascending
  <2>1. i \in 1 .. Len(q) /\ Append(q, n)[i] = q[i] BY <1>1
  <2>2. CASE j = Len(q) + 1 BY <1>1, <2>1, <2>2
  <2>3. CASE j \in 1 .. Len(q) BY <1>1, <2>1, <2>3 DEF Ascending
  <2> QED BY <1>1, <2>2, <2>3
<1> QED BY <1>1, <1>2

\* The head of an ascending sequence comes before its tail.
LEMMA HeadBeforeTail ==
  ASSUME NEW q \in Seq(Nat), q # <<>>, Ascending(q)
  PROVE  /\ Head(q) \in Nat /\ 1 \in DOMAIN q /\ Head(q) = q[1]
         /\ \A i \in DOMAIN Tail(q) : Head(q) < Tail(q)[i]
<1>1. /\ Len(q) \in Nat /\ Len(q) > 0 /\ DOMAIN q = 1 .. Len(q)
      /\ DOMAIN Tail(q) = 1 .. Len(q) - 1 /\ Head(q) = q[1] /\ Head(q) \in Nat
      /\ \A i \in DOMAIN Tail(q) : Tail(q)[i] = q[i + 1]
  OBVIOUS
<1>2. \A i \in DOMAIN Tail(q) : i + 1 \in DOMAIN q /\ 1 < i + 1 BY <1>1
<1> QED BY <1>1, <1>2 DEF Ascending

-----------------------------------------------------------------------------
(* The invariant. *)

\* The values the streamer's side ranges over, as far as they are needed.
RowTypes ==
  /\ currentIdx \in Nat
  /\ batch \in Seq(Nat)
  /\ sendPc \in {"wait", "open", "send", "returned"}
  /\ state \in [Streams -> {"free", "open", "closing", "broken"}]
  /\ requests \in [Streams -> Seq(Nat)]
  /\ ticks \in Nat
  /\ tickOf \in [Streams -> Nat]
  /\ origin \in Seq([tick : Nat, row : Nat])

Used(k) == state[k] # "free"

\* The streamer holds a stream exactly while it sends, and that one is not free;
\* a free stream carries nothing.
StreamUse ==
  /\ IF sendPc = "send" THEN stream \in Streams /\ state[stream] \in {"open", "broken"}
     ELSE stream = 0
  /\ \A k \in Streams : Used(k) \/ requests[k] = <<>>

\* A batch, and what is on its way of one, are in the order of the file; what is
\* on its way comes before what is yet to be sent.
RowOrder ==
  /\ Ascending(batch)
  /\ \A k \in Streams : Ascending(requests[k])
  /\ \A k \in Streams : stream = k =>
       \A i \in DOMAIN requests[k], j \in DOMAIN batch : requests[k][i] < batch[j]

\* A tick opens one stream at most; streams that are there at a time overlap.
TickOrder ==
  /\ \A k \in Streams : tickOf[k] <= ticks /\ (sendPc = "open" => tickOf[k] < ticks)
  /\ \A n \in DOMAIN origin :
       origin[n].tick <= ticks /\ (sendPc = "open" => origin[n].tick < ticks)
  /\ \A j, k \in Streams : Used(j) /\ Used(k) /\ j # k =>
       /\ tickOf[j] # tickOf[k]
       /\ tickOf[j] < tickOf[k] => <<tickOf[j], tickOf[k]>> \in overlaps

\* What was published while a stream is there comes from an earlier tick, or from
\* one whose stream overlapped, or from this stream, of which only later rows are
\* still to come.
OriginOrder ==
  \A k \in Streams, n \in DOMAIN origin : Used(k) =>
    /\ tickOf[k] < origin[n].tick => <<tickOf[k], origin[n].tick>> \in overlaps
    /\ origin[n].tick = tickOf[k] =>
         /\ \A i \in DOMAIN requests[k] : origin[n].row < requests[k][i]
         /\ stream = k => \A j \in DOMAIN batch : origin[n].row < batch[j]

\* So the log is in order.
InFileOrder(a, b) ==
  \/ a.tick < b.tick
  \/ a.tick = b.tick /\ a.row < b.row
  \/ <<b.tick, a.tick>> \in overlaps

LogOrder ==
  \A m, n \in DOMAIN origin : m < n => InFileOrder(origin[m], origin[n])

PublishInv ==
  RowTypes /\ StreamUse /\ RowOrder /\ TickOrder /\ OriginOrder /\ LogOrder

\* A sequence over a set is one over any larger set.
LEMMA SeqWiden ==
  ASSUME NEW Val, NEW Wide, Val \subseteq Wide, NEW q \in Seq(Val)
  PROVE  q \in Seq(Wide)
OBVIOUS

\* An entry of a sequence is one of its values.
LEMMA EntryOf == ASSUME NEW Val, NEW q \in Seq(Val), NEW n \in DOMAIN q PROVE q[n] \in Val
OBVIOUS

\* What is known of a published row is two numbers.
LEMMA OriginTypes ==
  ASSUME PublishInv, NEW n \in DOMAIN origin
  PROVE  origin[n].tick \in Nat /\ origin[n].row \in Nat
<1>1. origin \in Seq([tick : Nat, row : Nat]) BY DEF PublishInv, RowTypes
<1>2. origin[n] \in [tick : Nat, row : Nat] BY <1>1, EntryOf
<1> QED BY <1>2

\* What a sequence is once a value was put at its end.
LEMMA AppendTo ==
  ASSUME NEW Val, NEW q \in Seq(Val), NEW v \in Val
  PROVE  /\ Append(q, v) \in Seq(Val)
         /\ DOMAIN Append(q, v) = DOMAIN q \cup {Len(q) + 1}
         /\ DOMAIN q = 1 .. Len(q) /\ Len(q) \in Nat
         /\ \A n \in DOMAIN q : Append(q, v)[n] = q[n]
         /\ Append(q, v)[Len(q) + 1] = v
OBVIOUS

-----------------------------------------------------------------------------
(* Steps that publish nothing. *)

\* A step that at most loses rows and frees streams keeps the order.
LEMMA OrderShrinks ==
  ASSUME PublishInv, RowTypes', UNCHANGED <<tickOf, ticks, overlaps, origin>>,
         sendPc' = "open" => sendPc = "open",
         stream' \in {stream, 0},
         Part(batch', batch),
         \A k \in Streams : Used(k)' => Used(k),
         \A k \in Streams : Part(requests'[k], requests[k])
  PROVE  RowOrder' /\ TickOrder' /\ OriginOrder' /\ LogOrder'
<1>1. /\ batch \in Seq(Nat) /\ batch' \in Seq(Nat)
      /\ \A k \in Streams : requests[k] \in Seq(Nat) /\ requests'[k] \in Seq(Nat)
  BY DEF PublishInv, RowTypes
<1>2. /\ Ascending(batch) => Ascending(batch')
      /\ \A i \in DOMAIN batch' : \E j \in DOMAIN batch : batch'[i] = batch[j]
  BY <1>1, PartAscends
<1>3. \A k \in Streams :
        /\ Ascending(requests[k]) => Ascending(requests'[k])
        /\ \A i \in DOMAIN requests'[k] :
             \E j \in DOMAIN requests[k] : requests'[k][i] = requests[k][j]
  BY <1>1, PartAscends
<1>4. \A k \in Streams : stream' = k => stream = k
  BY PipelineAssumption
<1>5. RowOrder'
  <2>1. Ascending(batch)' BY <1>2 DEF PublishInv, RowOrder, Ascending
  <2>2. \A k \in Streams : Ascending(requests[k])'
    BY <1>3 DEF PublishInv, RowOrder, Ascending
  <2>3. \A k \in Streams : stream' = k =>
          \A i \in DOMAIN requests'[k], j \in DOMAIN batch' :
            requests'[k][i] < batch'[j]
    BY <1>2, <1>3, <1>4 DEF PublishInv, RowOrder
  <2> QED BY <2>1, <2>2, <2>3 DEF RowOrder
<1>6. TickOrder' BY DEF PublishInv, TickOrder
<1>7. OriginOrder' BY <1>2, <1>3, <1>4 DEF PublishInv, OriginOrder
<1>8. LogOrder' BY DEF PublishInv, LogOrder, InFileOrder
<1> QED BY <1>5, <1>6, <1>7, <1>8

\* A step that leaves the streamer and what was published alone.
LEMMA OrderUnchanged ==
  ASSUME PublishInv, UNCHANGED <<streamerVars, tickVars, origin>>
  PROVE  PublishInv'
BY DEF PublishInv, streamerVars, tickVars, RowTypes, StreamUse, Used, RowOrder,
   Ascending, TickOrder, OriginOrder, LogOrder, InFileOrder

\* The rest of a batch is left: a row that cannot be encoded, or sent.
LEMMA OrderSkip ==
  ASSUME PublishInv, S!SkipUnencodable \/ S!SendFails,
         UNCHANGED <<tickVars, origin>>
  PROVE  PublishInv'
<1>1. /\ batch # <<>> /\ batch' = Tail(batch)
      /\ UNCHANGED <<currentIdx, sendPc, stream, state, requests>>
  BY DEF S!SkipUnencodable, S!SendFails, S!SkipRow, S!LeaveOutRow, S!streamVars
<1>2. batch \in Seq(Nat) BY DEF PublishInv, RowTypes
<1>3. batch' \in Seq(Nat) /\ Part(batch', batch) BY <1>1, <1>2, TailIsPart
<1>4. UNCHANGED <<ticks, tickOf, overlaps, origin>> BY DEF tickVars
<1>5. RowTypes' BY <1>1, <1>3, <1>4 DEF PublishInv, RowTypes
<1>6. StreamUse' BY <1>1 DEF PublishInv, StreamUse, Used
<1>7. \A k \in Streams : Part(requests'[k], requests[k])
  BY <1>1, WholeIsPart DEF PublishInv, RowTypes
<1>8. \A k \in Streams : Used(k)' => Used(k) BY <1>1 DEF Used
<1>9. RowOrder' /\ TickOrder' /\ OriginOrder' /\ LogOrder'
  BY <1>1, <1>3, <1>4, <1>5, <1>7, <1>8, OrderShrinks
<1> QED BY <1>5, <1>6, <1>9 DEF PublishInv

\* A batch comes to nothing: its stream was closed, or could not be opened.
LEMMA OrderNoBatch ==
  ASSUME PublishInv, S!CloseSend \/ S!OpenFails, UNCHANGED <<tickVars, origin>>
  PROVE  PublishInv'
<1>1. /\ sendPc' = "wait" /\ batch' = <<>> /\ stream' = 0
      /\ UNCHANGED <<currentIdx, requests>>
      /\ \/ state' = state
         \/ state' = [state EXCEPT ![stream] = IF @ = "open" THEN "closing" ELSE @]
  BY DEF S!CloseSend, S!OpenFails, S!streamVars, PublishInv, StreamUse
<1>2. state \in [Streams -> {"free", "open", "closing", "broken"}]
  BY DEF PublishInv, RowTypes
<1>3. /\ state' \in [Streams -> {"free", "open", "closing", "broken"}]
      /\ \A k \in Streams : state'[k] = "free" <=> state[k] = "free"
  BY <1>1, <1>2
<1>4. UNCHANGED <<ticks, tickOf, overlaps, origin>> BY DEF tickVars
<1>5. RowTypes' BY <1>1, <1>3, <1>4 DEF PublishInv, RowTypes
<1>6. StreamUse' BY <1>1, <1>3 DEF PublishInv, StreamUse, Used
<1>7. /\ Part(batch', batch)
      /\ \A k \in Streams : Part(requests'[k], requests[k])
  BY <1>1, WholeIsPart, EmptyIsPart DEF PublishInv, RowTypes
<1>8. \A k \in Streams : Used(k)' => Used(k) BY <1>3 DEF Used
<1>9. RowOrder' /\ TickOrder' /\ OriginOrder' /\ LogOrder'
  BY <1>1, <1>4, <1>5, <1>7, <1>8, OrderShrinks
<1> QED BY <1>5, <1>6, <1>9 DEF PublishInv

\* A stream is over; its number is used again.
LEMMA OrderFree ==
  ASSUME PublishInv, NEW f \in Streams, S!Free(f), UNCHANGED <<tickVars, origin>>
  PROVE  PublishInv'
<1>1. /\ UNCHANGED <<currentIdx, sendPc, batch, stream>>
      /\ state' = [state EXCEPT ![f] = "free"]
      /\ requests' = [requests EXCEPT ![f] = <<>>]
      /\ state[f] = "closing" \/ (state[f] = "broken" /\ stream # f)
  BY DEF S!Free, S!clientVars
<1>2. /\ state \in [Streams -> {"free", "open", "closing", "broken"}]
      /\ requests \in [Streams -> Seq(Nat)]
  BY DEF PublishInv, RowTypes
<1>3. UNCHANGED <<ticks, tickOf, overlaps, origin>> BY DEF tickVars
<1>4. requests' \in [Streams -> Seq(Nat)] BY <1>1, <1>2
<1>5. RowTypes' BY <1>1, <1>2, <1>3, <1>4 DEF PublishInv, RowTypes
<1>6. sendPc = "send" => stream # f BY <1>1 DEF PublishInv, StreamUse
<1>7. StreamUse' BY <1>1, <1>2, <1>6 DEF PublishInv, StreamUse, Used
<1>8. /\ Part(batch', batch)
      /\ \A k \in Streams : Part(requests'[k], requests[k])
  BY <1>1, <1>2, WholeIsPart, EmptyIsPart DEF PublishInv, RowTypes
<1>9. \A k \in Streams : Used(k)' => Used(k) BY <1>1, <1>2 DEF Used
<1>10. RowOrder' /\ TickOrder' /\ OriginOrder' /\ LogOrder'
  BY <1>1, <1>3, <1>5, <1>8, <1>9, OrderShrinks
<1> QED BY <1>5, <1>7, <1>10 DEF PublishInv

\* One stream breaks.
LEMMA OrderBreak ==
  ASSUME PublishInv, NEW f \in Streams, S!Break(f), UNCHANGED <<tickVars, origin>>
  PROVE  PublishInv'
<1>1. /\ UNCHANGED <<currentIdx, sendPc, batch, stream>>
      /\ state[f] \in {"open", "closing"}
      /\ state' = [state EXCEPT ![f] = "broken"]
      /\ \E n \in 0 .. Len(requests[f]) :
           requests' = [requests EXCEPT ![f] = SubSeq(requests[f], 1, n)]
  BY DEF S!Break, S!clientVars
<1>2. /\ state \in [Streams -> {"free", "open", "closing", "broken"}]
      /\ requests \in [Streams -> Seq(Nat)]
  BY DEF PublishInv, RowTypes
<1>3. PICK n \in 0 .. Len(requests[f]) :
        requests' = [requests EXCEPT ![f] = SubSeq(requests[f], 1, n)]
  BY <1>1
<1>4. /\ SubSeq(requests[f], 1, n) \in Seq(Nat)
      /\ Part(SubSeq(requests[f], 1, n), requests[f])
  BY <1>2, BeginningIsPart
<1>5. UNCHANGED <<ticks, tickOf, overlaps, origin>> BY DEF tickVars
<1>6. RowTypes' BY <1>1, <1>2, <1>3, <1>4, <1>5 DEF PublishInv, RowTypes
<1>7. \A k \in Streams : Used(k)' <=> Used(k) BY <1>1, <1>2 DEF Used
<1>8. StreamUse'
  BY <1>1, <1>2, <1>3, <1>7 DEF PublishInv, StreamUse, Used
<1>9. /\ Part(batch', batch)
      /\ \A k \in Streams : Part(requests'[k], requests[k])
  BY <1>1, <1>2, <1>3, <1>4, WholeIsPart DEF PublishInv, RowTypes
<1>10. RowOrder' /\ TickOrder' /\ OriginOrder' /\ LogOrder'
  BY <1>1, <1>5, <1>6, <1>7, <1>9, OrderShrinks
<1> QED BY <1>6, <1>8, <1>10 DEF PublishInv

\* What the end of a process leaves of the streams.
LEMMA ConnectionLeaves ==
  ASSUME PublishInv, S!ConnectionEnds
  PROVE  /\ state' = [k \in Streams |-> IF state[k] = "free" THEN "free" ELSE "broken"]
         /\ requests' \in [Streams -> Seq(Nat)]
         /\ \A k \in Streams : Part(requests'[k], requests[k])
         /\ \A k \in Streams : requests[k] = <<>> => requests'[k] = <<>>
<1>1. requests \in [Streams -> Seq(Nat)] BY DEF PublishInv, RowTypes
<1>2. PICK arrived \in [Streams -> 0 .. RequestWindow] :
        /\ \A k \in Streams : arrived[k] <= Len(requests[k])
        /\ requests' = [k \in Streams |-> SubSeq(requests[k], 1, arrived[k])]
  BY DEF S!ConnectionEnds
<1>3. \A k \in Streams : arrived[k] \in 0 .. Len(requests[k])
  BY <1>1, <1>2, PipelineAssumption
<1>4. \A k \in Streams : /\ requests'[k] \in Seq(Nat)
                         /\ Part(requests'[k], requests[k])
  BY <1>1, <1>2, <1>3, BeginningIsPart
<1>5. \A k \in Streams : requests[k] = <<>> => requests'[k] = <<>>
  <2> SUFFICES ASSUME NEW k \in Streams, requests[k] = <<>>
               PROVE  requests'[k] = <<>>
    OBVIOUS
  <2>1. arrived[k] = 0 BY <1>3
  <2> QED BY <1>2, <2>1
<1> QED BY <1>2, <1>4, <1>5 DEF S!ConnectionEnds

\* The process of the streamer, or of the queue, ends.
LEMMA OrderEnds ==
  ASSUME PublishInv, StreamerEnds \/ QueueEnds
  PROVE  PublishInv'
<1>1. UNCHANGED <<ticks, tickOf, overlaps, origin>>
  BY DEF StreamerEnds, QueueEnds, tickVars
<1>2. S!ConnectionEnds BY DEF StreamerEnds, QueueEnds
<1>3. /\ state' = [k \in Streams |-> IF state[k] = "free" THEN "free" ELSE "broken"]
      /\ requests' \in [Streams -> Seq(Nat)]
      /\ \A k \in Streams : Part(requests'[k], requests[k])
      /\ \A k \in Streams : requests[k] = <<>> => requests'[k] = <<>>
  BY <1>2, ConnectionLeaves
<1>4. /\ currentIdx' \in {currentIdx, 0}
      /\ \/ sendPc' = "wait" /\ batch' = <<>> /\ stream' = 0
         \/ UNCHANGED <<sendPc, batch, stream>>
  BY DEF StreamerEnds, QueueEnds
<1>5. RowTypes'
  <2>1. /\ currentIdx \in Nat /\ batch \in Seq(Nat)
        /\ sendPc \in {"wait", "open", "send", "returned"}
    BY DEF PublishInv, RowTypes
  <2>3. currentIdx' \in Nat BY <1>4, <2>1
  <2>4. batch' \in Seq(Nat)
    <3>1. CASE batch' = <<>> BY <3>1
    <3>2. CASE batch' = batch BY <2>1, <3>2
    <3> QED BY <1>4, <3>1, <3>2
  <2>5. sendPc' \in {"wait", "open", "send", "returned"} BY <1>4, <2>1
  <2>2. state' \in [Streams -> {"free", "open", "closing", "broken"}] BY <1>3
  <2> QED BY <1>1, <1>3, <2>2, <2>3, <2>4, <2>5 DEF PublishInv, RowTypes
<1>6. \A k \in Streams : Used(k)' <=> Used(k)
  BY <1>3 DEF Used
<1>7. StreamUse'
  BY <1>3, <1>4, <1>6 DEF PublishInv, StreamUse, Used
<1>8. Part(batch', batch)
  BY <1>4, WholeIsPart, EmptyIsPart DEF PublishInv, RowTypes
<1>9. RowOrder' /\ TickOrder' /\ OriginOrder' /\ LogOrder'
  BY <1>1, <1>3, <1>4, <1>5, <1>6, <1>8, OrderShrinks
<1> QED BY <1>5, <1>7, <1>9 DEF PublishInv

-----------------------------------------------------------------------------
(* Steps on a row's way into the log. *)

\* A tick takes rows that follow on each other in the file.
LEMMA OrderTake ==
  ASSUME PublishInv, TakeBatch
  PROVE  PublishInv'
<1>1. /\ sendPc = "wait" /\ sendPc' = "open" /\ ticks' = ticks + 1
      /\ batch' = S!Slice(S!StartIdx, S!EndIdx(S!StartIdx))
      /\ currentIdx' = S!EndIdx(S!StartIdx)
      /\ UNCHANGED <<stream, state, requests, tickOf, overlaps, origin>>
  BY DEF TakeBatch, S!TakeBatch, S!streamVars
<1>2. /\ currentIdx \in Nat /\ ticks \in Nat /\ tickOf \in [Streams -> Nat]
      /\ origin \in Seq([tick : Nat, row : Nat])
  BY DEF PublishInv, RowTypes
<1>3. S!StartIdx \in Nat /\ S!EndIdx(S!StartIdx) \in Nat
  BY <1>2, PipelineAssumption DEF S!StartIdx, S!EndIdx
<1>4. batch' \in Seq(Nat) /\ Ascending(batch')
  <2>1. ASSUME NEW i \in Nat, NEW j \in Nat
        PROVE  S!Slice(i, j) \in Seq(Nat) /\ Ascending(S!Slice(i, j))
    <3>1. \A n \in 1 .. j - i : i + n \in Nat OBVIOUS
    <3>2. S!Slice(i, j) \in Seq(Nat)
      <4>1. CASE j - i < 0 BY <4>1 DEF S!Slice
      <4>2. CASE ~(j - i < 0)
        <5>1. j - i \in Nat BY <4>2
        <5> QED BY <3>1, <5>1 DEF S!Slice
      <4> QED BY <4>1, <4>2
    <3> QED BY <3>2 DEF S!Slice, Ascending
  <2> QED BY <1>1, <1>3, <2>1
<1>5. RowTypes' BY <1>1, <1>2, <1>3, <1>4 DEF PublishInv, RowTypes
<1>6. StreamUse' BY <1>1 DEF PublishInv, StreamUse, Used
<1>7. stream' = 0 BY <1>1 DEF PublishInv, StreamUse
<1>8. \A k \in Streams : stream' # k BY <1>7, PipelineAssumption
<1>9. RowOrder'
  BY <1>1, <1>4, <1>8 DEF PublishInv, RowOrder, Ascending
<1>10. TickOrder'
  <2>1. \A k \in Streams : tickOf[k] < ticks + 1
    BY <1>2 DEF PublishInv, TickOrder
  <2>2. \A n \in DOMAIN origin : origin[n].tick < ticks + 1
    BY <1>2, OriginTypes DEF PublishInv, TickOrder
  <2>3. /\ \A k \in Streams : tickOf[k] <= ticks + 1
        /\ \A n \in DOMAIN origin : origin[n].tick <= ticks + 1
    BY <1>2, OriginTypes DEF PublishInv, TickOrder
  <2> QED BY <1>1, <2>1, <2>2, <2>3 DEF PublishInv, TickOrder, Used
<1>11. OriginOrder' BY <1>1, <1>8 DEF PublishInv, OriginOrder, Used
<1>12. LogOrder' BY <1>1 DEF PublishInv, LogOrder, InFileOrder
<1> QED BY <1>5, <1>6, <1>9, <1>10, <1>11, <1>12 DEF PublishInv

\* The stream of a tick is opened: it is the latest, and overlaps with every
\* stream that is still there.
LEMMA OrderOpen ==
  ASSUME PublishInv, NEW f \in Streams, OpenStream(f)
  PROVE  PublishInv'
<1>1. /\ sendPc = "open" /\ sendPc' = "send" /\ state[f] = "free"
      /\ stream' = f /\ state' = [state EXCEPT ![f] = "open"]
      /\ tickOf' = [tickOf EXCEPT ![f] = ticks]
      /\ overlaps' = overlaps \cup
           {<<tickOf[j], ticks>> : j \in {i \in Streams : state[i] # "free"}}
      /\ UNCHANGED <<currentIdx, batch, requests, ticks, origin>>
  BY DEF OpenStream, S!OpenStream
<1>2. /\ ticks \in Nat /\ tickOf \in [Streams -> Nat]
      /\ state \in [Streams -> {"free", "open", "closing", "broken"}]
      /\ origin \in Seq([tick : Nat, row : Nat])
  BY DEF PublishInv, RowTypes
<1>3. requests[f] = <<>> BY <1>1 DEF PublishInv, StreamUse, Used
<1>4. stream = 0 BY <1>1 DEF PublishInv, StreamUse
<1>5. RowTypes' BY <1>1, <1>2 DEF PublishInv, RowTypes
<1>6. StreamUse' BY <1>1, <1>2 DEF PublishInv, StreamUse, Used
<1>7. RowOrder' BY <1>1, <1>3 DEF PublishInv, RowOrder, Ascending
<1>8. /\ \A k \in Streams : tickOf[k] < ticks
      /\ \A n \in DOMAIN origin : origin[n].tick < ticks
  BY <1>1 DEF PublishInv, TickOrder
<1>9. /\ tickOf'[f] = ticks
      /\ \A k \in Streams : k # f =>
           /\ tickOf'[k] = tickOf[k] /\ (Used(k)' <=> Used(k))
           /\ Used(k) => <<tickOf[k], ticks>> \in overlaps'
  BY <1>1, <1>2 DEF Used
<1>10. TickOrder'
  <2>1. /\ \A k \in Streams : tickOf'[k] <= ticks
        /\ \A n \in DOMAIN origin : origin[n].tick <= ticks
    <3>1. \A k \in Streams : tickOf'[k] = ticks \/ tickOf'[k] = tickOf[k]
      BY <1>9
    <3>2. \A k \in Streams : tickOf[k] <= ticks BY DEF PublishInv, TickOrder
    <3>3. \A n \in DOMAIN origin : origin[n].tick <= ticks
      BY DEF PublishInv, TickOrder
    <3> QED BY <1>2, <3>1, <3>2, <3>3
  <2>2. ASSUME NEW j \in Streams, NEW k \in Streams, Used(j)', Used(k)', j # k
        PROVE  /\ tickOf'[j] # tickOf'[k]
               /\ tickOf'[j] < tickOf'[k] =>
                    <<tickOf'[j], tickOf'[k]>> \in overlaps'
    <3>1. CASE j = f
      <4>1. tickOf'[k] < tickOf'[j] BY <1>8, <1>9, <2>2, <3>1
      <4>2. tickOf'[k] \in Nat /\ tickOf'[j] \in Nat BY <1>2, <1>9, <2>2, <3>1
      <4> QED BY <4>1, <4>2
    <3>2. CASE k = f
      <4>1. /\ tickOf'[j] < tickOf'[k]
            /\ <<tickOf'[j], tickOf'[k]>> \in overlaps'
        BY <1>8, <1>9, <2>2, <3>2
      <4>2. tickOf'[k] \in Nat /\ tickOf'[j] \in Nat BY <1>2, <1>9, <2>2, <3>2
      <4> QED BY <4>1, <4>2
    <3>3. CASE j # f /\ k # f
      <4>1. /\ tickOf[j] # tickOf[k]
            /\ tickOf[j] < tickOf[k] => <<tickOf[j], tickOf[k]>> \in overlaps
        BY <1>9, <2>2, <3>3 DEF PublishInv, TickOrder
      <4> QED BY <1>1, <1>9, <2>2, <3>3, <4>1
    <3> QED BY <3>1, <3>2, <3>3
  <2> QED BY <1>1, <2>1, <2>2 DEF TickOrder
<1>11. OriginOrder'
  <2> SUFFICES ASSUME NEW k \in Streams, NEW n \in DOMAIN origin, Used(k)'
               PROVE  /\ tickOf'[k] < origin[n].tick =>
                           <<tickOf'[k], origin[n].tick>> \in overlaps'
                      /\ origin[n].tick = tickOf'[k] =>
                           /\ \A i \in DOMAIN requests[k] :
                                origin[n].row < requests[k][i]
                           /\ f = k => \A j \in DOMAIN batch :
                                          origin[n].row < batch[j]
    BY <1>1 DEF OriginOrder
  <2>1. CASE k = f
    <3>1. origin[n].tick < tickOf'[k] BY <1>8, <1>9, <2>1
    <3>2. origin[n].tick \in Nat /\ tickOf'[k] \in Nat
      BY <1>2, <1>9, <2>1, OriginTypes
    <3> QED BY <3>1, <3>2
  <2>2. CASE k # f
    <3>1. Used(k) /\ tickOf'[k] = tickOf[k] BY <1>9, <2>2
    <3>2. /\ tickOf[k] < origin[n].tick =>
               <<tickOf[k], origin[n].tick>> \in overlaps
          /\ origin[n].tick = tickOf[k] =>
               \A i \in DOMAIN requests[k] : origin[n].row < requests[k][i]
      BY <3>1 DEF PublishInv, OriginOrder
    <3> QED BY <1>1, <2>2, <3>1, <3>2
  <2> QED BY <2>1, <2>2
<1>12. LogOrder' BY <1>1 DEF PublishInv, LogOrder, InFileOrder
<1> QED BY <1>5, <1>6, <1>7, <1>10, <1>11, <1>12 DEF PublishInv

\* A row is sent.
LEMMA OrderSend ==
  ASSUME PublishInv, S!SendRow, UNCHANGED <<tickVars, origin>>
  PROVE  PublishInv'
<1>1. /\ sendPc = "send" /\ batch # <<>>
      /\ requests' = [requests EXCEPT ![stream] = Append(@, Head(batch))]
      /\ batch' = Tail(batch)
      /\ UNCHANGED <<currentIdx, sendPc, stream, state, ticks, tickOf, overlaps,
                     origin>>
  BY DEF S!SendRow, S!SentRow, tickVars
<1>2. /\ batch \in Seq(Nat) /\ requests \in [Streams -> Seq(Nat)]
      /\ origin \in Seq([tick : Nat, row : Nat])
  BY DEF PublishInv, RowTypes
<1>3. stream \in Streams /\ state[stream] # "free"
  BY <1>1 DEF PublishInv, StreamUse
<1>4. /\ Head(batch) \in Nat /\ 1 \in DOMAIN batch /\ Head(batch) = batch[1]
      /\ \A i \in DOMAIN Tail(batch) : Head(batch) < Tail(batch)[i]
  BY <1>1, <1>2, HeadBeforeTail DEF PublishInv, RowOrder
<1>5. /\ Tail(batch) \in Seq(Nat) /\ Ascending(Tail(batch))
      /\ \A i \in DOMAIN Tail(batch) : \E j \in DOMAIN batch : Tail(batch)[i] = batch[j]
  BY <1>1, <1>2, TailIsPart, PartAscends DEF PublishInv, RowOrder
<1> DEFINE r == requests[stream]
<1>6. /\ requests'[stream] \in Seq(Nat) /\ Ascending(requests'[stream])
      /\ \A i \in DOMAIN requests'[stream] :
           \/ i \in DOMAIN r /\ requests'[stream][i] = r[i]
           \/ requests'[stream][i] = Head(batch)
  <2>1. \A i \in DOMAIN r : r[i] < Head(batch)
    BY <1>3, <1>4 DEF PublishInv, RowOrder
  <2>2. r \in Seq(Nat) /\ Ascending(r) BY <1>2, <1>3 DEF PublishInv, RowOrder
  <2>3. requests'[stream] = Append(r, Head(batch)) BY <1>1, <1>2, <1>3
  <2> HIDE DEF r
  <2> QED BY <1>4, <2>1, <2>2, <2>3, AppendAscends
<1>7. \A k \in Streams : k # stream => requests'[k] = requests[k]
  BY <1>1, <1>2, <1>3
<1>8. RowTypes'
  <2>1. requests' \in [Streams -> Seq(Nat)] BY <1>1, <1>2, <1>3, <1>6
  <2> QED BY <1>1, <1>5, <2>1 DEF PublishInv, RowTypes
<1>9. StreamUse'
  BY <1>1, <1>3, <1>7 DEF PublishInv, StreamUse, Used
<1>10. RowOrder'
  <2>1. \A k \in Streams : Ascending(requests'[k])
    BY <1>6, <1>7 DEF PublishInv, RowOrder
  <2>2. \A i \in DOMAIN requests'[stream], j \in DOMAIN Tail(batch) :
          requests'[stream][i] < Tail(batch)[j]
    BY <1>3, <1>4, <1>5, <1>6 DEF PublishInv, RowOrder
  <2> QED BY <1>1, <1>5, <2>1, <2>2 DEF RowOrder, Ascending
<1>11. TickOrder' BY <1>1 DEF PublishInv, TickOrder, Used
<1>12. OriginOrder'
  <2> SUFFICES ASSUME NEW k \in Streams, NEW n \in DOMAIN origin, Used(k)
               PROVE  /\ tickOf[k] < origin[n].tick =>
                           <<tickOf[k], origin[n].tick>> \in overlaps
                      /\ origin[n].tick = tickOf[k] =>
                           /\ \A i \in DOMAIN requests'[k] :
                                origin[n].row < requests'[k][i]
                           /\ stream = k => \A j \in DOMAIN batch' :
                                               origin[n].row < batch'[j]
    BY <1>1 DEF OriginOrder, Used
  <2>1. CASE k = stream
    BY <1>1, <1>4, <1>5, <1>6, <2>1 DEF PublishInv, OriginOrder
  <2>2. CASE k # stream BY <1>7, <2>2 DEF PublishInv, OriginOrder
  <2> QED BY <2>1, <2>2
<1>13. LogOrder' BY <1>1 DEF PublishInv, LogOrder, InFileOrder
<1> QED BY <1>8, <1>9, <1>10, <1>11, <1>12, <1>13 DEF PublishInv

\* A row is published: it comes after what was published before.
LEMMA OrderPublish ==
  ASSUME PublishInv, NEW f \in Streams, Publish(f)
  PROVE  PublishInv'
<1> DEFINE r == requests[f]
           new == [tick |-> tickOf[f], row |-> Head(r)]
<1>1. /\ r # <<>>
      /\ requests' = [requests EXCEPT ![f] = Tail(@)]
      /\ origin' = Append(origin, new)
      /\ UNCHANGED <<currentIdx, sendPc, batch, stream, state, ticks, tickOf,
                     overlaps>>
  BY DEF Publish, S!Handle, S!clientVars, tickVars
<1>2. /\ requests \in [Streams -> Seq(Nat)] /\ tickOf \in [Streams -> Nat]
      /\ origin \in Seq([tick : Nat, row : Nat]) /\ ticks \in Nat
      /\ r \in Seq(Nat)
  BY DEF PublishInv, RowTypes
<1>3. Used(f) BY <1>1 DEF PublishInv, StreamUse
<1>4. /\ Head(r) \in Nat /\ 1 \in DOMAIN r /\ Head(r) = r[1]
      /\ \A i \in DOMAIN Tail(r) : Head(r) < Tail(r)[i]
  <2>1. Ascending(r) BY DEF PublishInv, RowOrder
  <2> HIDE DEF r
  <2> QED BY <1>1, <1>2, <2>1, HeadBeforeTail
<1>5. /\ Tail(r) \in Seq(Nat) /\ Ascending(Tail(r))
      /\ \A i \in DOMAIN Tail(r) : \E j \in DOMAIN r : Tail(r)[i] = r[j]
  <2>1. Ascending(r) BY DEF PublishInv, RowOrder
  <2> HIDE DEF r
  <2> QED BY <1>1, <1>2, <2>1, TailIsPart, PartAscends
<1>6. new.tick = tickOf[f] /\ new.row = Head(r) /\ new \in [tick : Nat, row : Nat]
  BY <1>2, <1>4
<1>7. /\ origin' \in Seq([tick : Nat, row : Nat])
      /\ DOMAIN origin' = DOMAIN origin \cup {Len(origin) + 1}
      /\ DOMAIN origin = 1 .. Len(origin) /\ Len(origin) \in Nat
      /\ \A n \in DOMAIN origin : origin'[n] = origin[n]
      /\ origin'[Len(origin) + 1] = new
  <2> HIDE DEF new, r
  <2>1. new \in [tick : Nat, row : Nat] BY <1>6
  <2>2. origin' = Append(origin, new) BY <1>1
  <2>3. origin \in Seq([tick : Nat, row : Nat]) BY <1>2
  <2> QED BY <2>1, <2>2, <2>3, AppendTo
<1> HIDE DEF new
<1>8. /\ requests'[f] = Tail(r)
      /\ \A k \in Streams : k # f => requests'[k] = requests[k]
  BY <1>1, <1>2
<1>9. RowTypes'
  <2>1. requests' \in [Streams -> Seq(Nat)] BY <1>1, <1>2, <1>5
  <2> QED BY <1>1, <1>7, <2>1 DEF PublishInv, RowTypes
<1>10. StreamUse'
  BY <1>1, <1>3, <1>8 DEF PublishInv, StreamUse, Used
<1>11. RowOrder'
  <2>1. \A k \in Streams : Ascending(requests'[k])
    BY <1>5, <1>8 DEF PublishInv, RowOrder
  <2>2. \A k \in Streams : stream = k =>
          \A i \in DOMAIN requests'[k], j \in DOMAIN batch :
            requests'[k][i] < batch[j]
    <3> SUFFICES ASSUME NEW k \in Streams, stream = k,
                        NEW i \in DOMAIN requests'[k], NEW j \in DOMAIN batch
                 PROVE  requests'[k][i] < batch[j]
      OBVIOUS
    <3>1. CASE k = f
      <4>1. PICK d \in DOMAIN r : requests'[k][i] = r[d] BY <1>5, <1>8, <3>1
      <4> QED BY <3>1, <4>1 DEF PublishInv, RowOrder
    <3>2. CASE k # f BY <1>8, <3>2 DEF PublishInv, RowOrder
    <3> QED BY <3>1, <3>2
  <2> QED BY <1>1, <2>1, <2>2 DEF PublishInv, RowOrder, Ascending
<1>12. TickOrder'
  <2>1. \A n \in DOMAIN origin' :
          /\ origin'[n].tick <= ticks
          /\ sendPc = "open" => origin'[n].tick < ticks
    BY <1>6, <1>7 DEF PublishInv, TickOrder
  <2> QED BY <1>1, <2>1 DEF PublishInv, TickOrder, Used
<1>13. OriginOrder'
  <2> SUFFICES ASSUME NEW k \in Streams, NEW n \in DOMAIN origin', Used(k)
               PROVE  /\ tickOf[k] < origin'[n].tick =>
                           <<tickOf[k], origin'[n].tick>> \in overlaps
                      /\ origin'[n].tick = tickOf[k] =>
                           /\ \A i \in DOMAIN requests'[k] :
                                origin'[n].row < requests'[k][i]
                           /\ stream = k => \A j \in DOMAIN batch :
                                               origin'[n].row < batch[j]
    BY <1>1 DEF OriginOrder, Used
  <2>1. CASE n \in DOMAIN origin
    <3>1. /\ tickOf[k] < origin[n].tick =>
               <<tickOf[k], origin[n].tick>> \in overlaps
          /\ origin[n].tick = tickOf[k] =>
               /\ \A i \in DOMAIN requests[k] : origin[n].row < requests[k][i]
               /\ stream = k => \A j \in DOMAIN batch : origin[n].row < batch[j]
      BY <2>1 DEF PublishInv, OriginOrder
    <3>2. \A i \in DOMAIN requests'[k] :
            \E j \in DOMAIN requests[k] : requests'[k][i] = requests[k][j]
      <4>1. CASE k = f
        <5>1. requests'[k] = Tail(r) /\ requests[k] = r BY <1>8, <4>1
        <5> HIDE DEF r
        <5> QED BY <1>5, <5>1
      <4>2. CASE k # f BY <1>8, <4>2
      <4> QED BY <4>1, <4>2
    <3> QED BY <1>7, <2>1, <3>1, <3>2
  <2>2. CASE n = Len(origin) + 1
    <3>1. origin'[n].tick = tickOf[f] /\ origin'[n].row = Head(r)
      BY <1>6, <1>7, <2>2
    <3>2. CASE k # f
      <4>1. /\ tickOf[k] # tickOf[f]
            /\ tickOf[k] < tickOf[f] => <<tickOf[k], tickOf[f]>> \in overlaps
        BY <1>3, <3>2 DEF PublishInv, TickOrder
      <4> QED BY <3>1, <4>1
    <3>3. CASE k = f
      <4>1. \A i \in DOMAIN requests'[k] : Head(r) < requests'[k][i]
        BY <1>4, <1>8, <3>3
      <4>2. stream = k => \A j \in DOMAIN batch : Head(r) < batch[j]
        BY <1>4, <3>3 DEF PublishInv, RowOrder
      <4>3. ~(tickOf[k] < tickOf[f]) BY <1>2, <3>3
      <4> QED BY <3>1, <4>1, <4>2, <4>3
    <3> QED BY <3>2, <3>3
  <2> QED BY <1>7, <2>1, <2>2
<1>14. LogOrder'
  <2> SUFFICES ASSUME NEW m \in DOMAIN origin', NEW n \in DOMAIN origin', m < n
               PROVE  \/ origin'[m].tick < origin'[n].tick
                      \/ /\ origin'[m].tick = origin'[n].tick
                         /\ origin'[m].row < origin'[n].row
                      \/ <<origin'[n].tick, origin'[m].tick>> \in overlaps
    BY <1>1 DEF LogOrder, InFileOrder
  <2>1. m \in DOMAIN origin /\ origin'[m] = origin[m] BY <1>7
  <2>2. CASE n \in DOMAIN origin
    <3>1. InFileOrder(origin[m], origin[n])
      BY <2>1, <2>2 DEF PublishInv, LogOrder
    <3>2. origin'[n] = origin[n] BY <1>7, <2>2
    <3> QED BY <1>1, <2>1, <3>1, <3>2 DEF InFileOrder
  <2>3. CASE n = Len(origin) + 1
    <3>1. origin'[n].tick = tickOf[f] /\ origin'[n].row = r[1]
      BY <1>4, <1>6, <1>7, <2>3
    <3>2. /\ tickOf[f] < origin[m].tick =>
               <<tickOf[f], origin[m].tick>> \in overlaps
          /\ origin[m].tick = tickOf[f] => origin[m].row < r[1]
      BY <1>3, <1>4, <2>1 DEF PublishInv, OriginOrder
    <3>3. tickOf[f] \in Nat /\ origin[m].tick \in Nat
      BY <1>2, <2>1, OriginTypes
    <3>4. \/ origin[m].tick < tickOf[f]
          \/ origin[m].tick = tickOf[f] /\ origin[m].row < r[1]
          \/ <<tickOf[f], origin[m].tick>> \in overlaps
      BY <3>2, <3>3
    <3> QED BY <1>1, <2>1, <3>1, <3>4 DEF InFileOrder
  <2> QED BY <1>7, <2>2, <2>3
<1> QED BY <1>9, <1>10, <1>11, <1>12, <1>13, <1>14 DEF PublishInv

\* So every step keeps the log in order.
LEMMA PublishInvStep ==
  ASSUME PublishInv, [Next]_vars
  PROVE  PublishInv'
<1>1. CASE TakeBatch BY <1>1, OrderTake
<1>2. ASSUME NEW k \in Streams, OpenStream(k) PROVE PublishInv' BY <1>2, OrderOpen
<1>3. ASSUME NEW k \in Streams, Publish(k) PROVE PublishInv' BY <1>3, OrderPublish
<1>4. ASSUME StreamerStep PROVE PublishInv'
  <2>1. UNCHANGED <<tickVars, origin>> BY <1>4 DEF StreamerStep
  <2>2. CASE S!LoadFails
    <3>1. UNCHANGED streamerVars
      BY <2>2 DEF S!LoadFails, S!vars, S!clientVars, S!streamVars, streamerVars
    <3> QED BY <2>1, <3>1, OrderUnchanged
  <2>3. CASE S!SendRow BY <2>1, <2>3, OrderSend
  <2>4. CASE S!SkipUnencodable \/ S!SendFails BY <2>1, <2>4, OrderSkip
  <2>5. CASE S!CloseSend \/ S!OpenFails BY <2>1, <2>5, OrderNoBatch
  <2>6. ASSUME NEW k \in Streams, S!Free(k) PROVE PublishInv'
    BY <2>1, <2>6, OrderFree
  <2> QED BY <1>4, <2>2, <2>3, <2>4, <2>5, <2>6 DEF StreamerStep, S!SendStep
<1>5. CASE SinkStep BY <1>5, OrderUnchanged DEF SinkStep
<1>6. ASSUME StreamBreaks PROVE PublishInv'
  <2>1. UNCHANGED <<tickVars, origin>> BY <1>6 DEF StreamBreaks
  <2>2. ASSUME NEW k \in Streams, S!Break(k) PROVE PublishInv'
    BY <2>1, <2>2, OrderBreak
  <2>3. CASE UNCHANGED streamerVars BY <2>1, <2>3, OrderUnchanged
  <2> QED BY <1>6, <2>2, <2>3 DEF StreamBreaks
<1>7. CASE StreamerEnds \/ QueueEnds BY <1>7, OrderEnds
<1>8. CASE SinkEnds BY <1>8, OrderUnchanged DEF SinkEnds
<1>9. CASE UNCHANGED vars BY <1>9, OrderUnchanged DEF vars
<1> QED BY <1>1, <1>2, <1>3, <1>4, <1>5, <1>6, <1>7, <1>8, <1>9 DEF Next

\* To begin with nothing is on its way.
LEMMA PublishInvInit == Init => PublishInv
<1> SUFFICES ASSUME Init PROVE PublishInv OBVIOUS
<1>1. /\ currentIdx = 0 /\ sendPc = "wait" /\ batch = <<>> /\ stream = 0
      /\ state = [k \in Streams |-> "free"]
      /\ requests = [k \in Streams |-> <<>>]
      /\ ticks = 0 /\ tickOf = [k \in Streams |-> 0] /\ origin = <<>>
  BY DEF Init, S!Init
<1>2. RowTypes
  <2>1. requests \in [Streams -> Seq(Nat)] BY <1>1
  <2>2. origin \in Seq([tick : Nat, row : Nat]) /\ batch \in Seq(Nat) BY <1>1
  <2>3. state \in [Streams -> {"free", "open", "closing", "broken"}] BY <1>1
  <2>4. tickOf \in [Streams -> Nat] BY <1>1
  <2> QED BY <1>1, <2>1, <2>2, <2>3, <2>4 DEF RowTypes
<1>3. StreamUse BY <1>1 DEF StreamUse
<1>4. RowOrder BY <1>1 DEF RowOrder, Ascending
<1>5. TickOrder BY <1>1 DEF TickOrder, Used
<1>6. OriginOrder BY <1>1 DEF OriginOrder
<1>7. LogOrder BY <1>1 DEF LogOrder
<1> QED BY <1>2, <1>3, <1>4, <1>5, <1>6, <1>7 DEF PublishInv

-----------------------------------------------------------------------------
(* The storage. *)

\* The storage is in the order of the log, and holds only what some sink stored.
StorageInv ==
  /\ storage \in Seq(Nat)
  /\ Ascending(storage)
  /\ \A i \in DOMAIN storage : storage[i] \in K!Stored
  /\ Len(origin) = Len(log)

\* What is stored comes after all that was stored, so that the storage stays in
\* order; a process that ends takes all of it away.
LEMMA StorageStep ==
  ASSUME SinkInv, PublishInv, StorageInv, [Next]_vars
  PROVE  StorageInv'
<1>1. \/ C!StoreMessage
      \/ stored' = stored /\ storage' \in {storage, <<>>}
  BY DEF Next, TakeBatch, OpenStream, Publish, StreamerStep, SinkStep, QueueEnds,
     SinkEnds, StreamBreaks, StreamerEnds, sinkVars, C!Publish, C!Join, C!Deliver,
     C!Leave, C!Break, C!LateAck, C!LoopStep, C!EndLoop, C!Connect, C!Check,
     C!LeaveStream, C!Receive, C!ReceiveFails, C!StoreFails, C!Ack, C!AckFails,
     C!loopVars, vars
<1>2. \/ log' = log /\ origin' = origin
      \/ \E m, o : log' = Append(log, m) /\ origin' = Append(origin, o)
  BY DEF Next, TakeBatch, OpenStream, Publish, StreamerStep, SinkStep, QueueEnds,
     SinkEnds, StreamBreaks, StreamerEnds, queueVars, C!Publish, C!Q!Publish,
     C!Join, C!Q!Join, C!Deliver, C!Q!Show, C!Leave, C!Q!Leave, C!Break,
     C!LateAck, C!LoopStep, C!EndLoop, C!Connect, C!Check, C!LeaveStream,
     C!Receive, C!ReceiveFails, C!StoreMessage, C!StoreFails, C!Ack, C!AckFails,
     C!queueVars, vars
<1>3. Len(origin)' = Len(log)'
  <2>1. /\ log \in Seq(K!Message) /\ origin \in Seq([tick : Nat, row : Nat])
        /\ Len(origin) = Len(log)
    BY DEF SinkInv, K!Types, K!TypeOK, PublishInv, RowTypes, StorageInv
  <2>2. \A m : Len(Append(log, m)) = Len(log) + 1 BY <2>1
  <2>3. \A o : Len(Append(origin, o)) = Len(origin) + 1 BY <2>1
  <2> QED BY <1>2, <2>1, <2>2, <2>3
<1>4. CASE stored' = stored /\ storage' \in {storage, <<>>}
  <2>1. K!Stored' = K!Stored BY <1>4 DEF K!Stored
  <2>2. CASE storage' = storage
    BY <1>3, <2>1, <2>2 DEF StorageInv, Ascending
  <2>3. CASE storage' = <<>> BY <1>3, <2>3 DEF StorageInv, Ascending
  <2> QED BY <1>4, <2>2, <2>3
<1>5. CASE C!StoreMessage
  <2>1. /\ loopPc = "store" /\ storage' = Append(storage, msg)
        /\ stored' = Append(stored, msg)
    BY <1>5 DEF C!StoreMessage
  <2>2. stored \in Seq(Nat) /\ msg \in Nat
    BY DEF SinkInv, K!Types, K!TypeOK
  <2>3. K!Stored' = K!Stored \cup {msg}
    <3>1. /\ DOMAIN stored = 1 .. Len(stored) /\ Len(stored) \in Nat
          /\ DOMAIN stored' = 1 .. Len(stored) + 1
          /\ stored'[Len(stored) + 1] = msg
          /\ \A n \in 1 .. Len(stored) : stored'[n] = stored[n]
      BY <2>1, <2>2
    <3> QED BY <3>1 DEF K!Stored
  <2>4. \A p \in K!Stored : p < msg
    BY <2>1 DEF SinkInv, K!OrderInv, K!HandInv, K!AllBelow, K!Stored
  <2>5. \A i \in DOMAIN storage : storage[i] < msg BY <2>4 DEF StorageInv
  <2>6. /\ storage' \in Seq(Nat) /\ Ascending(storage')
        /\ \A i \in DOMAIN storage' :
             (i \in DOMAIN storage /\ storage'[i] = storage[i]) \/ storage'[i] = msg
    BY <2>1, <2>2, <2>5, AppendAscends DEF StorageInv
  <2> QED BY <1>3, <2>3, <2>6 DEF StorageInv, Ascending
<1> QED BY <1>1, <1>4, <1>5

\* To begin with nothing is stored.
LEMMA StorageInvInit == Init => StorageInv
BY DEF Init, C!Init, C!Q!Init, StorageInv, Ascending

\* The rows of one tick stand in the storage in the order of the file and none of
\* them twice, and rows of an earlier tick after those of a later one only if
\* their streams overlapped, through any number of ticks and faults.
THEOREM RowsInFileOrder == Spec => []FileOrder
<1>1. SinkInv /\ PublishInv /\ StorageInv => FileOrder
  <2> SUFFICES ASSUME SinkInv, PublishInv, StorageInv,
                      NEW i \in DOMAIN storage, NEW j \in DOMAIN storage, i < j
               PROVE  InFileOrder(origin[storage[i]], origin[storage[j]])
    BY DEF FileOrder, InFileOrder
  <2>1. storage[i] < storage[j] BY DEF StorageInv, Ascending
  <2>2. DOMAIN origin = DOMAIN log
    BY DEF SinkInv, K!Types, K!TypeOK, PublishInv, RowTypes, StorageInv
  <2>3. storage[i] \in DOMAIN origin /\ storage[j] \in DOMAIN origin
    BY <2>2 DEF SinkInv, K!Types, K!TypeOK
  <2> QED BY <2>1, <2>3 DEF PublishInv, LogOrder
<1>2. SinkInv /\ PublishInv /\ StorageInv /\ [Next]_vars
        => PublishInv' /\ StorageInv'
  BY PublishInvStep, StorageStep
<1> QED BY <1>1, <1>2, StorageInvInit, PublishInvInit, SinkCorrect, PTL DEF Spec

-----------------------------------------------------------------------------
(* The streamer, which ends and starts again too. *)

\* The streamer's invariant: its types, and what its streams carry.
SenderInv == T!Types /\ T!SendInv

\* A Publish handler takes a request.
LEMMA HandleIsStreamers == ASSUME NEW k \in Streams, S!Handle(k) PROVE T!Handle(k)
BY DEF S!Handle, T!Handle, S!clientVars, T!clientVars

\* A batch is taken and its stream opened, or not.
LEMMA BatchIsStreamers ==
  /\ S!TakeBatch => T!TakeBatch
  /\ S!LoadFails => T!LoadFails
  /\ S!OpenFails => T!OpenFails
  /\ \A k \in Streams : S!OpenStream(k) => T!OpenStream(k)
BY DEF S!TakeBatch, T!TakeBatch, S!LoadFails, T!LoadFails, S!OpenFails, T!OpenFails,
   S!OpenStream, T!OpenStream, S!StartIdx, T!StartIdx, S!EndIdx, T!EndIdx, S!Slice,
   T!Slice, S!streamVars, T!streamVars, S!clientVars, T!clientVars, S!vars, T!vars

\* Its rows are sent.
LEMMA SendIsStreamers == ASSUME S!SendStep PROVE T!SendStep
BY DEF S!SendStep, T!SendStep, S!SendRow, T!SendRow, S!SentRow, T!SentRow,
   S!SkipUnencodable, T!SkipUnencodable, S!SkipRow, T!SkipRow, S!SendFails,
   T!SendFails, S!LeaveOutRow, T!LeaveOutRow, S!CloseSend, T!CloseSend,
   S!streamVars, T!streamVars

\* A stream breaks, or is over.
LEMMA EndIsStreamers ==
  ASSUME NEW k \in Streams, S!Break(k) \/ S!Free(k)
  PROVE  T!Break(k) \/ T!Free(k)
BY DEF S!Break, T!Break, S!Free, T!Free, S!clientVars, T!clientVars

\* The streamer and its streams, left alone.
LEMMA StreamerUnchanged == ASSUME UNCHANGED streamerVars PROVE UNCHANGED T!vars
BY DEF streamerVars, T!vars, T!clientVars, T!streamVars

\* Unless the streamer or the queue ends, every step is one of the streamer and
\* its handlers, or leaves them alone.
LEMMA StreamerCases ==
  ASSUME [Next]_vars, ~StreamerEnds, ~QueueEnds
  PROVE  [T!Next]_(T!vars)
<1>1. ASSUME TakeBatch PROVE T!Next BY <1>1, BatchIsStreamers DEF TakeBatch, T!Next
<1>2. ASSUME NEW k \in Streams, OpenStream(k) PROVE T!Next
  BY <1>2, BatchIsStreamers DEF OpenStream, T!Next
<1>3. ASSUME NEW k \in Streams, Publish(k) PROVE T!Next
  BY <1>3, HandleIsStreamers DEF Publish, T!Next
<1>4. ASSUME StreamerStep PROVE T!Next
  <2>1. ASSUME NEW k \in Streams, S!Free(k) PROVE T!Next
    BY <2>1, EndIsStreamers DEF T!Next
  <2> QED BY <1>4, <2>1, BatchIsStreamers, SendIsStreamers DEF StreamerStep, T!Next
<1>5. ASSUME StreamBreaks PROVE [T!Next]_(T!vars)
  <2>1. ASSUME NEW k \in Streams, S!Break(k) PROVE T!Next
    BY <2>1, EndIsStreamers DEF T!Next
  <2> QED BY <1>5, <2>1, StreamerUnchanged DEF StreamBreaks
<1>6. CASE UNCHANGED streamerVars BY <1>6, StreamerUnchanged
<1> QED
  BY <1>1, <1>2, <1>3, <1>4, <1>5, <1>6 DEF Next, SinkStep, SinkEnds, vars

\* The end of the streamer's process, or of the queue's, breaks the streams: each
\* loses the end of what was on its way, and the next streamer holds none.
LEMMA SenderEnds ==
  ASSUME SenderInv, StreamerEnds \/ QueueEnds
  PROVE  SenderInv'
<1>1. T!Types /\ T!SendInv /\ T!TypeOK /\ T!StreamUse BY DEF SenderInv, T!Types
<1>2. /\ state' = [k \in Streams |-> IF state[k] = "free" THEN "free" ELSE "broken"]
      /\ requests' \in [Streams -> Seq(T!Rows)]
      /\ \A k \in Streams : \E n \in 0 .. Len(requests[k]) :
           requests'[k] = SubSeq(requests[k], 1, n)
      /\ UNCHANGED <<rows, handled, answers>>
  <2>1. CASE StreamerEnds
    <3>1. T!ConnectionEnds BY <2>1 DEF StreamerEnds, S!ConnectionEnds, T!ConnectionEnds
    <3> QED BY <1>1, <3>1, Bounds, T!ConnectionLeaves
  <2>2. CASE QueueEnds
    <3>1. /\ requests' = [k \in Streams |-> <<>>]
          /\ state' = [k \in Streams |-> IF state[k] = "free" THEN "free" ELSE "broken"]
          /\ UNCHANGED <<rows, handled, answers>>
      BY <2>2 DEF QueueEnds, S!ConnectionEnds
    <3>2. requests \in [Streams -> Seq(T!Rows)] BY <1>1 DEF T!TypeOK
    <3>3. ASSUME NEW k \in Streams
          PROVE  \E n \in 0 .. Len(requests[k]) :
                   requests'[k] = SubSeq(requests[k], 1, n)
      <4>1. requests[k] \in Seq(T!Rows) BY <3>2
      <4>2. 0 \in 0 .. Len(requests[k]) /\ SubSeq(requests[k], 1, 0) = <<>> BY <4>1
      <4> QED BY <3>1, <4>2
    <3> QED BY <3>1, <3>3
  <2> QED BY <2>1, <2>2
<1>3. \/ UNCHANGED <<loaded, currentIdx, sendPc, batch, stream, stopped>>
      \/ /\ loaded' = FALSE /\ currentIdx' = 0 /\ sendPc' = "wait" /\ batch' = <<>>
         /\ stream' = 0 /\ UNCHANGED stopped
  BY DEF StreamerEnds, QueueEnds
<1>4. T!Types'
  <2>1. state' \in [Streams -> {"free", "open", "closing", "broken"}] BY <1>2
  <2>2. /\ loaded' \in BOOLEAN /\ currentIdx' \in 0 .. NumRows
        /\ sendPc' \in {"wait", "open", "send", "returned"}
        /\ batch' \in Seq(T!Rows) /\ stream' \in Streams \cup {0}
        /\ stopped' \in {"no", "done", "closed"}
    <3>1. NumRows \in Nat /\ <<>> \in Seq(T!Rows) BY PipelineAssumption
    <3>2. CASE UNCHANGED <<loaded, currentIdx, sendPc, batch, stream, stopped>>
      BY <1>1, <3>2 DEF T!TypeOK
    <3>3. CASE /\ loaded' = FALSE /\ currentIdx' = 0 /\ sendPc' = "wait"
               /\ batch' = <<>> /\ stream' = 0 /\ UNCHANGED stopped
      <4>1. loaded' \in BOOLEAN /\ stopped' \in {"no", "done", "closed"}
        BY <1>1, <3>3, Zenon DEF T!TypeOK
      <4> QED BY <3>1, <3>3, <4>1
    <3> QED BY <1>3, <3>2, <3>3
  <2>3. T!TypeOK' BY <1>1, <1>2, <2>1, <2>2 DEF T!TypeOK
  <2>4. T!StreamUse' BY <1>1, <1>2, <1>3 DEF T!StreamUse
  <2> QED BY <2>3, <2>4 DEF T!Types
<1>5. T!SendInv'
  <2>1. \/ UNCHANGED <<batch, stream>>
        \/ /\ batch' = <<>> /\ stream' = 0
           /\ \A k \in Streams : state'[k] \notin {"open", "closing"}
    BY <1>2, <1>3
  <2>2. \A k \in Streams :
          \/ requests'[k] = requests[k] /\ state'[k] = state[k]
          \/ /\ state'[k] \notin {"open", "closing", "free"}
             /\ \E n \in 0 .. Len(requests[k]) :
                  requests'[k] = SubSeq(requests[k], 1, n)
    BY <1>1, <1>2, Bounds, T!ConnectionBreaks
  <2> QED BY <1>1, <1>2, <2>1, <2>2, Bounds, T!BreakStep
<1> QED BY <1>4, <1>5 DEF SenderInv

\* So the streamer's invariant survives every step.
LEMMA SenderInvStep ==
  ASSUME SenderInv, [Next]_vars
  PROVE  SenderInv'
<1>1. CASE StreamerEnds \/ QueueEnds BY <1>1, SenderEnds
<1>2. CASE ~StreamerEnds /\ ~QueueEnds
  <2>1. [T!Next]_(T!vars) BY <1>2, StreamerCases
  <2>2. T!Types' BY <2>1, Bounds, T!TypeStep DEF SenderInv
  <2>3. T!SendInv' BY <2>1, Bounds, T!SendInvStep DEF SenderInv
  <2> QED BY <2>2, <2>3 DEF SenderInv
<1> QED BY <1>1, <1>2

\* It holds at all times.
LEMMA SenderCorrect == Spec => []SenderInv
<1>1. Init => SenderInv
  <2> SUFFICES ASSUME Init PROVE SenderInv OBVIOUS
  <2>1. T!Init BY DEF Init, S!Init, T!Init
  <2> QED BY <2>1, Bounds, T!TypesInit, T!SendInvInit DEF SenderInv
<1> QED BY <1>1, SenderInvStep, PTL DEF Spec

\* What a stream that did not break has carried, and what is left of its batch,
\* are the encodable rows of the batch, each once and in order: also when the
\* streamer or the queue was started again before, or while other streams break.
THEOREM BatchesSurviveRestarts == Spec => []S!BatchIsCarried
<1>1. SenderInv => T!BatchIsCarried BY Bounds, T!CarriedByInv DEF SenderInv
<1>2. T!BatchIsCarried => S!BatchIsCarried
  BY DEF T!BatchIsCarried, S!BatchIsCarried, T!InOrder, S!InOrder, T!Encodable,
     S!Encodable, T!RowsIn, S!RowsIn
<1> QED BY <1>1, <1>2, SenderCorrect, PTL

\* A stream that breaks, with a process that ends or on its own, loses the end of
\* its batch and nothing before it.
THEOREM RestartsLoseTails == Spec => []S!LossIsTail
<1>1. SenderInv => T!LossIsTail BY Bounds, T!LossByInv DEF SenderInv
<1>2. T!LossIsTail => S!LossIsTail
  BY DEF T!LossIsTail, S!LossIsTail, T!InOrder, S!InOrder, T!Encodable,
     S!Encodable, T!RowsIn, S!RowsIn
<1> QED BY <1>1, <1>2, SenderCorrect, PTL

-----------------------------------------------------------------------------
(* What of a batch is in the queue's log. *)

\* The rows the log holds of the tick a stream was opened on.
Published(k) ==
  {origin[n].row : n \in {m \in DOMAIN origin : origin[m].tick = tickOf[k]}}

\* They are those its handler took, of that stream and of no other.
HandledIsPublished ==
  \A k \in Streams : Used(k) => Published(k) = S!RowsIn(handled[k])

\* They are a beginning of its batch, of the rows that can be encoded; all of them
\* once the stream comes to its regular end.
LogHoldsBeginning ==
  \A k \in Streams : Used(k) =>
    /\ Published(k) \subseteq S!Encodable(rows[k])
    /\ \A r \in S!Encodable(rows[k]), p \in Published(k) :
         r < p => r \in Published(k)
    /\ state[k] = "closing" /\ requests[k] = <<>> =>
         Published(k) = S!Encodable(rows[k])

\* A stream begins with nothing of its tick in the log.
LEMMA HandledOpen ==
  ASSUME PublishInv, SenderInv, HandledIsPublished, NEW h \in Streams, OpenStream(h)
  PROVE  HandledIsPublished'
<1>1. /\ sendPc = "open" /\ state[h] = "free"
      /\ state' = [state EXCEPT ![h] = "open"]
      /\ tickOf' = [tickOf EXCEPT ![h] = ticks]
      /\ UNCHANGED <<handled, origin>>
  BY DEF OpenStream, S!OpenStream
<1>2. /\ tickOf \in [Streams -> Nat] /\ ticks \in Nat
      /\ state \in [Streams -> {"free", "open", "closing", "broken"}]
  BY DEF PublishInv, RowTypes
<1> SUFFICES ASSUME NEW k \in Streams, Used(k)'
             PROVE  Published(k)' = S!RowsIn(handled[k])
  BY <1>1 DEF HandledIsPublished, S!RowsIn
<1>3. CASE k = h
  <2>1. handled[k] = <<>>
    BY <1>1, <1>3 DEF SenderInv, T!SendInv, T!RestIsBatch
  <2>2. \A n \in DOMAIN origin : origin[n].tick < ticks /\ origin[n].tick \in Nat
    BY <1>1, OriginTypes DEF PublishInv, TickOrder
  <2>3. tickOf'[k] = ticks BY <1>1, <1>2, <1>3
  <2>4. Published(k)' = {} BY <1>1, <1>2, <2>2, <2>3 DEF Published
  <2> QED BY <2>1, <2>4 DEF S!RowsIn
<1>4. CASE k # h
  <2>1. tickOf'[k] = tickOf[k] /\ state'[k] = state[k] BY <1>1, <1>2, <1>4
  <2> QED BY <1>1, <2>1 DEF HandledIsPublished, Published, Used
<1> QED BY <1>3, <1>4

\* A row is handled and published in one step, and no other stream is of its tick.
LEMMA HandledPublish ==
  ASSUME PublishInv, SenderInv, HandledIsPublished, NEW f \in Streams, Publish(f)
  PROVE  HandledIsPublished'
<1> DEFINE r == Head(requests[f])
           new == [tick |-> tickOf[f], row |-> r]
<1>1. /\ requests[f] # <<>>
      /\ handled' = [handled EXCEPT ![f] = Append(@, r)]
      /\ origin' = Append(origin, new)
      /\ UNCHANGED <<state, tickOf>>
  BY DEF Publish, S!Handle, S!clientVars, tickVars
<1>2. /\ requests \in [Streams -> Seq(T!Rows)] /\ handled \in [Streams -> Seq(T!Rows)]
      /\ T!Rows \subseteq Nat
  BY PipelineAssumption DEF SenderInv, T!Types, T!TypeOK, T!Rows
<1>3. origin \in Seq([tick : Nat, row : Nat]) /\ tickOf \in [Streams -> Nat]
  BY DEF PublishInv, RowTypes
<1>4. r \in T!Rows BY <1>1, <1>2
<1>5. new \in [tick : Nat, row : Nat] /\ new.tick = tickOf[f] /\ new.row = r
  BY <1>2, <1>3, <1>4
<1>6. Used(f) BY <1>1 DEF PublishInv, StreamUse
<1> HIDE DEF r, new
<1>7. /\ DOMAIN origin' = DOMAIN origin \cup {Len(origin) + 1}
      /\ \A n \in DOMAIN origin : origin'[n] = origin[n]
      /\ origin'[Len(origin) + 1] = new
  BY <1>1, <1>3, <1>5, AppendTo
<1> SUFFICES ASSUME NEW k \in Streams, Used(k)
             PROVE  Published(k)' = S!RowsIn(handled'[k])
  BY <1>1 DEF HandledIsPublished, S!RowsIn, Used
<1>8. Published(k) = S!RowsIn(handled[k]) BY DEF HandledIsPublished
<1>9. CASE k = f
  <2>1. Published(k)' = Published(k) \cup {r}
    BY <1>1, <1>5, <1>7, <1>9 DEF Published
  <2>2. handled[k] \in Seq(T!Rows) /\ handled'[k] = Append(handled[k], r)
    BY <1>1, <1>2, <1>9
  <2>3. S!RowsIn(handled'[k]) = S!RowsIn(handled[k]) \cup {r}
    <3>1. /\ DOMAIN handled'[k] = DOMAIN handled[k] \cup {Len(handled[k]) + 1}
          /\ \A n \in DOMAIN handled[k] : handled'[k][n] = handled[k][n]
          /\ handled'[k][Len(handled[k]) + 1] = r
      BY <1>4, <2>2, AppendTo
    <3> QED BY <3>1 DEF S!RowsIn
  <2> QED BY <1>8, <2>1, <2>3
<1>10. CASE k # f
  <2>1. tickOf[k] # tickOf[f] BY <1>6, <1>10 DEF PublishInv, TickOrder
  <2>2. Published(k)' = Published(k) BY <1>1, <1>5, <1>7, <2>1 DEF Published
  <2>3. handled'[k] = handled[k] BY <1>1, <1>2, <1>10
  <2> QED BY <1>8, <2>2, <2>3
<1> QED BY <1>9, <1>10

\* Nothing else puts a row into the log, or takes a stream's number for another.
LEMMA HandledStep ==
  ASSUME PublishInv, SenderInv, HandledIsPublished, [Next]_vars
  PROVE  HandledIsPublished'
<1>1. ASSUME NEW k \in Streams, OpenStream(k) PROVE HandledIsPublished'
  BY <1>1, HandledOpen
<1>2. ASSUME NEW k \in Streams, Publish(k) PROVE HandledIsPublished'
  BY <1>2, HandledPublish
<1>3. ASSUME UNCHANGED <<tickOf, origin>>,
             \A k \in Streams : Used(k)' => Used(k) /\ handled'[k] = handled[k]
      PROVE  HandledIsPublished'
  <2> SUFFICES ASSUME NEW k \in Streams, Used(k)'
               PROVE  Published(k)' = S!RowsIn(handled'[k])
    BY DEF HandledIsPublished, S!RowsIn
  <2>1. Published(k) = S!RowsIn(handled[k]) /\ handled'[k] = handled[k]
    BY <1>3 DEF HandledIsPublished
  <2>2. Published(k)' = Published(k) BY <1>3 DEF Published
  <2> QED BY <2>1, <2>2
<1>4. state \in [Streams -> {"free", "open", "closing", "broken"}]
      /\ handled \in [Streams -> Seq(T!Rows)]
  BY DEF SenderInv, T!Types, T!TypeOK
<1>5. ASSUME NEW h \in Streams, S!Free(h)
      PROVE  \A k \in Streams : Used(k)' => Used(k) /\ handled'[k] = handled[k]
  BY <1>4, <1>5 DEF S!Free, Used
<1>6. ASSUME NEW h \in Streams, S!Break(h)
      PROVE  \A k \in Streams : Used(k)' => Used(k) /\ handled'[k] = handled[k]
  BY <1>4, <1>6 DEF S!Break, Used
<1>7. CASE TakeBatch BY <1>3, <1>7 DEF TakeBatch, S!TakeBatch, S!streamVars, Used
<1>8. CASE StreamerStep
  <2>1. CASE S!LoadFails \/ S!OpenFails \/ S!SendRow \/ S!SkipUnencodable \/ S!SendFails
    <3>1. UNCHANGED <<state, handled>>
      BY <2>1 DEF S!LoadFails, S!OpenFails, S!SendRow, S!SkipUnencodable,
         S!SendFails, S!vars, S!streamVars
    <3> QED BY <1>3, <1>8, <3>1 DEF StreamerStep, tickVars, Used
  <2>2. CASE S!CloseSend
    BY <1>3, <1>4, <1>8, <2>2 DEF StreamerStep, S!CloseSend, tickVars, Used
  <2>3. ASSUME NEW k \in Streams, S!Free(k) PROVE HandledIsPublished'
    BY <1>3, <1>5, <1>8, <2>3 DEF StreamerStep, tickVars
  <2> QED BY <1>8, <2>1, <2>2, <2>3 DEF StreamerStep, S!SendStep
<1>9. CASE SinkStep \/ SinkEnds
  BY <1>3, <1>9 DEF SinkStep, SinkEnds, streamerVars, tickVars, Used
<1>10. CASE StreamBreaks
  <2>1. CASE UNCHANGED streamerVars
    BY <1>3, <1>10, <2>1 DEF StreamBreaks, streamerVars, tickVars, Used
  <2>2. ASSUME NEW k \in Streams, S!Break(k) PROVE HandledIsPublished'
    BY <1>3, <1>6, <1>10, <2>2 DEF StreamBreaks, tickVars
  <2> QED BY <1>10, <2>1, <2>2 DEF StreamBreaks
<1>11. CASE StreamerEnds \/ QueueEnds
  BY <1>3, <1>4, <1>11
  DEF StreamerEnds, QueueEnds, S!ConnectionEnds, tickVars, Used
<1>12. CASE UNCHANGED vars
  BY <1>3, <1>12 DEF vars, streamerVars, tickVars, Used
<1> QED
  BY <1>1, <1>2, <1>7, <1>8, <1>9, <1>10, <1>11, <1>12 DEF Next

\* What the queue holds of a batch is a beginning of it, and all of it once the
\* stream has come to its regular end: whatever ends and starts again, no row of
\* a batch is published over one that was lost before it.
THEOREM BatchesInTheLog == Spec => [](HandledIsPublished /\ LogHoldsBeginning)
<1>1. Init => HandledIsPublished
  BY DEF Init, S!Init, HandledIsPublished, Used
<1>2. PublishInv /\ SenderInv /\ HandledIsPublished => LogHoldsBeginning
  <2> SUFFICES ASSUME PublishInv, SenderInv, HandledIsPublished,
                      NEW k \in Streams, Used(k)
               PROVE  /\ S!RowsIn(handled[k]) \subseteq S!Encodable(rows[k])
                      /\ \A r \in S!Encodable(rows[k]), p \in S!RowsIn(handled[k]) :
                           r < p => r \in S!RowsIn(handled[k])
                      /\ state[k] = "closing" /\ requests[k] = <<>> =>
                           S!Encodable(rows[k]) \subseteq S!RowsIn(handled[k])
    BY DEF LogHoldsBeginning, HandledIsPublished
  <2>1. T!LossIsTail BY Bounds, T!LossByInv DEF SenderInv
  <2>2. ASSUME state[k] = "closing", requests[k] = <<>>
        PROVE  S!Encodable(rows[k]) \subseteq S!RowsIn(handled[k])
    <3>1. stream # k BY <2>2, PipelineAssumption DEF PublishInv, StreamUse
    <3>2. T!Encodable(rows[k]) \subseteq T!Sent(k)
      BY <2>2, <3>1 DEF SenderInv, T!SendInv, T!RestIsBatch
    <3>3. T!Sent(k) = T!RowsIn(handled[k]) BY <2>2 DEF T!Sent, T!RowsIn
    <3> QED BY <3>2, <3>3 DEF S!Encodable, T!Encodable, S!RowsIn, T!RowsIn
  <2> QED
    BY <2>1, <2>2 DEF T!LossIsTail, S!Encodable, T!Encodable, S!RowsIn, T!RowsIn
<1> QED BY <1>1, <1>2, HandledStep, PublishInvInit, PublishInvStep, SenderCorrect, PTL DEF Spec

-----------------------------------------------------------------------------
(* Type correctness of the whole. *)

\* What the history ranges over; a stream in use was opened on a tick, and so was
\* every row of the log published from one.
HistoryInv ==
  /\ faults \in 0 .. MaxFaults
  /\ ticks \in 0 .. MaxTicks
  /\ sendPc \in {"open", "send"} => ticks > 0
  /\ tickOf \in [Streams -> 0 .. ticks]
  /\ \A k \in Streams : Used(k) => tickOf[k] > 0
  /\ overlaps \subseteq (1 .. ticks) \X (1 .. ticks)
  /\ origin \in Seq([tick : 1 .. ticks, row : S!Rows])

\* A tick, and the stream that is opened on it.
LEMMA HistoryTick ==
  ASSUME SenderInv, HistoryInv, TakeBatch \/ \E k \in Streams : OpenStream(k)
  PROVE  HistoryInv'
<1> USE DEF HistoryInv
<1>1. MaxTicks \in Nat /\ ticks \in Nat BY PipelineAssumption
<1>2. state \in [Streams -> {"free", "open", "closing", "broken"}]
  BY DEF SenderInv, T!Types, T!TypeOK
<1>3. CASE TakeBatch
  <2>1. /\ ticks' = ticks + 1 /\ ticks < MaxTicks
        /\ UNCHANGED <<faults, tickOf, overlaps, origin, state>>
    BY <1>3 DEF TakeBatch, S!TakeBatch, S!streamVars
  <2>2. 1 .. ticks \subseteq 1 .. ticks' /\ 0 .. ticks \subseteq 0 .. ticks'
    BY <1>1, <2>1
  <2>3. origin' \in Seq([tick : 1 .. ticks', row : S!Rows])
    <3>1. [tick : 1 .. ticks, row : S!Rows] \subseteq [tick : 1 .. ticks', row : S!Rows]
      BY <2>2
    <3>2. origin \in Seq([tick : 1 .. ticks', row : S!Rows]) BY <3>1, SeqWiden
    <3> QED BY <2>1, <3>2
  <2>4. tickOf' \in [Streams -> 0 .. ticks'] BY <2>1, <2>2
  <2> QED BY <1>1, <2>1, <2>2, <2>3, <2>4 DEF Used
<1>4. ASSUME NEW k \in Streams, OpenStream(k) PROVE HistoryInv'
  <2>1. /\ sendPc = "open"
        /\ state' = [state EXCEPT ![k] = "open"]
        /\ tickOf' = [tickOf EXCEPT ![k] = ticks]
        /\ overlaps' = overlaps \cup
             {<<tickOf[j], ticks>> : j \in {i \in Streams : state[i] # "free"}}
        /\ UNCHANGED <<faults, ticks, origin>>
    BY <1>4 DEF OpenStream, S!OpenStream
  <2>2. \A j \in Streams : state[j] # "free" => tickOf[j] \in 1 .. ticks
    BY <1>1 DEF Used
  <2>3. ticks \in 1 .. ticks BY <1>1, <2>1
  <2>4. overlaps' \subseteq (1 .. ticks) \X (1 .. ticks) BY <2>1, <2>2, <2>3
  <2>5. tickOf' \in [Streams -> 0 .. ticks] BY <1>1, <2>1
  <2>6. \A j \in Streams : Used(j)' => tickOf'[j] > 0
    BY <1>2, <2>1, <2>3 DEF Used
  <2> QED BY <1>1, <2>1, <2>3, <2>4, <2>5, <2>6
<1> QED BY <1>3, <1>4

\* A row is published.
LEMMA HistoryPublish ==
  ASSUME SenderInv, PublishInv, HistoryInv, NEW k \in Streams, Publish(k)
  PROVE  HistoryInv'
<1> USE DEF HistoryInv
<1> DEFINE new == [tick |-> tickOf[k], row |-> Head(requests[k])]
<1>1. /\ requests[k] # <<>>
      /\ origin' = Append(origin, new)
      /\ UNCHANGED <<faults, ticks, tickOf, overlaps, state, sendPc>>
  BY DEF Publish, S!Handle, S!clientVars, tickVars
<1>2. requests[k] \in Seq(S!Rows)
  BY DEF SenderInv, T!Types, T!TypeOK, T!Rows, S!Rows
<1>3. ticks \in Nat BY PipelineAssumption
<1>4. Used(k) BY <1>1 DEF PublishInv, StreamUse
<1>5. tickOf[k] \in 1 .. ticks /\ Head(requests[k]) \in S!Rows
  BY <1>1, <1>2, <1>3, <1>4
<1>6. new \in [tick : 1 .. ticks, row : S!Rows] BY <1>5
<1> HIDE DEF new
<1>7. origin' \in Seq([tick : 1 .. ticks, row : S!Rows]) BY <1>1, <1>6, AppendTo
<1> QED BY <1>1, <1>7 DEF Used

\* Everything else adds nothing to the history but a fault.
LEMMA HistoryStep ==
  ASSUME SenderInv, PublishInv, HistoryInv, [Next]_vars
  PROVE  HistoryInv'
<1>1. CASE TakeBatch \/ \E k \in Streams : OpenStream(k) BY <1>1, HistoryTick
<1>2. ASSUME NEW k \in Streams, Publish(k) PROVE HistoryInv' BY <1>2, HistoryPublish
<1>3. ASSUME UNCHANGED <<tickVars, origin>>, faults' \in 0 .. MaxFaults,
             sendPc' \in {sendPc, "wait"}, \A k \in Streams : Used(k)' => Used(k)
      PROVE  HistoryInv'
  BY <1>3 DEF HistoryInv, tickVars
<1>4. Fault => faults' \in 0 .. MaxFaults BY PipelineAssumption DEF Fault, HistoryInv
<1>5. faults \in 0 .. MaxFaults BY DEF HistoryInv
<1>6. state \in [Streams -> {"free", "open", "closing", "broken"}]
  BY DEF SenderInv, T!Types, T!TypeOK
<1>7. CASE StreamerStep
  <2>1. /\ sendPc' \in {sendPc, "wait"}
        /\ \A k \in Streams : Used(k)' => Used(k)
    <3>1. CASE S!LoadFails \/ S!OpenFails \/ S!SendRow \/ S!SkipUnencodable \/ S!SendFails
      BY <3>1 DEF S!LoadFails, S!OpenFails, S!SendRow, S!SkipUnencodable,
         S!SendFails, S!vars, S!clientVars, S!streamVars, Used
    <3>2. CASE S!CloseSend BY <1>6, <3>2 DEF S!CloseSend, Used
    <3>3. ASSUME NEW k \in Streams, S!Free(k)
          PROVE  /\ sendPc' = sendPc
                 /\ \A j \in Streams : Used(j)' => Used(j)
      BY <1>6, <3>3 DEF S!Free, S!clientVars, Used
    <3> QED BY <1>7, <3>1, <3>2, <3>3 DEF StreamerStep, S!SendStep
  <2> QED BY <1>3, <1>5, <1>7, <2>1 DEF StreamerStep
<1>8. CASE SinkStep \/ SinkEnds \/ UNCHANGED vars
  BY <1>3, <1>4, <1>5, <1>8 DEF SinkStep, SinkEnds, vars, streamerVars, Used
<1>9. CASE StreamBreaks
  <2>1. CASE UNCHANGED streamerVars
    BY <1>3, <1>4, <1>9, <2>1 DEF StreamBreaks, streamerVars, Used
  <2>2. ASSUME NEW k \in Streams, S!Break(k) PROVE HistoryInv'
    <3>1. /\ sendPc' = sendPc /\ \A j \in Streams : Used(j)' => Used(j)
      BY <1>6, <2>2 DEF S!Break, S!clientVars, Used
    <3> QED BY <1>3, <1>4, <1>9, <3>1 DEF StreamBreaks
  <2> QED BY <1>9, <2>1, <2>2 DEF StreamBreaks
<1>10. CASE StreamerEnds \/ QueueEnds
  BY <1>3, <1>4, <1>6, <1>10
  DEF StreamerEnds, QueueEnds, S!ConnectionEnds, Used
<1> QED BY <1>1, <1>2, <1>7, <1>8, <1>9, <1>10 DEF Next

\* The values the variables range over, for any number of ticks and faults.
THEOREM TypeCorrect == Spec => []TypeOK
<1>1. Init => HistoryInv
  <2> SUFFICES ASSUME Init PROVE HistoryInv OBVIOUS
  <2>1. origin \in Seq([tick : 1 .. ticks, row : S!Rows]) BY DEF Init
  <2>2. tickOf \in [Streams -> 0 .. ticks] BY DEF Init
  <2>3. sendPc = "wait" /\ \A k \in Streams : ~Used(k) BY DEF Init, S!Init, Used
  <2> QED BY <2>1, <2>2, <2>3, PipelineAssumption DEF Init, HistoryInv
<1>2. SinkInv /\ SenderInv /\ StorageInv /\ HistoryInv => TypeOK
  <2> SUFFICES ASSUME SinkInv, SenderInv, StorageInv, HistoryInv PROVE TypeOK OBVIOUS
  <2>1. S!TypeOK BY DEF SenderInv, T!Types, T!TypeOK, S!TypeOK, T!Rows, S!Rows
  <2>2. C!TypeOK
    BY DEF SinkInv, K!Types, K!TypeOK, C!TypeOK, K!Message, C!Message, K!Topics,
       C!Topics, K!Topic, C!Topic, K!Subs, C!Subs
  <2> QED BY <2>1, <2>2 DEF HistoryInv, StorageInv, TypeOK
<1> QED
  BY <1>1, <1>2, HistoryStep, StorageInvInit, StorageStep, PublishInvInit,
     PublishInvStep, SinkCorrect, SenderCorrect, PTL
  DEF Spec

=============================================================================
