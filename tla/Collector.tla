----------------------------- MODULE Collector -----------------------------
(***************************************************************************)
(* The telemetry collector, internal/telemetry/collector.go: a loop that   *)
(* subscribes to the queue, stores what it receives, acknowledges what it  *)
(* stored, and subscribes anew when the stream fails; and Stop, which ends *)
(* the loop from another goroutine and then closes the storage.            *)
(*                                                                         *)
(* The queue is what module Broadcast says of it, and MQServer implements: *)
(* each Subscribe stream is a subscription of its own, which joins at the  *)
(* end of the log.  Streams are numbered in the order the collector opens  *)
(* them.  The server puts one message into a response, so a batch is one   *)
(* message, given by its position in the log.                              *)
(***************************************************************************)
EXTENDS Naturals, Sequences, FiniteSets

CONSTANTS
  MaxMessages, \* bound: messages published in a behaviour
  MaxStreams   \* bound: streams the collector opens in a behaviour

ASSUME CollectorAssumption == MaxMessages \in Nat /\ MaxStreams \in Nat

Topic == "gpu_metrics"
Topics == {Topic}
NoTopic == "none"
Subs == 1 .. MaxStreams

\* Of a payload, whether it unmarshals to a GPUTelemetry.
Message == [topic : Topics, valid : BOOLEAN]

VARIABLES
  log, status, topicOf, from, shown, limit, \* the queue
  pc,      \* "connect" at the head of runSubscriptionLoop; "check", "recv",
           \* "store", "ack" in processSubscription; "ended"
  opened,  \* streams opened so far; the last of them is the collector's
  link,    \* that stream: "none", "open", "broken"
  wire,    \* what the server sent on it and the collector has not received
  msg,     \* the message in processing
  storage, \* what the storage holds
  late,    \* acknowledgements the collector gave up on, still on their way
  acked,   \* acknowledgements the server received
  ctxDone, \* whether the context of Start is done
  stop,    \* the caller of Stop: "idle", "waiting" in wg.Wait, "closed"
  \* History, read by no action:
  stored,  \* what was stored, in that order
  joinedAt \* length of the log when a stream joined for the first time

queueVars == <<log, status, topicOf, from, shown, limit>>
loopVars == <<pc, opened, msg, stored>>
linkVars == <<link, wire>>
ackVars == <<late, acked>>
stopVars == <<ctxDone, stop>>
vars == <<queueVars, loopVars, linkVars, storage, ackVars, stopVars, joinedAt>>

Q == INSTANCE Broadcast

Init ==
  /\ Q!Init
  /\ pc = "connect"
  /\ opened = 0
  /\ link = "none"
  /\ wire = <<>>
  /\ msg = 0
  /\ storage = <<>>
  /\ late = {}
  /\ acked = {}
  /\ ctxDone = FALSE
  /\ stop = "idle"
  /\ stored = <<>>
  /\ joinedAt = 0

-----------------------------------------------------------------------------
(* The queue and the streams. *)

Publish ==
  /\ Len(log) < MaxMessages
  /\ \E m \in Message : Q!Publish(m)
  /\ UNCHANGED <<loopVars, linkVars, storage, ackVars, stopVars, joinedAt>>

\* The server reads the request of a stream, one that is over perhaps.
Join(k) ==
  /\ k <= opened
  /\ Q!Join(k, Topic)
  /\ joinedAt' = IF \A j \in Subs : status[j] = "idle" THEN Len(log) ELSE joinedAt
  /\ UNCHANGED <<loopVars, linkVars, storage, ackVars, stopVars>>

\* The server sends a message.  What it sends on a stream that is over reaches
\* nobody, and is left out.
Deliver(k) ==
  /\ k = opened /\ link = "open"
  /\ Q!Show(k)
  /\ wire' = Append(wire, Q!Last(k)')
  /\ UNCHANGED <<loopVars, link, storage, ackVars, stopVars, joinedAt>>

\* The stream fails, or the server stops; what had arrived can be received.
Break ==
  /\ link = "open"
  /\ link' = "broken"
  /\ \E n \in 0 .. Len(wire) : wire' = SubSeq(wire, 1, n)
  /\ UNCHANGED <<queueVars, loopVars, storage, ackVars, stopVars, joinedAt>>

\* The server notices that a stream is over.
Leave(k) ==
  /\ k < opened \/ link # "open"
  /\ Q!Leave({k})
  /\ UNCHANGED <<loopVars, linkVars, storage, ackVars, stopVars, joinedAt>>

-----------------------------------------------------------------------------
(* runSubscriptionLoop and processSubscription. *)

\* ctx.Done() at the head of the loop.
EndLoop ==
  /\ pc = "connect"
  /\ ctxDone
  /\ pc' = "ended"
  /\ UNCHANGED <<queueVars, opened, msg, stored, linkVars, storage, ackVars,
                 stopVars, joinedAt>>

\* Subscribe and the first Send.  When one of them fails the loop sleeps and is
\* where it was.
Connect ==
  /\ pc = "connect"
  /\ ~ctxDone
  /\ opened < MaxStreams
  /\ pc' = "check"
  /\ opened' = opened + 1
  /\ link' = "open"
  /\ UNCHANGED <<queueVars, msg, stored, wire, storage, ackVars, stopVars,
                 joinedAt>>

\* Faulty variant: an error of processSubscription ends the loop.
EndAtOnce ==
  /\ pc' = "ended"
  /\ link' = "none"
  /\ wire' = <<>>
  /\ UNCHANGED <<queueVars, opened, msg, stored, storage, ackVars, stopVars,
                 joinedAt>>

\* processSubscription returns; what is unread on the stream is lost.
LeaveStream ==
  /\ pc' = "connect"
  /\ link' = "none"
  /\ wire' = <<>>
  /\ UNCHANGED <<queueVars, opened, msg, stored, storage, ackVars, stopVars,
                 joinedAt>>

Check ==
  /\ pc = "check"
  /\ \/ ctxDone /\ LeaveStream
     \/ /\ ~ctxDone
        /\ pc' = "recv"
        /\ UNCHANGED <<queueVars, opened, msg, stored, linkVars, storage,
                       ackVars, stopVars, joinedAt>>

\* Faulty variant: what arrived together with a message is lost with it.
NoneUnread == <<>>

\* What is left to be received.
Unread == Tail(wire)

\* A message that does not unmarshal is skipped, and never acknowledged.
Receive ==
  /\ pc = "recv"
  /\ wire # <<>>
  /\ msg' = Head(wire)
  /\ wire' = Unread
  /\ pc' = IF log[Head(wire)].valid THEN "store" ELSE "check"
  /\ UNCHANGED <<queueVars, opened, stored, link, storage, ackVars, stopVars,
                 joinedAt>>

\* Faulty variant: Recv is not given the context.
FailedBroken == link = "broken" /\ wire = <<>>

\* When Recv returns an error.
Failed == ctxDone \/ (link = "broken" /\ wire = <<>>)

ReceiveFails ==
  /\ pc = "recv"
  /\ Failed
  /\ LeaveStream

StoreMessage ==
  /\ pc = "store"
  /\ pc' = "ack"
  /\ storage' = Append(storage, msg)
  /\ stored' = Append(stored, msg)
  /\ UNCHANGED <<queueVars, opened, msg, linkVars, ackVars, stopVars, joinedAt>>

\* Faulty variants: a message is acknowledged though it could not be stored; a
\* message whose acknowledgement failed is processed again; the next id is
\* acknowledged.
AckAnyway == "ack"
StoreAgain == "store"
NextAcknowledged == acked \cup {msg + 1}

\* Where the loop goes on after either failure.
AfterFailedStore == "check"
AfterFailedAck == "check"
Acknowledged == acked \cup {msg}

\* MemoryStorage never fails; the interface may.
StoreFails ==
  /\ pc = "store"
  /\ pc' = AfterFailedStore
  /\ UNCHANGED <<queueVars, opened, msg, stored, linkVars, storage, ackVars,
                 stopVars, joinedAt>>

\* acknowledgeMessages, with an answer from the server.
Ack ==
  /\ pc = "ack"
  /\ ~ctxDone
  /\ pc' = "check"
  /\ acked' = Acknowledged
  /\ UNCHANGED <<queueVars, opened, msg, stored, linkVars, storage, late,
                 stopVars, joinedAt>>

\* acknowledgeMessages with an error: the request is lost or still on its way.
AckFails ==
  /\ pc = "ack"
  /\ pc' = AfterFailedAck
  /\ late' \in {late, late \cup {msg}}
  /\ UNCHANGED <<queueVars, opened, msg, stored, linkVars, storage, acked,
                 stopVars, joinedAt>>

LateAck(p) ==
  /\ p \in late
  /\ late' = late \ {p}
  /\ acked' = acked \cup {p}
  /\ UNCHANGED <<queueVars, loopVars, linkVars, storage, stopVars, joinedAt>>

-----------------------------------------------------------------------------
(* The caller of Start and Stop. *)

\* The context given to Start ends.
Cancel ==
  /\ ~ctxDone
  /\ ctxDone' = TRUE
  /\ UNCHANGED <<queueVars, loopVars, linkVars, storage, ackVars, stop, joinedAt>>

Stop ==
  /\ stop = "idle"
  /\ stop' = "waiting"
  /\ ctxDone' = TRUE
  /\ UNCHANGED <<queueVars, loopVars, linkVars, storage, ackVars, joinedAt>>

\* Faulty variant: Stop does not wait for the loop.
NotWaited == TRUE

\* wg.Wait returns.
Waited == pc = "ended"

\* The storage is closed, which clears it, and then the connection.
CloseStorage ==
  /\ stop = "waiting"
  /\ Waited
  /\ stop' = "closed"
  /\ storage' = <<>>
  /\ UNCHANGED <<queueVars, loopVars, linkVars, ackVars, ctxDone, joinedAt>>

-----------------------------------------------------------------------------

LoopStep ==
  \/ EndLoop \/ Connect \/ Check \/ Receive \/ ReceiveFails
  \/ StoreMessage \/ StoreFails \/ Ack \/ AckFails

Next ==
  \/ Publish
  \/ \E k \in Subs : Join(k) \/ Deliver(k) \/ Leave(k)
  \/ Break
  \/ LoopStep
  \/ \E p \in late : LateAck(p)
  \/ Cancel \/ Stop \/ CloseStorage

Spec == Init /\ [][Next]_vars

\* The loop's goroutine and the caller of Stop run when they can; a failed Recv,
\* Store or Ack returns.  Of the queue it is assumed that one of the loop's
\* attempts to subscribe succeeds in the end, and nothing else.
FairSpec == Spec /\ WF_vars(LoopStep) /\ WF_vars(CloseStorage)

-----------------------------------------------------------------------------
(* Properties. *)

\* The values the variables range over.
TypeOK ==
  /\ log \in Seq(Message)
  /\ status \in [Subs -> {"idle", "live", "gone"}]
  /\ pc \in {"connect", "check", "recv", "store", "ack", "ended"}
  /\ opened \in 0 .. MaxStreams
  /\ link \in {"none", "open", "broken"}
  /\ wire \in Seq(DOMAIN log)
  /\ msg \in 0 .. Len(log)
  /\ storage \in Seq(DOMAIN log)
  /\ late \subseteq DOMAIN log
  /\ acked \subseteq DOMAIN log
  /\ ctxDone \in BOOLEAN
  /\ stop \in {"idle", "waiting", "closed"}
  /\ stored \in Seq(DOMAIN log)
  /\ joinedAt \in 0 .. Len(log)

Stored == {stored[n] : n \in DOMAIN stored}

\* The server never hears of a message that was not stored first: not of one
\* that the storage refused or that does not unmarshal, and not of one that was
\* lost with its stream, however late an acknowledgement arrives.
AckedIsStored == acked \cup late \subseteq Stored

\* Once Stop has closed the storage nothing is put into it: the loop, with a
\* message in its hands when the context ended, is over by then.
ClosedStaysEmpty == stop = "closed" => storage = <<>>

\* What the server sends on a stream the loop takes message by message, whatever
\* becomes of each, and however the stream breaks meanwhile: the first one sent
\* first, and each next the one sent after it.  So a stream that ends loses the
\* end of what was sent on it, and nothing before.
TakenInTurn ==
  [][pc = "recv" /\ pc' \in {"store", "check"} =>
       \E n \in DOMAIN shown[opened] :
         /\ msg' = shown[opened][n]
         /\ n = 1 \/ msg = shown[opened][n - 1]]_vars

\* Stop returns, also when the loop is waiting for a message.
StopReturns == stop = "waiting" ~> stop = "closed"

\* However often streams break, and whatever the storage and the acknowledgements
\* do, the collector subscribes again, until its context ends or the bound on
\* streams is reached: no error ends the loop.
Reconnects ==
  link = "broken" ~> link = "open" \/ opened = MaxStreams \/ ctxDone

Joined == \E k \in Subs : status[k] # "idle"

P == INSTANCE Broadcast WITH
       Subs <- {"collector"},
       status <- [k \in {"collector"} |-> IF Joined THEN "live" ELSE "idle"],
       topicOf <- [k \in {"collector"} |-> IF Joined THEN Topic ELSE NoTopic],
       from <- [k \in {"collector"} |-> joinedAt],
       shown <- [k \in {"collector"} |-> stored],
       limit <- [k \in {"collector"} |-> 0]

\* All the streams of a collector together are one subscription of the lossy
\* broadcast, which shows a message by storing it: messages are stored in the
\* order they were published in and none twice, over any number of streams.
StreamsAreOneSubscription == P!Spec

=============================================================================
