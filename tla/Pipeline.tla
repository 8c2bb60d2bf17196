------------------------------ MODULE Pipeline ------------------------------
(***************************************************************************)
(* The whole of gpu-tel: the streamer process, the queue process and the   *)
(* sink process, each of which may end at any time, by a signal or a       *)
(* crash, and is then started again.                                       *)
(*                                                                         *)
(* Streamer and Collector are those modules.  They meet in the queue, the  *)
(* abstract one of Broadcast: the step in which a Publish handler of       *)
(* Streamer takes a request is the step in which Collector's queue is      *)
(* published to.  Nothing is persisted, so what a process held is gone     *)
(* when it ends, and its streams break.                                    *)
(*                                                                         *)
(* Covered besides: streams that break on their own, on either side of the *)
(* queue.  Left out are Streamer.Stop, Collector.Stop and the context of   *)
(* the collector: neither main gets to them (cmd/telemetry-streamer and    *)
(* cmd/sink), and a signal ends their processes as a crash does.           *)
(***************************************************************************)
EXTENDS Naturals, Sequences, FiniteSets

CONSTANTS
  NumRows, BatchSize, Unencodable, Streams, RequestWindow, AnswerWindow,
  MaxMessages, MaxStreams,
  MaxTicks,   \* bound: ticks of the streamer in a behaviour
  MaxFaults   \* bound: processes that end and streams that break in a behaviour

ASSUME PipelineAssumption ==
  /\ MaxMessages \in Nat /\ MaxStreams \in Nat
  /\ MaxTicks \in Nat /\ MaxFaults \in Nat
  /\ NumRows \in Nat /\ BatchSize \in Nat /\ Unencodable \subseteq 1 .. NumRows
  /\ RequestWindow \in Nat \ {0} /\ AnswerWindow \in Nat
  /\ 0 \notin Streams

VARIABLES
  \* Streamer, whose pc and wire are sendPc and requests:
  loaded, currentIdx, sendPc, batch, stream, stopped,
  state, rows, requests, handled, answers,
  \* Collector, whose pc is loopPc:
  log, status, topicOf, from, shown, limit,
  loopPc, opened, link, wire, msg, storage, late, acked, ctxDone, stop,
  stored, joinedAt,
  faults,   \* processes that have ended and streams that have broken
  \* History, read by no action but for its bound:
  ticks,    \* ticks so far, of all streamers that followed on each other
  tickOf,   \* stream -> the tick that opened it
  overlaps, \* <<i, j>>: the stream of tick i was not over when that of j opened
  origin    \* log position -> row and tick

S == INSTANCE Streamer WITH pc <- sendPc, wire <- requests
C == INSTANCE Collector WITH pc <- loopPc

streamerVars == <<loaded, currentIdx, sendPc, batch, stream, stopped,
                  state, rows, requests, handled, answers>>
queueVars == <<log, status, topicOf, from, shown, limit>>
sinkVars == <<loopPc, opened, link, wire, msg, storage, late, acked, ctxDone,
              stop, stored, joinedAt>>
tickVars == <<ticks, tickOf, overlaps>>
vars == <<streamerVars, queueVars, sinkVars, faults, tickVars, origin>>

Init ==
  /\ S!Init
  /\ C!Init
  /\ faults = 0
  /\ ticks = 0
  /\ tickOf = [k \in Streams |-> 0]
  /\ overlaps = {}
  /\ origin = <<>>

-----------------------------------------------------------------------------
(* The processes at work. *)

\* A tick of the ticker.
TakeBatch ==
  /\ ticks < MaxTicks
  /\ S!TakeBatch
  /\ ticks' = ticks + 1
  /\ UNCHANGED <<queueVars, sinkVars, faults, tickOf, overlaps, origin>>

OpenStream(k) ==
  /\ S!OpenStream(k)
  /\ tickOf' = [tickOf EXCEPT ![k] = ticks]
  /\ overlaps' = overlaps \cup
       {<<tickOf[j], ticks>> : j \in {i \in Streams : state[i] # "free"}}
  /\ UNCHANGED <<queueVars, sinkVars, faults, ticks, origin>>

\* Everything else of the streamer that the queue has no part in.
StreamerStep ==
  /\ S!LoadFails \/ S!OpenFails \/ S!SendStep \/ \E k \in Streams : S!Free(k)
  /\ UNCHANGED <<queueVars, sinkVars, faults, tickVars, origin>>

\* A Publish handler stores a request.  What the streamer sends does unmarshal.
Publish(k) ==
  /\ S!Handle(k)
  /\ C!Publish
  /\ log'[Len(log')].valid
  /\ origin' = Append(origin, [tick |-> tickOf[k], row |-> Head(requests[k])])
  /\ UNCHANGED <<faults, tickVars>>

\* The sink, and what the queue does for it.
SinkStep ==
  /\ \/ C!LoopStep
     \/ \E k \in C!Subs : C!Join(k) \/ C!Deliver(k) \/ C!Leave(k)
     \/ \E p \in late : C!LateAck(p)
  /\ UNCHANGED <<streamerVars, faults, tickVars, origin>>

-----------------------------------------------------------------------------
(* A stream breaks; a process ends and is started again. *)

Fault ==
  /\ faults < MaxFaults
  /\ faults' = faults + 1

StreamBreaks ==
  /\ Fault
  /\ \/ (\E k \in Streams : S!Break(k)) /\ UNCHANGED <<queueVars, sinkVars>>
     \/ C!Break /\ UNCHANGED streamerVars
  /\ UNCHANGED <<tickVars, origin>>

\* main never leaves Streamer.Start, so a signal finds no handler installed.  The
\* next process reads the file anew and begins with its first row.
StreamerEnds ==
  /\ Fault
  /\ S!ConnectionEnds
  /\ loaded' = FALSE
  /\ currentIdx' = 0
  /\ sendPc' = "wait"
  /\ batch' = <<>>
  /\ stream' = 0
  /\ UNCHANGED <<stopped, queueVars, sinkVars, tickVars, origin>>

\* The streams of both sides break, its handlers are gone and every subscription
\* is over; the store of the next process is empty.  The log is history: what a
\* subscription that is gone may still be shown reaches nobody.
QueueEnds ==
  /\ Fault
  /\ S!ConnectionEnds
  /\ requests' = [k \in Streams |-> <<>>]
  /\ status' = [k \in C!Subs |-> IF status[k] = "live" THEN "gone" ELSE status[k]]
  /\ limit' = [k \in C!Subs |-> IF status[k] = "live" THEN Len(log) ELSE limit[k]]
  /\ link' = IF link = "open" THEN "broken" ELSE link
  /\ \E n \in 0 .. Len(wire) : wire' = SubSeq(wire, 1, n)
  /\ UNCHANGED <<loaded, currentIdx, sendPc, batch, stream, stopped,
                 log, topicOf, from, shown,
                 loopPc, opened, msg, storage, late, acked, ctxDone, stop,
                 stored, joinedAt, tickVars, origin>>

\* Faulty variant: a message that was stored and not yet acknowledged is taken up
\* again.
ResumeMessage ==
  IF loopPc = "ack" THEN [pc |-> "store", msg |-> msg]
  ELSE [pc |-> "connect", msg |-> 0]

\* Where the loop of the next process begins.
AfterRestart == [pc |-> "connect", msg |-> 0]

\* Collector.Start returned an error or the process crashed.  An acknowledgement
\* it was sending may still arrive.
SinkEnds ==
  /\ Fault
  /\ loopPc' = AfterRestart.pc
  /\ msg' = AfterRestart.msg
  /\ link' = "none"
  /\ wire' = <<>>
  /\ storage' = <<>>
  /\ late' \in {late, IF loopPc = "ack" THEN late \cup {msg} ELSE late}
  /\ UNCHANGED <<streamerVars, queueVars, opened, acked, ctxDone, stop, stored,
                 joinedAt, tickVars, origin>>

-----------------------------------------------------------------------------

Next ==
  \/ TakeBatch
  \/ \E k \in Streams : OpenStream(k) \/ Publish(k)
  \/ StreamerStep
  \/ SinkStep
  \/ StreamBreaks \/ StreamerEnds \/ QueueEnds \/ SinkEnds

Spec == Init /\ [][Next]_vars

-----------------------------------------------------------------------------
(* Properties. *)

\* The values the variables range over.
TypeOK ==
  /\ S!TypeOK
  /\ C!TypeOK
  /\ faults \in 0 .. MaxFaults
  /\ ticks \in 0 .. MaxTicks
  /\ tickOf \in [Streams -> 0 .. ticks]
  /\ overlaps \subseteq (1 .. ticks) \X (1 .. ticks)
  /\ origin \in Seq([tick : 1 .. ticks, row : S!Rows])
  /\ Len(origin) = Len(log)

\* In the storage the API answers from, the rows of one tick stand in the order
\* of the file and none of them twice, and rows of an earlier tick stand after
\* those of a later one only if their two streams overlapped.
FileOrder ==
  \A i, j \in DOMAIN storage : i < j =>
    LET a == origin[storage[i]]
        b == origin[storage[j]]
    IN  \/ a.tick < b.tick
        \/ a.tick = b.tick /\ a.row < b.row
        \/ <<b.tick, a.tick>> \in overlaps

\* Whatever ends and starts again meanwhile, the queue never hears of a message
\* that no sink has stored.
AckedWasStored == C!AckedIsStored

\* All streams of all sinks that follow on each other are one subscription of
\* one lossy broadcast, as if no process had ever ended: no restart makes a
\* message be stored twice or in another order.
SinksAreOneSubscription == C!StreamsAreOneSubscription

=============================================================================
