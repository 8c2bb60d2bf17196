------------------------------ MODULE Streamer ------------------------------
(***************************************************************************)
(* The telemetry streamer, internal/telemetry/streamer.go: on every tick   *)
(* it takes the next rows of the metrics file, wrapping around at the end, *)
(* opens a Publish stream, sends the rows on it and closes its side.  It   *)
(* reads no answer.                                                        *)
(*                                                                         *)
(* Start, collectAndProcess and the sends are one goroutine.  What it runs *)
(* against is the gRPC connection and, at its other end, a Publish handler *)
(* per stream: a window bounds the requests on their way and another the   *)
(* answers nobody reads, and a stream may break at any time.               *)
(***************************************************************************)
EXTENDS Naturals, Sequences, FiniteSets

CONSTANTS
  NumRows,       \* rows of the metrics file
  BatchSize,     \* rows taken on one tick
  Unencodable,   \* rows whose value json.Marshal refuses, as NaN
  Streams,       \* bound: Publish streams open at a time
  RequestWindow, \* requests a stream holds before Send blocks
  AnswerWindow   \* answers a stream holds before the handler's Send blocks

Rows == 1 .. NumRows

ASSUME StreamerAssumption ==
  /\ NumRows \in Nat
  /\ BatchSize \in Nat
  /\ Unencodable \subseteq Rows
  /\ RequestWindow \in Nat \ {0}
  /\ AnswerWindow \in Nat
  /\ 0 \notin Streams

VARIABLES
  loaded,     \* whether metrics is not nil
  currentIdx, \* rows taken since the last start over
  pc,         \* "wait" in Start's select, "open", "send", "returned"
  batch,      \* rows of the batch still to be sent
  stream,     \* the stream of the batch, 0 if none
  stopped,    \* Stop: "no", "done" once it closed the channel, "closed" once it
              \* closed the connection
  \* Streams, by number:
  state,      \* "free", "open", "closing" once CloseSend was called, "broken"
  rows,       \* history: the batch a stream was opened for
  wire,       \* requests on their way to the handler
  handled,    \* rows the handler has stored
  answers     \* answers on their way back, none of which is read

clientVars == <<loaded, currentIdx, pc, batch, stream, stopped>>
streamVars == <<state, rows, wire, handled, answers>>
vars == <<clientVars, streamVars>>

Init ==
  /\ loaded = FALSE
  /\ currentIdx = 0
  /\ pc = "wait"
  /\ batch = <<>>
  /\ stream = 0
  /\ stopped = "no"
  /\ state = [k \in Streams |-> "free"]
  /\ rows = [k \in Streams |-> <<>>]
  /\ wire = [k \in Streams |-> <<>>]
  /\ handled = [k \in Streams |-> <<>>]
  /\ answers = [k \in Streams |-> 0]

-----------------------------------------------------------------------------
(* The streamer. *)

\* The rows from index i, counted from 0, up to but not including index j.
Slice(i, j) == [n \in 1 .. j - i |-> i + n]

\* Faulty variants: the end of the file is never noticed; the last batch of the
\* file is not cut short; a batch has one row too many.
StartLate == IF currentIdx > NumRows THEN 0 ELSE currentIdx
EndPast(start) == start + BatchSize
EndOneMore(start) ==
  IF start + BatchSize >= NumRows THEN NumRows ELSE start + BatchSize + 1

\* Where the next batch starts and ends.
StartIdx == IF currentIdx >= NumRows THEN 0 ELSE currentIdx
EndIdx(start) ==
  IF start + BatchSize > NumRows THEN NumRows ELSE start + BatchSize

\* collectAndProcess up to the copy of the batch.  A file without rows leaves
\* metrics nil, to be read again on the next tick.
TakeBatch ==
  /\ pc = "wait"
  /\ loaded' = (NumRows > 0)
  /\ batch' = Slice(StartIdx, EndIdx(StartIdx))
  /\ currentIdx' = EndIdx(StartIdx)
  /\ pc' = "open"
  /\ UNCHANGED <<stream, stopped, streamVars>>

\* A tick on which the file cannot be read changes nothing.
LoadFails ==
  /\ pc = "wait"
  /\ ~loaded
  /\ UNCHANGED vars

OpenStream(k) ==
  /\ pc = "open"
  /\ stopped # "closed"
  /\ state[k] = "free"
  /\ pc' = "send"
  /\ stream' = k
  /\ state' = [state EXCEPT ![k] = "open"]
  /\ rows' = [rows EXCEPT ![k] = batch]
  /\ UNCHANGED <<loaded, currentIdx, batch, stopped, wire, handled, answers>>

\* The index is past the batch already: its rows wait for the next round.
OpenFails ==
  /\ pc = "open"
  /\ pc' = "wait"
  /\ batch' = <<>>
  /\ UNCHANGED <<loaded, currentIdx, stream, stopped, streamVars>>

\* Faulty variants: a row that was sent, or could not be sent, is tried again;
\* the rest of the batch is given up with the first row that cannot be encoded.
RetryRow == batch
GiveUpBatch == <<>>

\* The rows left once one was sent, failed to be sent, or was not encoded.
SentRow == Tail(batch)
LeaveOutRow == Tail(batch)
SkipRow == Tail(batch)

SendRow ==
  /\ pc = "send"
  /\ batch # <<>>
  /\ Head(batch) \notin Unencodable
  /\ state[stream] = "open"
  /\ Len(wire[stream]) < RequestWindow
  /\ wire' = [wire EXCEPT ![stream] = Append(@, Head(batch))]
  /\ batch' = SentRow
  /\ UNCHANGED <<loaded, currentIdx, pc, stream, stopped, state, rows, handled,
                 answers>>

\* json.Marshal fails.
SkipUnencodable ==
  /\ pc = "send"
  /\ batch # <<>>
  /\ Head(batch) \in Unencodable
  /\ batch' = SkipRow
  /\ UNCHANGED <<loaded, currentIdx, pc, stream, stopped, streamVars>>

\* stream.Send fails.
SendFails ==
  /\ pc = "send"
  /\ batch # <<>>
  /\ Head(batch) \notin Unencodable
  /\ state[stream] = "broken"
  /\ batch' = LeaveOutRow
  /\ UNCHANGED <<loaded, currentIdx, pc, stream, stopped, streamVars>>

CloseSend ==
  /\ pc = "send"
  /\ batch = <<>>
  /\ pc' = "wait"
  /\ stream' = 0
  /\ state' = [state EXCEPT ![stream] = IF @ = "open" THEN "closing" ELSE @]
  /\ UNCHANGED <<loaded, currentIdx, batch, stopped, rows, wire, handled, answers>>

\* Start returns from its select.
Return ==
  /\ pc = "wait"
  /\ stopped # "no"
  /\ pc' = "returned"
  /\ UNCHANGED <<loaded, currentIdx, batch, stream, stopped, streamVars>>

\* The connection ends, and every stream with it.  Requests that have arrived, the
\* first ones of those on their way, are still there for the handler to read.
ConnectionEnds ==
  /\ state' = [k \in Streams |-> IF state[k] = "free" THEN "free" ELSE "broken"]
  /\ \E arrived \in [Streams -> 0 .. RequestWindow] :
       /\ \A k \in Streams : arrived[k] <= Len(wire[k])
       /\ wire' = [k \in Streams |-> SubSeq(wire[k], 1, arrived[k])]
  /\ UNCHANGED <<rows, handled, answers>>

\* Stop, called by another goroutine: close(done), then conn.Close.
Stop ==
  /\ stopped = "no"
  /\ stopped' = "done"
  /\ UNCHANGED <<loaded, currentIdx, pc, batch, stream, streamVars>>

CloseConn ==
  /\ stopped = "done"
  /\ stopped' = "closed"
  /\ ConnectionEnds
  /\ UNCHANGED <<loaded, currentIdx, pc, batch, stream>>

-----------------------------------------------------------------------------
(* The connection and the Publish handlers. *)

\* The handler stores a request and sends the answer; with no room for it the
\* handler blocks, and reads no further request.  It goes on with what arrived
\* before a break, which it may not notice at once.
Handle(k) ==
  /\ wire[k] # <<>>
  /\ answers[k] <= AnswerWindow
  /\ handled' = [handled EXCEPT ![k] = Append(@, Head(wire[k]))]
  /\ wire' = [wire EXCEPT ![k] = Tail(@)]
  /\ answers' = [answers EXCEPT ![k] = @ + 1]
  /\ UNCHANGED <<clientVars, state, rows>>

\* One stream breaks.
Break(k) ==
  /\ state[k] \in {"open", "closing"}
  /\ state' = [state EXCEPT ![k] = "broken"]
  /\ \E arrived \in 0 .. Len(wire[k]) :
       wire' = [wire EXCEPT ![k] = SubSeq(@, 1, arrived)]
  /\ UNCHANGED <<clientVars, rows, handled, answers>>

\* The stream is over at both ends, after a break whatever the handler had yet to
\* read; its number is used again.
Free(k) ==
  /\ \/ state[k] = "closing" /\ wire[k] = <<>>
     \/ state[k] = "broken" /\ stream # k
  /\ state' = [state EXCEPT ![k] = "free"]
  /\ rows' = [rows EXCEPT ![k] = <<>>]
  /\ handled' = [handled EXCEPT ![k] = <<>>]
  /\ wire' = [wire EXCEPT ![k] = <<>>]
  /\ answers' = [answers EXCEPT ![k] = 0]
  /\ UNCHANGED clientVars

-----------------------------------------------------------------------------

SendStep == SendRow \/ SkipUnencodable \/ SendFails \/ CloseSend

Next ==
  \/ TakeBatch \/ LoadFails
  \/ \E k \in Streams : OpenStream(k)
  \/ OpenFails \/ SendStep \/ Return \/ Stop \/ CloseConn
  \/ \E k \in Streams : Handle(k) \/ Break(k) \/ Free(k)

Spec == Init /\ [][Next]_vars

\* The ticker goes on ticking, opening a stream ends one way or the other, a
\* send that can proceed does, the handler reads what has arrived, and a Stop
\* that was called goes on.  The select of Start picks a ready case at random:
\* strong fairness for the one that returns.
Fairness ==
  /\ WF_vars(TakeBatch)
  /\ WF_vars(OpenFails \/ \E k \in Streams : OpenStream(k))
  /\ WF_vars(SendStep)
  /\ SF_vars(Return)
  /\ WF_vars(CloseConn)
  /\ \A k \in Streams : WF_vars(Handle(k))

FairSpec == Spec /\ Fairness

-----------------------------------------------------------------------------
(* Properties. *)

\* The values the variables range over.
TypeOK ==
  /\ loaded \in BOOLEAN
  /\ currentIdx \in 0 .. NumRows
  /\ pc \in {"wait", "open", "send", "returned"}
  /\ batch \in Seq(Rows)
  /\ stream \in Streams \cup {0}
  /\ stopped \in {"no", "done", "closed"}
  /\ state \in [Streams -> {"free", "open", "closing", "broken"}]
  /\ rows \in [Streams -> Seq(Rows)]
  /\ wire \in [Streams -> Seq(Rows)]
  /\ handled \in [Streams -> Seq(Rows)]
  /\ answers \in [Streams -> Nat]

RowsIn(q) == {q[n] : n \in DOMAIN q}
Encodable(q) == RowsIn(q) \ Unencodable
InOrder(q) == \A i, j \in DOMAIN q : i < j => q[i] < q[j]

\* What a stream that did not break has carried, and what its streamer has yet
\* to send, are the encodable rows of its batch, each once and in their order:
\* rows that cannot be encoded cost no other row.
BatchIsCarried ==
  \A k \in Streams : state[k] \in {"open", "closing"} =>
    LET all == handled[k] \o wire[k] \o (IF stream = k THEN batch ELSE <<>>)
    IN  InOrder(all) /\ Encodable(all) = Encodable(rows[k])

\* A stream that breaks loses the end of its batch and nothing before it: with a
\* row, every encodable row before it was handled, each once and in their order.
LossIsTail ==
  \A k \in Streams :
    /\ InOrder(handled[k])
    /\ RowsIn(handled[k]) \subseteq Encodable(rows[k])
    /\ \A r \in Encodable(rows[k]), h \in RowsIn(handled[k]) :
         r < h => r \in RowsIn(handled[k])

\* Every row comes up again and again, as long as the streamer is not stopped:
\* a failed batch delays its rows by one round of the file.
EveryRowComesUp ==
  \A r \in Rows :
    []<>(stopped # "no" \/ \E n \in DOMAIN batch : batch[n] = r)

\* A batch comes to an end, whatever becomes of its stream, if its rows fit into
\* the two windows: the handler blocks on the answers that nobody reads, and reads
\* no further request, with the last of the batch on its way.
BatchEnds == pc = "send" ~> pc = "wait"

\* After Stop, Start returns, also from the middle of a batch.
StopReturns == stopped # "no" ~> pc = "returned"

=============================================================================
