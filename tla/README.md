# gpu-tel in TLA+

A verification of the telemetry pipeline: streamer → message queue → sink. The
modules are written from the Go code under `src/`; `PROJECT.json` maps each
definition to its lines.

## The system

| part | code | state | operations |
|---|---|---|---|
| message store | `internal/mq/storage/message_store.go` | messages by id, index by topic, ack tracker (one consumer per message), table of subscriber channels, table of consumers; all under one mutex | Store, Get, Delete, GetMessages, Acknowledge, AddSubscriber, RemoveSubscriber, Subscribe (starts a goroutine that closes the channel when the context ends), Close |
| publisher service | `internal/mq/service/publisher_service.go` | none but the stream | Publish: receive, store, answer |
| subscriber service | `internal/mq/service/subscriber_service.go` | none but the streams | Subscribe: register, open a channel, forward until the context ends, unregister. Acknowledge |
| queue server | `internal/mq/transport/grpc/server.go`, `cmd/mq-service/main.go` | whether it serves | Run, Stop (GracefulStop, then Close of the store), main's signal |
| streamer | `internal/telemetry/streamer.go`, `cmd/telemetry-streamer/main.go` | rows of the file, index of the next | a tick: take a batch, open a Publish stream, send, close its side. Stop |
| collector | `internal/telemetry/collector.go` | the current Subscribe stream | subscribe, receive, store, acknowledge, subscribe anew on an error. Stop |
| memory storage | `internal/telemetry/memory_storage.go` | points and description by gpu | Store, GetGPUTelemetry, ListGPUs, Close |
| REST API | `internal/api/handlers.go`, `internal/api/server.go` | none | list gpus, telemetry of a gpu in a time range; Start, Shutdown |
| documentation | `swagger/index.html`, the routes in `internal/api/server.go` | none; a visit has some in the browser | redirect to the page, the page, its scripts, the description |
| sink | `cmd/sink/main.go` | where main is | starts the API server, then the collector; ends both on a signal (as meant) |

Streamer and collector are clients of the queue over gRPC streams. A Publish
handler calls Store; Store offers the message, without waiting, to the channel of
every Subscribe handler of the topic; such a handler sends it to its client. The
collector writes into the memory storage and then opens an Acknowledge stream.
The API reads the memory storage, in the collector's process. Nothing is
persisted: a restart of the queue or the sink begins empty, one of the streamer
with the first row of the file.

What is hard in it, and hard to test: channels that are sent on and closed by
three parties; a bounded channel that drops what does not fit; streams that end
in the middle of a handler; a consumer that connects again while its first handler
is still there; acknowledgements that fail or come late; stops that wait for
others; flow control with answers nobody reads; a process that ends and starts
again while the others still act on what it said. `PROJECT.json` lists the
hazards, each at its line, with the properties that would notice.

## The modules

`Broadcast` (abstract) – what the queue promises: one log; a subscription joins at
its end and is shown messages of its topic, in log order, each at most once, from
its time only, possibly not all. Nothing about buffers, locks or goroutines.

`MessageStore` – InMemoryStore. Every method holds the mutex, so each is one
action; Subscribe is two, the registration and its goroutine (`Cleanup`). Message
objects are positions in `heap`, so that an id can be stored twice, deleted, and
stored under another topic, as in the code, where the map holds pointers. A send
on a closed channel or a second close sets `panicked`. `received`, `openedAt`
and `closedAt` are history.

`MQServer` – extends `MessageStore` with the three handlers, a program counter per
stream, and the life of the process. A handler's step ends where it calls the
store, blocks, or can be overtaken. A receive from a closed channel yields the nil
message (0), which the handler forwards, as in the code. Store, Acknowledge and
the rest are the store's own actions; what the services never call (Delete,
GetMessages) does not occur.

`Streamer` – the tick loop against a gRPC connection: the request window and the
answer window of a stream are bounded, a stream may break at any time, the handler
at the other end is that of `MQServer` reduced to "store and answer", and goes on
with requests that had arrived when the stream broke. A row is its index; rows whose
value is NaN or infinite are `Unencodable`. Stop is two steps, as in the code: it closes
the channel `done` and then the connection, and the loop runs in between.

`Collector` – the subscription loop and Stop, over `Broadcast` as the queue: the
steps of the queue are that module's actions, which `MQServer` is shown to
implement, so the collector is checked against what the queue promises, not
against how it is built. A batch is one message: the server never puts more into
a response. `StreamsAreOneSubscription` says that nothing is stored twice or out of order,
and allows any loss; `TakenInTurn` says what may be lost of a stream: its end.

`Pipeline` – `Streamer` and `Collector` composed (both by INSTANCE, their variables
shared out and their program counters renamed), with the queue between them: the
step in which a Publish handler takes a request is the step in which the queue of
`Collector` is published to. To this it adds what neither part has: each of the
three processes may end in any state, by a signal or a crash, and is started
again. A streamer that ends leaves broken streams with requests the queue may still
read, and begins with row 1; a queue that ends breaks the streams of both sides,
loses what it held and every subscription; a sink that ends loses the storage and
what was in its hands, and may leave an acknowledgement on its way. `tickOf`,
`origin` and `overlaps` are history: they say from which tick and row a message
comes, and which streams overlapped in time.

`APIServer` – Start, its goroutine, and Shutdown of the API server.

`Sink` – main of the sink around `Collector` and `APIServer`, to its end: the wait for the
signal, Shutdown of the API server, Stop of the collector. `CollectorStartReturns` decides
whether main gets there; with the result that the code returns, it does not.

`DocsPage` – a visit of the documentation in a browser, over `APIServer`, whose process
ends and starts at any time. A visit is a chain of requests, each answered by the server
as it is by then: the path with or without a slash, the redirect, the page, the scripts
it names relative to its own path, and what the function assigned to `window.onload`
asks for. `swagger-initializer.js` assigns that too; it came with the distribution and
is served beside the page, which does not load it. The Explore box of the page's top
bar, in which a user may type the url of any description, is left out.

`QueryAPI` – MemoryStorage and the query handlers. For the telemetry of a gpu the
parameters become a range by the clock in one step, and the storage is read in another;
the list of gpus is one read (`List`). Every method of MemoryStorage holds its lock
throughout, so each is one step. sort.Slice is not stable, so any order of points of one
time may come out. `listed` and `fresh` are history: what was shown since the last Close.

`MessageStoreProofs`, `StoreDeliveryProofs`, `MQServerProofs`, `StreamerProofs`,
`CollectorProofs`, `QueryAPIProofs`, `PipelineProofs`, `DocsPageProofs` – the theorems
about the module each is named after, the second about `MessageStore` too. `MC*` –
instances for TLC (symmetry sets, sets a configuration cannot write).

Definitions marked "faulty variant" are used by no specification. Each is a
plausible mistake in the definition after it, and the property named with it in
`PROJECT.json` ("mutants") fails when it takes that definition's place.

## The runs

| run | question | bounds, and why they suffice |
|---|---|---|
| StoreDelivery | can channels panic, leak, misorder, lose early? is the store a lossy broadcast? | 2 subscriptions, 2 topics, channels of 2, 4 stores: a channel overflows, is drained and overflows again, and is closed by goroutine and by Close in every order. One id suffices, since delivery does not look at ids |
| StoreFetch | does the tracker outlive a message, does anything hide a new one? | 2 consumers, 2 ids and 2 topics, 3 stores: ids stored, deleted, stored again, under the other topic too, so that the index holds ids without a message |
| ServerStreams | what do clients see, what are publishers told, who is registered? | 2 Subscribe streams on 2 consumer ids that they may share, a publisher, channels of 1 |
| ServerLiveness | do streams and Stop end, and leave nothing? | 1 stream of each kind, 2 stores; no symmetry |
| StreamerRounds | is every row sent again and again, what does a broken stream lose, does the loop block? | 7 rows in batches of 4 (a short last batch), the row in the middle of the second cannot be encoded, 2 streams at once. The 4 rows of the first batch fill a request window of 2 and an answer window of 1 with one row in the handler's hands, which has to wait: the largest batch that ends. With an answer window of 0, or one row more, the run fails |
| CollectorStreams | is what is acknowledged stored, is it stored in order and once, what does a stream lose, does Stop end the loop, and nothing else? | 3 messages over 2 streams: one stream is left with messages unread and acknowledgements on their way while the next delivers |
| QueryAnswers | do the maps of the storage agree, has a listed gpu something to show, does a repeated query show everything again? | 2 points of 2 gpus, times 0 to 2, an hour of 1 tick, so that the default range can leave a point out, and the clock can move on between two queries, and between the two steps of one |
| PipelineRestarts | in which order do rows of the file reach the storage, what do restarts repeat, lose or confirm wrongly? | 3 rows in batches of 2 (a second, short batch that may overtake the first), 2 streams, 2 ticks, 3 messages, 2 Subscribe streams, 1 fault: one process ends, or one stream breaks, in any state of the others |
| DocsVisits | does a visit end, and when does it show this API? | 1 tab: tabs share nothing but the server; visits of both paths, repeated; files present or not |
| ServerReconnect, ServerExit, SinkShutdown | differences between the code and what is said of it, below | the smallest instance that shows it |

`MaxStores`, `MaxMessages`, `MaxStreams` and `MaxPoints` bound the behaviours;
`MaxTime` bounds the clock; `Streams` the streams of the streamer open at a time;
`MaxTicks` its ticks over all its restarts, and `MaxFaults` the processes that end
and the streams that break. With one fault a restart meets every state the other
processes reach without one; two faults in one behaviour are not checked; the theorems
about `Pipeline` hold for any number.
The channel capacity is 100 in the code and 1 or 2 in the runs; the theorems hold
for any. Deadlock is not checked where the program may stop: the server process
ends, the collector and the streamer return. Symmetry is used in safety runs only.

### Fairness

Go schedules every goroutine that can run: weak fairness for a handler's steps
once its context is done, for the cleanup goroutine, for the end of Stop, for
the collector's loop, the streamer's sends and the handler that reads them. `select`
takes a ready case at random, so the case for a done context is not passed over
for ever: strong fairness for `ReturnSubscribe` and for the streamer's `Return`.
Nothing is assumed of a client: it need not read, write, acknowledge or leave.
The collector's queue has none but this: weak fairness of the loop includes
`Connect`, so one of its endless attempts to subscribe succeeds in the end
(`Reconnects` needs that, `StopReturns` does not). In `DocsPage` the browser goes on
with a visit; the server need not come up or stay. `PipelineRestarts` checks safety
only. `StopCompletes` has as its
premise that the clients have left, which is what GracefulStop waits for.

`BatchEnds` (streamer) depends on the windows: those of the run, with the row in the
handler's hands, hold exactly its larger batch (`BatchThatFitsIsNotStuck` proves the part
about blocking for all windows). With a batch larger than that, handler and streamer
block each other for ever, answers being asked for and never read; the default
batch of 100 rows of the test data stays well inside gRPC's 64 KB windows for
the answers, and requests are read as long as answers fit.

### What does not hold

Each has a run whose counterexample is a behaviour of the code.

- **ServerReconnect**: a consumer that connects again is unregistered by the
  deferred call of its first handler (`subscriber_service.go:89`).
- **ServerExit**: main of the queue returns while Stop runs (`main.go:65`).
- **SinkShutdown**: a signal ends the sink by `logger.Fatal`, before anything is
  shut down, because Collector.Start returns only then and always with an error
  (`cmd/sink/main.go:71`). The trace is that: Collector.Start is called, the signal comes,
  it returns, main ends. Were the result nil, main would go on to Shutdown and Stop, and
  the property hold. The exit by the API server's goroutine, when it cannot listen, is
  another (`main.go:64`) and is not counted.

Seen while modelling, too direct to need a run:

- the tracker keeps one consumer per message, so a consumer is handed a message it
  acknowledged once another consumer has fetched it (`message_store.go:224`; `:204`
  says otherwise). No service calls GetMessages;
- a message that was confirmed to its publisher is dropped for a connected
  subscriber whose channel is full (`message_store.go:95`; `README.md:9` says
  reliable). `NoEarlyLoss` says how much is not lost;
- the documentation is served from `/app`, where only the image has it: a sink run
  from the source tree answers 404 (`server.go:108`, `:112`; `cmd/sink/README.md:56`
  speaks of running locally). In `DocsPage` that is `installed = FALSE`;
- the mains call `config.Load("")`, so no file but those it looks for itself is read;
- acknowledging a batch closes its stream after a hundred messages and goes on using
  it (`collector.go:310`); the server sends batches of one;
- an id that is stored again under another topic stays in the index of the first
  (`message_store.go:87`; `cmd/mq-service/readme.md:57` speaks of partitioning);
- `batch_size` of the streamer is not validated (`internal/config/config.go`): with 0 every
  batch is empty and nothing is ever sent, with a negative one the first tick panics when
  it makes the batch (`streamer.go:201`). The modules have the batch sizes that work;
- `max_in_flight` is computed and never used (`subscriber_service.go:71`;
  `mq.proto:41`);
- the streamer's main asks for signals after a call that never returns
  (`cmd/telemetry-streamer/main.go:55`; its `readme.md:10`);
- Server.Start of the API has a default branch and so never waits
  (`internal/api/server.go:66`, `:70`);
- `end_time` alone, older than an hour, is refused with 400 (`handlers.go:145`;
  `api/openapi.yaml:41`), and an unknown gpu gets 200, not the documented 404
  (`openapi.yaml:81`).

## The proofs

Every theorem is of the form `Spec => []Inv` or `Spec => [][A]_vars`, a refinement, or a
liveness property from the fairness of the specification, for every value of the
constants. What is assumed of those is stated once, by name, in the module that declares
them: values that stand for "none" are not of the sets they stand beside; capacities,
which the code makes positive, and the batch size of the streamer, which it takes as
configured, are positive numbers. Bounds (`MaxStores`, `MaxFaults` and the like) are
constants too, so a theorem holds for behaviours of any length.

**The store** (`ConstantsAssumption`). `MessageStoreProofs`: type correctness,
`NoPanic`, `Registry`, `TrackedIsStored`, `Indexed` (every message is in the index of its
topic; not the converse, which the code does not keep), `NewIsFetchable`. `NoPanic` is not
inductive: that no registered channel is closed needs to know that a channel is
registered only under the topic its goroutine looks in, that an open channel has
a goroutine waiting, and that an unmade one is registered nowhere. `ChannelInv`
says these together and is preserved by every action: `Cleanup` closes only what
it found in the table and takes it out in the same step, `Close` empties the table
it closed.

`StoreDeliveryProofs`: `DeliveryOrder`, `NoEarlyLoss` and that the store implements
`Broadcast`. The order needs a bound on what is in a queue: every position handed
over or buffered is at most the length of `heap`, so that the next one is larger.
For the loss, the invariant is about counts: what a channel was not given, it
missed when it already held its capacity of due messages, which are older
than the one missed. For the refinement every action is a step of `Broadcast` or
leaves its five variables alone: Store publishes, Subscribe joins, Receive shows,
Cleanup and Close leave.

**The server** (the same assumption). `ServerUsesStore`: every step of a handler or of
Stop is, for the store's variables, a call of the store or a stutter, so every behaviour
of the server is one of the store and the store's theorems carry over.
`StoreInsideServer` says which. `ServerTypeCorrect` adds what the handlers hold:
positions of `heap`. Then `ConfirmedWasStored`, from a message being in the store while
its handler has yet to answer; `EveryEntryHasOwner`, which is inductive;
`StoppedStaysEmpty`, for which the invariant says that a stopped server stays drained,
with nobody to put anything in; `ClientsGetNoNil`, since a channel is closed under a
handler only once its context is done (`ClosedIsDone`); and `ClientsSeeABroadcast`, the
second refinement, from `SentInv`: what a client was sent, what its handler holds and
what is buffered follow on each other in the order of the store. `StreamsEnd` is
liveness, see below.

**The streamer** (`StreamerAssumption`). `BatchCarried` and `LossOfTail` from `SendInv`:
what the handler took, what is on the wire and what the streamer has left follow on each
other in the order of the file (`SendOrder`); with a row, every row before it that can
be encoded was sent (`SentRows`); and while the stream is not broken, what was not sent
is what is left (`RestIsBatch`). Neither property is inductive: the handler goes on
taking rows from the wire of a broken stream, of which `BatchIsCarried` does not speak,
and `LossIsTail` not of its wire. `BatchThatFitsIsNotStuck` counts (`CountInv`): nobody
reads answers, so there is one on the way for every row handled; rows handled, on the
wire and left make up at most a batch. When streamer and handler wait for each other,
the request window is full, one answer more than the answer window holds is owed, and a
row is left: more rows than the two windows and one. With one row more, all of them
encodable, TLC finds the standoff: the bound is exact.

**The collector** (`CollectorAssumption`). `AckedWasStored` and `ClosedIsEmpty` are
nearly inductive. For `NoneLeftOut` the invariant divides what was sent on the current
stream into what the loop has taken, the last of it in its hands, and a beginning of the
rest, which is on the wire (`TurnInv`). That all its streams together are one
subscription (`OneSubscription`) is not: the storage is in log order only because the
message in the loop's hands comes after everything stored (`HandInv`), what the next
stream shows comes after both (`NextInv`), a stream shows nothing from before it joined
(`StreamInv`), and it joined at the end of the log after all that earlier streams showed
(`JoinInv`). `LoopEnds` and `BrokenIsLeft` each give the loop a number that every step
of its own lowers and no other step changes: `StepsToEnd`, at most five, once the
context is done, and `StepsToLeave`, four for each message that had arrived and at most
four more, on a broken stream. So no failing storage or acknowledgement keeps the loop
on either.

**The storage and the queries** (`QueryAssumption`). `MapsCorrect` is inductive with the
types, for batches of any length. `Extend` appends the points of a gpu in the order of
the batch, as `InTurn` lists them; that there is such a list for every set of positions
is proved by the least counterexample (`AscendingExists`): a smallest interval with a
subset that cannot be listed has its last number in that subset, the rest of which can
be listed. `RepeatShows` is an action property: it needs that the range of a request is
what was given or, by default, what the clock said when it was parsed, which has moved
since (`RangeInv`); and that what was shown is still there, since batches only append,
and not outside what was given nor later than the next request will be parsed
(`AnswerInv`). `ListedHasPoints` follows from `MapsCorrect` and from points staying
until Close (`ListInv`). That an answer is the *whole* range rests on finite sets: a
list without repetition, as long as the set it is drawn from, leaves nothing out.

**The pipeline** (`PipelineAssumption`). `AcksSurviveRestarts` and
`SinksSeeOneBroadcast`: the collector's invariant survives the end of a queue and of a
sink, which it knows only as streams that end, a storage that empties and a loop that
starts over. `BatchesSurviveRestarts` and `RestartsLoseTails` do the same for the
streamer: to its invariant the end of a process is streams that break and a batch that
is given up. `RowsInFileOrder` needs more: the rows a stream carries ascend
(`RowOrder`), a tick opens one stream and streams in use together have overlapped
(`TickOrder`), and what a stream still has to carry comes after whatever was published
of its tick (`OriginOrder`), so that the log is in the wanted order (`LogOrder`); the
storage is an ascending part of the log (`StorageInv`). `BatchesInTheLog` joins the two
ends: what the log holds of a tick is what the handler of its stream took, no other
stream having had that tick, so that it is a beginning of the batch, and all of it once
a stream that did not break is empty. `TypeCorrect` follows from the invariants of the
parts and the types of the history, which needs that a stream in use, and the step
before one is opened, belong to a tick that was counted (`HistoryInv`).

**The documentation** (nothing assumed of the tabs). `VisitsAreFinite`: `StepsLeft`, at
most seven, falls with every step of a visit, because the redirect leads to the path
that is not redirected and a script that ran is off the list. `UndisturbedNeverFails`:
from the page on, `OnTrack` says what a visit has defined and assigned by each place,
and so what it will show.

**Liveness**: `StreamsEnd`, `StopComesBack`, `VisitsComeToAnEnd` and
`UndisturbedIsShown` prove `CancelledStreamEnds`, `StopReturns` (collector), `VisitEnds`
and `UndisturbedVisitShows` from the fairness their specifications state. The argument
is the temporal one: a number that is bounded by a constant falls with every step of the
fair action and does not rise with another, or, for the server, the places of a handler
with a done context lead to each other and, by the strong fairness of `ReturnSubscribe`,
out. Each theorem has one hypothesis beside the specification, `CanGoOn` or
`StreamsCanGoOn`: always, where the guards of the fair action hold (the loop has not
ended, the handler is at `select`), the action is `ENABLED`. The prover has no rules for
`ENABLED`. This is not a condition on the program: each such action is its guards and
assignments, which leave no case out. TLC, given the hypothesis as an INVARIANT of
CollectorStreams, ServerLiveness and DocsVisits, finds it to hold in every state: there
it excludes no behaviour.

**Model-checked only**: `EveryRowComesUp`, `BatchEnds` and `StopReturns` of the
streamer, `StopCompletes` and `Reconnects`. In each what must happen takes a number of
steps that no constant of the proof bounds (the rows of a batch, the rounds of the file,
all streams of the server, the messages on a wire), so that the argument is an induction
within a temporal formula, and the library's induction theorems cannot be used. What is
proved of them is the part without time: no standoff (`BatchThatFitsIsNotStuck`), each
stream ends (`StreamsEnd`), a broken stream is left in so many steps (`BrokenIsLeft`).
That the actions under fairness are enabled where their guards hold is model-checked
too. And the three disagreements above are counterexamples. `Sink` and `APIServer` have
no theorems: what is checked of them is a disagreement.

## Not modelled

Configuration (read once, before anything runs), generated protocol code and the mock,
logging and metrics, charts and images, the scripts and style sheets of the Swagger UI
distribution beyond the globals they define, the OpenAPI description. Of messages and
points, fields that no branch looks at. HealthCheck, Get and the health endpoint, which
change nothing. What grpc-go does inside is taken from how the code uses it.

## Plan

1. Next in the model: the acknowledging of batches of more than one message, should
   the server ever send them; two faults in one behaviour of `Pipeline`, with a
   coarser streamer to make room; what becomes of a row in the answer of the API,
   by putting `QueryAPI` behind `Pipeline`.
2. Next in the proofs: what `APIServer`'s Start returns, inside `DocsPage` and `Sink`; with
   a prover that does induction in temporal formulas, the liveness left to TLC.
