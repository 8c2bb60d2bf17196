------------------------------ MODULE MQServer ------------------------------
(***************************************************************************)
(* The message queue process: the handlers of the publisher and subscriber *)
(* services (internal/mq/service) run over one InMemoryStore by the gRPC   *)
(* server (internal/mq/transport/grpc/server.go) that cmd/mq-service       *)
(* starts and stops.                                                       *)
(*                                                                         *)
(* Each stream is served by a goroutine of its own; a handler's step ends  *)
(* where it calls the store, blocks, or can be overtaken by another.  A    *)
(* subscription of MessageStore is one Subscribe stream: its context is    *)
(* the stream's, its caller is the handler.                                *)
(***************************************************************************)
EXTENDS MessageStore

CONSTANTS
  Pubs,  \* Publish streams
  Acks   \* Acknowledge streams

VARIABLES
  phase,    \* of the process: "serving", "signalled", "draining", "stopped",
            \* "exited"
  subPc,    \* where the Subscribe handler of a stream is
  consumer, \* the consumer id its handler registered
  wanted,   \* the topic its client asked for
  hand,     \* the message its handler is sending, 0 for nil
  sent,     \* history: what the handler sent while its client was there
  pubPc,    \* where the Publish handler of a stream is
  pending,  \* the message whose acknowledgement it is about to send
  confirmed,\* history: messages whose publisher was sent a response
  ackPc     \* where the Acknowledge handler of a stream is

subVars == <<subPc, consumer, wanted, hand, sent>>
pubVars == <<pubPc, pending, confirmed>>
serverVars == <<phase, subVars, pubVars, ackPc>>
allVars == <<vars, serverVars>>

\* Handlers between the accepting of a stream and their return.
Ongoing(pc) == pc \notin {"idle", "returned"}
Delivering(s) == subPc[s] \in {"select", "send"}

ServerInit ==
  /\ Init
  /\ phase = "serving"
  /\ subPc = [s \in Subs |-> "idle"]
  /\ consumer = [s \in Subs |-> NoConsumer]
  /\ wanted = [s \in Subs |-> NoTopic]
  /\ hand = [s \in Subs |-> 0]
  /\ sent = [s \in Subs |-> <<>>]
  /\ pubPc = [p \in Pubs |-> "idle"]
  /\ pending = [p \in Pubs |-> 0]
  /\ confirmed = {}
  /\ ackPc = [a \in Acks |-> "idle"]

\* The server takes new streams until GracefulStop closes its listener.
Accepting == phase \in {"serving", "signalled"}

-----------------------------------------------------------------------------
(* SubscriberService.Subscribe *)

OpenSubscribe(s) ==
  /\ Accepting
  /\ subPc[s] = "idle"
  /\ subPc' = [subPc EXCEPT ![s] = "receive"]
  /\ UNCHANGED <<vars, phase, consumer, wanted, hand, sent, pubVars, ackPc>>

\* No first request, or one without a topic.
RejectSubscribe(s) ==
  /\ subPc[s] = "receive"
  /\ subPc' = [subPc EXCEPT ![s] = "returned"]
  /\ UNCHANGED <<vars, phase, consumer, wanted, hand, sent, pubVars, ackPc>>

\* The consumer id is the client's, or a uuid the handler draws: then no other
\* stream ever had it.
Register(s, t, c) ==
  /\ subPc[s] = "receive"
  /\ subPc' = [subPc EXCEPT ![s] = "registered"]
  /\ consumer' = [consumer EXCEPT ![s] = c]
  /\ wanted' = [wanted EXCEPT ![s] = t]
  /\ AddSubscriber(c, t)
  /\ UNCHANGED <<phase, hand, sent, pubVars, ackPc>>

OpenChannel(s) ==
  /\ subPc[s] = "registered"
  /\ subPc' = [subPc EXCEPT ![s] = "select"]
  /\ Subscribe(s, wanted[s])
  /\ UNCHANGED <<phase, consumer, wanted, hand, sent, pubVars, ackPc>>

\* select, first case.  A closed and empty channel yields nil, and the handler
\* does not look at the second result of the receive.
TakeMessage(s) ==
  /\ subPc[s] = "select"
  /\ subPc' = [subPc EXCEPT ![s] = "send"]
  /\ \/ /\ Receive(s)
        /\ hand' = [hand EXCEPT ![s] = Head(chanBuf[s])]
     \/ /\ chanBuf[s] = <<>>
        /\ chanState[s] = "closed"
        /\ hand' = [hand EXCEPT ![s] = 0]
        /\ UNCHANGED vars
  /\ UNCHANGED <<phase, consumer, wanted, sent, pubVars, ackPc>>

\* stream.Send blocks while the client does not read.  An error, certain once
\* the stream's context is done, is logged and the message dropped.
SendMessage(s) ==
  /\ subPc[s] = "send"
  /\ subPc' = [subPc EXCEPT ![s] = "select"]
  /\ \/ /\ ~ctxDone[s]
        /\ sent' = [sent EXCEPT ![s] = Append(@, hand[s])]
     \/ UNCHANGED sent
  /\ UNCHANGED <<vars, phase, consumer, wanted, hand, pubVars, ackPc>>

\* Faulty variant: the deferred RemoveSubscriber is missing.
LeaveRegistered(s) == UNCHANGED vars

\* The deferred call.
Unregister(s) == RemoveSubscriber(consumer[s])

\* Faulty variant: the handler looks at its context only when its channel is
\* empty.
ReturnWhenDrained(s) ==
  /\ subPc[s] = "select"
  /\ ctxDone[s]
  /\ chanBuf[s] = <<>>
  /\ chanState[s] = "open"
  /\ subPc' = [subPc EXCEPT ![s] = "returned"]
  /\ Unregister(s)
  /\ UNCHANGED <<phase, consumer, wanted, hand, sent, pubVars, ackPc>>

\* select, second case.
ReturnSubscribe(s) ==
  /\ subPc[s] = "select"
  /\ ctxDone[s]
  /\ subPc' = [subPc EXCEPT ![s] = "returned"]
  /\ Unregister(s)
  /\ UNCHANGED <<phase, consumer, wanted, hand, sent, pubVars, ackPc>>

\* The client cancels, ends its connection or is lost.
Disconnect(s) ==
  /\ Ongoing(subPc[s])
  /\ Cancel(s)
  /\ UNCHANGED serverVars

\* The store's goroutine, which outlives the handler.
CleanupStream(s) ==
  /\ Cleanup(s)
  /\ UNCHANGED serverVars

-----------------------------------------------------------------------------
(* PublisherService.Publish *)

OpenPublish(p) ==
  /\ Accepting
  /\ pubPc[p] = "idle"
  /\ pubPc' = [pubPc EXCEPT ![p] = "receive"]
  /\ UNCHANGED <<vars, phase, subVars, pending, confirmed, ackPc>>

\* Faulty variant: the answer is about the message before.
MessageBefore == Len(heap)

\* The object Store is about to add.
NewMessage == Len(heap) + 1

\* A request with a message, which gets an id if it has none; the answer, if
\* the client asked for one, is a later step.
ReceivePublish(p) ==
  /\ pubPc[p] = "receive"
  /\ \/ \E m \in Message : Store(m)
     \/ \E t \in Topics : StoreUnnamed(t)
  /\ \E wait \in BOOLEAN :
       /\ pubPc' = [pubPc EXCEPT ![p] = IF wait THEN "respond" ELSE "receive"]
       /\ pending' = [pending EXCEPT ![p] = IF wait THEN NewMessage ELSE 0]
  /\ UNCHANGED <<phase, subVars, confirmed, ackPc>>

RespondPublish(p) ==
  /\ pubPc[p] = "respond"
  /\ pubPc' = [pubPc EXCEPT ![p] = "receive"]
  /\ pending' = [pending EXCEPT ![p] = 0]
  /\ confirmed' = confirmed \cup {pending[p]}
  /\ UNCHANGED <<vars, phase, subVars, ackPc>>

\* End of the stream, a failed receive, a request without a message; or, when
\* responding, a timeout that is over before it starts or a failed send.
ReturnPublish(p) ==
  /\ Ongoing(pubPc[p])
  /\ pubPc' = [pubPc EXCEPT ![p] = "returned"]
  /\ pending' = [pending EXCEPT ![p] = 0]
  /\ UNCHANGED <<vars, phase, subVars, confirmed, ackPc>>

-----------------------------------------------------------------------------
(* SubscriberService.Acknowledge *)

OpenAcknowledge(a) ==
  /\ Accepting
  /\ ackPc[a] = "idle"
  /\ ackPc' = [ackPc EXCEPT ![a] = "receive"]
  /\ UNCHANGED <<vars, phase, subVars, pubVars>>

\* A request with both ids.  The handler returns an error for an unknown
\* message, and what the client sends on this stream after it is not read.
ReceiveAcknowledge(a, i, c) ==
  /\ ackPc[a] = "receive"
  /\ \/ /\ Acknowledge(i, c)
        /\ UNCHANGED ackPc
     \/ /\ ~CanAcknowledge(i)
        /\ ackPc' = [ackPc EXCEPT ![a] = "returned"]
        /\ UNCHANGED vars
  /\ UNCHANGED <<phase, subVars, pubVars>>

\* End of the stream, a failed receive, or a request without one of the ids.
ReturnAcknowledge(a) ==
  /\ ackPc[a] = "receive"
  /\ ackPc' = [ackPc EXCEPT ![a] = "returned"]
  /\ UNCHANGED <<vars, phase, subVars, pubVars>>

-----------------------------------------------------------------------------
(* cmd/mq-service and Server.Run, Server.Stop *)

\* Serve returns an error, as when the port is taken: Run returns it, and main
\* exits at once.
ServeFails ==
  /\ phase = "serving"
  /\ phase' = "exited"
  /\ UNCHANGED <<vars, subVars, pubVars, ackPc>>

\* A signal reaches main, which cancels the context of Run.
Signal ==
  /\ phase = "serving"
  /\ phase' = "signalled"
  /\ UNCHANGED <<vars, subVars, pubVars, ackPc>>

\* Run sees the cancelled context and calls Stop, which calls GracefulStop.
BeginStop ==
  /\ phase = "signalled"
  /\ phase' = "draining"
  /\ UNCHANGED <<vars, subVars, pubVars, ackPc>>

\* Faulty variant: the store is closed before GracefulStop.
NotWaited == TRUE

\* GracefulStop returns when every handler has.
Drained ==
  /\ \A s \in Subs : ~Ongoing(subPc[s])
  /\ \A p \in Pubs : ~Ongoing(pubPc[p])
  /\ \A a \in Acks : ~Ongoing(ackPc[a])

FinishStop ==
  /\ phase = "draining"
  /\ Drained
  /\ phase' = "stopped"
  /\ Close
  /\ UNCHANGED <<subVars, pubVars, ackPc>>

\* main returns after it cancelled the context; it waits for nothing.
Exit ==
  /\ phase \in {"signalled", "draining", "stopped"}
  /\ phase' = "exited"
  /\ UNCHANGED <<vars, subVars, pubVars, ackPc>>

-----------------------------------------------------------------------------

SubscribeHandler(s) ==
  \/ OpenSubscribe(s)
  \/ RejectSubscribe(s)
  \/ \E t \in Topics, c \in Consumers : Register(s, t, c)
  \/ OpenChannel(s)
  \/ TakeMessage(s)
  \/ SendMessage(s)
  \/ ReturnSubscribe(s)
  \/ Disconnect(s)
  \/ CleanupStream(s)

PublishHandler(p) ==
  OpenPublish(p) \/ ReceivePublish(p) \/ RespondPublish(p) \/ ReturnPublish(p)

AcknowledgeHandler(a) ==
  \/ OpenAcknowledge(a)
  \/ \E i \in MsgIds, c \in Consumers : ReceiveAcknowledge(a, i, c)
  \/ ReturnAcknowledge(a)

Lifecycle == ServeFails \/ Signal \/ BeginStop \/ FinishStop \/ Exit

ServerNext ==
  /\ ~panicked
  /\ phase # "exited"
  /\ \/ \E s \in Subs : SubscribeHandler(s)
     \/ \E p \in Pubs : PublishHandler(p)
     \/ \E a \in Acks : AcknowledgeHandler(a)
     \/ Lifecycle

ServerSpec == ServerInit /\ [][ServerNext]_allVars

\* A step of a process that is running.
Running(A) == ~panicked /\ phase # "exited" /\ A

\* Every goroutine that can proceed does.  A done context wakes a handler in
\* Recv or Send and the store's goroutine; select picks a ready case at random,
\* so its second case is not passed over for ever: strong fairness.  Nothing is
\* assumed of clients, which may stay, stop reading or stop writing for ever.
StreamFairness(s) ==
  /\ WF_allVars(Running(OpenChannel(s)))
  /\ WF_allVars(Running(ctxDone[s] /\ RejectSubscribe(s)))
  /\ WF_allVars(Running(ctxDone[s] /\ SendMessage(s)))
  /\ SF_allVars(Running(ReturnSubscribe(s)))
  /\ WF_allVars(Running(CleanupStream(s)))

StopFairness == WF_allVars(Running(FinishStop))

ServerFairness == (\A s \in Subs : StreamFairness(s)) /\ StopFairness

ServerFairSpec == ServerSpec /\ ServerFairness

-----------------------------------------------------------------------------
(* Properties. *)

\* The values the server's own variables range over.
ServerTypeOK ==
  /\ phase \in {"serving", "signalled", "draining", "stopped", "exited"}
  /\ subPc \in [Subs -> {"idle", "receive", "registered", "select", "send",
                         "returned"}]
  /\ consumer \in [Subs -> Consumers \cup {NoConsumer}]
  /\ wanted \in [Subs -> Topics \cup {NoTopic}]
  /\ hand \in [Subs -> 0 .. Len(heap)]
  /\ sent \in [Subs -> Seq(0 .. Len(heap))]
  /\ pubPc \in [Pubs -> {"idle", "receive", "respond", "returned"}]
  /\ pending \in [Pubs -> 0 .. Len(heap)]
  /\ confirmed \subseteq DOMAIN heap
  /\ ackPc \in [Acks -> {"idle", "receive", "returned"}]

\* The handler sends whatever it takes from the channel, nil too once the
\* channel is closed; no client that is still there is ever sent a nil message,
\* because a channel is closed only when its context is done or, by Stop, when
\* no handler is left.
NoNilToClient == \A s \in Subs : \A k \in DOMAIN sent[s] : sent[s][k] # 0

\* A consumer in the subscriber table belongs to a handler that has yet to run
\* its deferred RemoveSubscriber: however streams end, no entry is left behind.
RegistrationHasOwner ==
  \A c \in Consumers :
    subscriberInfo[c] # NoTopic =>
      \E s \in Subs : /\ consumer[s] = c
                      /\ subPc[s] \in {"registered", "select", "send"}

\* Once Stop has closed the store nothing is put into it again: no message, no
\* entry of a consumer, no channel.
StoppedIsEmpty ==
  phase = "stopped" =>
    /\ \A i \in MsgIds : ~Present(i) /\ ackTracker[i] = NoConsumer
    /\ \A t \in Topics : topics[t] = {} /\ subscribers[t] = {}
    /\ \A c \in Consumers : subscriberInfo[c] = NoTopic

\* A Subscribe stream whose client is gone comes to an end, its handler and its
\* channel too, whatever is buffered and whoever publishes meanwhile.
CancelledStreamEnds ==
  \A s \in Subs :
    ctxDone[s] /\ Ongoing(subPc[s]) ~>
      \/ subPc[s] = "returned" /\ chanState[s] # "open"
      \/ phase = "exited"

\* Stop comes to an end once every client of a Subscribe stream has gone and
\* the other streams have ended; it does wait for them.
StopCompletes ==
  /\ phase = "draining"
  /\ \A s \in Subs : Ongoing(subPc[s]) => ctxDone[s]
  /\ \A p \in Pubs : ~Ongoing(pubPc[p])
  /\ \A a \in Acks : ~Ongoing(ackPc[a])
  ~> phase \in {"stopped", "exited"}

\* A publisher is told that its message was stored only while the store holds it,
\* or a later one of the same id: however slowly its handler answers, Stop does
\* not empty the store before that.
ConfirmedIsStored ==
  [][\A p \in confirmed' \ confirmed : messages[heap[p].id] >= p]_allVars

C == INSTANCE Broadcast WITH
       log <- heap,
       status <- [s \in Subs |-> AbstractStatus(chanState[s])],
       topicOf <- chanTopic,
       from <- openedAt,
       shown <- sent,
       limit <- closedAt

\* What clients are sent, with streams that come and go, is the lossy broadcast
\* too: a failed send and a stop lose messages but never reorder or repeat one.
ClientsSeeBroadcast == C!Spec

-----------------------------------------------------------------------------
(* What is said of the program and does not hold. *)

\* cmd/mq-service/main.go:65: "Cancel the context to trigger graceful
\* shutdown".  After a signal the process should not end before Stop has closed
\* the store.
GracefulExit ==
  [][phase' = "exited" /\ phase # "serving" => phase = "stopped"]_allVars

\* internal/mq/service/subscriber_service.go:76: "Register the subscriber".  A
\* consumer should be in the table while one of its handlers delivers to it.
DeliveringIsRegistered ==
  phase # "stopped" =>
    \A s \in Subs : Delivering(s) => subscriberInfo[consumer[s]] # NoTopic

=============================================================================
