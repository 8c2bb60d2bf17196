---------------------------- MODULE MessageStore ----------------------------
(***************************************************************************)
(* InMemoryStore of internal/mq/storage/message_store.go: the message map, *)
(* the topic index, the acknowledgement tracker, the registered subscriber *)
(* channels and the goroutine that closes a channel when its context ends. *)
(*                                                                         *)
(* Every method holds the store's mutex from its first to its last access  *)
(* of the maps, so each is one action.  Subscribe is two: the registration *)
(* and, in the goroutine it starts, Cleanup.                               *)
(*                                                                         *)
(* A *mq.Message is a pointer.  Every Store is given an object of its own, *)
(* so pointers are positions in heap, the sequence of the objects stored.  *)
(* 0 stands for a key that is absent from the message map.  Of a message   *)
(* the model keeps the fields the store reads, its id and its topic.       *)
(***************************************************************************)
EXTENDS Naturals, Sequences, FiniteSets

CONSTANTS
  MsgIds,      \* message ids
  Topics,      \* topics
  Consumers,   \* non-empty consumer ids
  NoConsumer,  \* the empty consumer id, and "no entry" in the ack tracker
  NoTopic,     \* "no entry" in the subscriber table
  Subs,        \* subscriptions: one channel, one context, one goroutine each
  ChanCap,     \* capacity of a subscriber channel (100 in the code)
  BatchSizes,  \* batch sizes GetMessages is called with
  MaxStores    \* bound: number of calls of Store in a behaviour

ASSUME ConstantsAssumption ==
  /\ NoConsumer \notin Consumers
  /\ NoTopic \notin Topics
  /\ ChanCap \in Nat \ {0}
  /\ BatchSizes \subseteq Nat
  /\ MaxStores \in Nat

VARIABLES
  heap,           \* the message objects stored so far, oldest first
  messages,       \* id -> pointer, 0 if absent
  topics,         \* topic -> ids
  ackTracker,     \* id -> consumer, NoConsumer if absent
  subscriberInfo, \* consumer -> topic, NoTopic if absent
  subscribers,    \* topic -> registered channels
  chanState,      \* channel -> "unmade", "open", "closed"
  chanTopic,      \* the topic captured by the channel's goroutine
  chanBuf,        \* channel -> pointers buffered in it, oldest first
  watcher,        \* goroutine -> "none", "waiting", "ended"
  ctxDone,        \* whether the subscription's context is done
  panicked,       \* a send on, or a close of, a closed channel
  \* History, read by no action:
  received,       \* pointers a subscriber has taken from its channel
  openedAt,       \* Len(heap) when the channel was made
  closedAt        \* Len(heap) when the channel was closed

storeVars == <<heap, messages, topics>>
chanVars  == <<subscribers, chanState, chanTopic, chanBuf, watcher>>
histVars  == <<received, openedAt, closedAt>>
vars == <<storeVars, ackTracker, subscriberInfo, chanVars, ctxDone, panicked,
          histVars>>

Message == [id : MsgIds, topic : Topics]

Init ==
  /\ heap = <<>>
  /\ messages = [i \in MsgIds |-> 0]
  /\ topics = [t \in Topics |-> {}]
  /\ ackTracker = [i \in MsgIds |-> NoConsumer]
  /\ subscriberInfo = [c \in Consumers |-> NoTopic]
  /\ subscribers = [t \in Topics |-> {}]
  /\ chanState = [s \in Subs |-> "unmade"]
  /\ chanTopic = [s \in Subs |-> NoTopic]
  /\ chanBuf = [s \in Subs |-> <<>>]
  /\ watcher = [s \in Subs |-> "none"]
  /\ ctxDone = [s \in Subs |-> FALSE]
  /\ panicked = FALSE
  /\ received = [s \in Subs |-> <<>>]
  /\ openedAt = [s \in Subs |-> 0]
  /\ closedAt = [s \in Subs |-> 0]

-----------------------------------------------------------------------------
(* Publishing. *)

\* Faulty variants, never used by the specification: a send does not look for
\* room; the last slot of a channel is not used; a message is offered to the
\* channels of every topic; a message jumps the queue.
RoomAssumed(s) == TRUE
HasRoomButOne(s) == Len(chanBuf[s]) < ChanCap - 1
ListeningAnywhere(t) == UNION {subscribers[u] : u \in Topics}
BufferFirst(s, p) == <<p>> \o chanBuf[s]

HasRoom(s) == Len(chanBuf[s]) < ChanCap
Listening(t) == subscribers[t]
BufferLast(s, p) == Append(chanBuf[s], p)
IndexWith(t, i) == topics[t] \cup {i}

\* Store puts the message in the map and the index and offers it to every
\* channel of the topic; the send has a default branch, so a channel that is
\* full misses the message.
Store(m) ==
  LET p == Len(heap) + 1
      listening == Listening(m.topic)
  IN
  /\ Len(heap) < MaxStores
  /\ heap' = Append(heap, m)
  /\ messages' = [messages EXCEPT ![m.id] = p]
  /\ topics' = [topics EXCEPT ![m.topic] = IndexWith(m.topic, m.id)]
  /\ chanBuf' = [s \in Subs |-> IF s \in listening /\ HasRoom(s)
                                THEN BufferLast(s, p)
                                ELSE chanBuf[s]]
  /\ panicked' = \E s \in listening : chanState[s] = "closed"
  /\ UNCHANGED <<ackTracker, subscriberInfo, subscribers, chanState, chanTopic,
                 watcher, ctxDone, histVars>>

\* uuid.New(), given to a message without an id: an id no object ever had.
FreshIds == MsgIds \ {heap[p].id : p \in DOMAIN heap}

\* Store of a message without an id.
StoreUnnamed(t) == \E i \in FreshIds : Store([id |-> i, topic |-> t])

Present(i) == messages[i] # 0

\* Faulty variant: the tracker keeps the entry of the deleted message.
DeleteMessageOnly(i) ==
  /\ messages' = [messages EXCEPT ![i] = 0]
  /\ UNCHANGED <<heap, topics, ackTracker, subscriberInfo, chanVars, ctxDone,
                 panicked, histVars>>

Delete(i) ==
  /\ messages' = [messages EXCEPT ![i] = 0]
  /\ ackTracker' = [ackTracker EXCEPT ![i] = NoConsumer]
  /\ UNCHANGED <<heap, topics, subscriberInfo, chanVars, ctxDone, panicked,
                 histVars>>

-----------------------------------------------------------------------------
(* Pulling and acknowledging. *)

\* Faulty variant: any id is acknowledged.
CanAcknowledgeAny(i) == TRUE

\* Whether Acknowledge returns without ErrMessageNotFound.
CanAcknowledge(i) == Present(i)

Acknowledge(i, c) ==
  /\ CanAcknowledge(i)
  /\ ackTracker' = [ackTracker EXCEPT ![i] = c]
  /\ UNCHANGED <<storeVars, subscriberInfo, chanVars, ctxDone, panicked,
                 histVars>>

\* Faulty variant: an id left in the index by Delete is handed out.
FetchableIndexed(t, c) ==
  {i \in topics[t] : c # NoConsumer => ackTracker[i] # c}

\* The ids of topic t that GetMessages may hand to consumer c.  Delete leaves its
\* id in the index, and so does a Store of it under another topic: the index of t
\* may hold an id without a message, or one whose message is of another topic.
Fetchable(t, c) ==
  {i \in topics[t] : Present(i) /\ (c # NoConsumer => ackTracker[i] # c)}

\* GetMessages ranges over a Go map, whose order is not fixed: it hands out any
\* n of the fetchable messages, or all of them if there are fewer.
GetMessages(t, c, n) ==
  /\ \E batch \in SUBSET Fetchable(t, c) :
       /\ \/ Cardinality(batch) = n
          \/ Cardinality(batch) < n /\ batch = Fetchable(t, c)
       /\ ackTracker' = [i \in MsgIds |-> IF i \in batch /\ c # NoConsumer
                                          THEN c ELSE ackTracker[i]]
  /\ UNCHANGED <<storeVars, subscriberInfo, chanVars, ctxDone, panicked,
                 histVars>>

-----------------------------------------------------------------------------
(* Subscribing. *)

AddSubscriber(c, t) ==
  /\ subscriberInfo' = [subscriberInfo EXCEPT ![c] = t]
  /\ UNCHANGED <<storeVars, ackTracker, chanVars, ctxDone, panicked, histVars>>

\* The topic argument of RemoveSubscriber is not used by the code.
RemoveSubscriber(c) ==
  /\ subscriberInfo' = [subscriberInfo EXCEPT ![c] = NoTopic]
  /\ UNCHANGED <<storeVars, ackTracker, chanVars, ctxDone, panicked, histVars>>

Subscribe(s, t) ==
  /\ chanState[s] = "unmade"
  /\ chanState' = [chanState EXCEPT ![s] = "open"]
  /\ chanTopic' = [chanTopic EXCEPT ![s] = t]
  /\ subscribers' = [subscribers EXCEPT ![t] = @ \cup {s}]
  /\ watcher' = [watcher EXCEPT ![s] = "waiting"]
  /\ openedAt' = [openedAt EXCEPT ![s] = Len(heap)]
  /\ UNCHANGED <<storeVars, ackTracker, subscriberInfo, chanBuf, ctxDone,
                 panicked, received, closedAt>>

\* The caller takes the oldest message out of its channel; what was buffered
\* when the channel was closed can still be taken.
Receive(s) ==
  /\ chanBuf[s] # <<>>
  /\ received' = [received EXCEPT ![s] = Append(@, Head(chanBuf[s]))]
  /\ chanBuf' = [chanBuf EXCEPT ![s] = Tail(@)]
  /\ UNCHANGED <<storeVars, ackTracker, subscriberInfo, subscribers, chanState,
                 chanTopic, watcher, ctxDone, panicked, openedAt, closedAt>>

\* The caller's context ends.
Cancel(s) ==
  /\ ~ctxDone[s]
  /\ ctxDone' = [ctxDone EXCEPT ![s] = TRUE]
  /\ UNCHANGED <<storeVars, ackTracker, subscriberInfo, chanVars, panicked,
                 histVars>>

\* Close the channels of a set; closing a closed channel panics.
CloseChannels(set) ==
  /\ panicked' = \E s \in set : chanState[s] = "closed"
  /\ chanState' = [s \in Subs |-> IF s \in set THEN "closed" ELSE chanState[s]]
  /\ closedAt' = [s \in Subs |-> IF s \in set THEN Len(heap) ELSE closedAt[s]]

\* Faulty variant: the goroutine closes its channel without looking it up.
AlwaysRegistered(s) == {s}

\* What the goroutine finds registered once it holds the lock: its channel, or
\* nothing if Close emptied the table before it.
StillRegistered(s) == {s} \cap subscribers[chanTopic[s]]

Cleanup(s) ==
  /\ watcher[s] = "waiting"
  /\ ctxDone[s]
  /\ watcher' = [watcher EXCEPT ![s] = "ended"]
  /\ CloseChannels(StillRegistered(s))
  /\ subscribers' = [subscribers EXCEPT ![chanTopic[s]] = @ \ {s}]
  /\ UNCHANGED <<storeVars, ackTracker, subscriberInfo, chanTopic, chanBuf,
                 ctxDone, received, openedAt>>

\* Faulty variant: the closed channels stay in the table.
CloseKeepingTable ==
  /\ CloseChannels(UNION {subscribers[t] : t \in Topics})
  /\ messages' = [i \in MsgIds |-> 0]
  /\ topics' = [t \in Topics |-> {}]
  /\ ackTracker' = [i \in MsgIds |-> NoConsumer]
  /\ subscriberInfo' = [c \in Consumers |-> NoTopic]
  /\ UNCHANGED <<heap, subscribers, chanTopic, chanBuf, watcher, ctxDone,
                 received, openedAt>>

Close ==
  /\ CloseChannels(UNION {subscribers[t] : t \in Topics})
  /\ messages' = [i \in MsgIds |-> 0]
  /\ topics' = [t \in Topics |-> {}]
  /\ ackTracker' = [i \in MsgIds |-> NoConsumer]
  /\ subscribers' = [t \in Topics |-> {}]
  /\ subscriberInfo' = [c \in Consumers |-> NoTopic]
  /\ UNCHANGED <<heap, chanTopic, chanBuf, watcher, ctxDone, received,
                 openedAt>>

-----------------------------------------------------------------------------
(* The store under callers that call anything at any time; a panic ends the *)
(* process.                                                                 *)

Next ==
  /\ ~panicked
  /\ \/ \E m \in Message : Store(m)
     \/ \E t \in Topics : StoreUnnamed(t)
     \/ \E i \in MsgIds : Delete(i)
     \/ \E i \in MsgIds, c \in Consumers \cup {NoConsumer} : Acknowledge(i, c)
     \/ \E t \in Topics, c \in Consumers \cup {NoConsumer}, n \in BatchSizes :
          GetMessages(t, c, n)
     \/ \E c \in Consumers, t \in Topics : AddSubscriber(c, t)
     \/ \E c \in Consumers : RemoveSubscriber(c)
     \/ \E s \in Subs, t \in Topics : Subscribe(s, t)
     \/ \E s \in Subs : Receive(s) \/ Cancel(s) \/ Cleanup(s)
     \/ Close

Spec == Init /\ [][Next]_vars

-----------------------------------------------------------------------------
(* Properties. *)

\* The values each variable ranges over, and the bound of the channels.
TypeOK ==
  /\ heap \in Seq(Message)
  /\ messages \in [MsgIds -> 0 .. Len(heap)]
  /\ topics \in [Topics -> SUBSET MsgIds]
  /\ ackTracker \in [MsgIds -> Consumers \cup {NoConsumer}]
  /\ subscriberInfo \in [Consumers -> Topics \cup {NoTopic}]
  /\ subscribers \in [Topics -> SUBSET Subs]
  /\ chanState \in [Subs -> {"unmade", "open", "closed"}]
  /\ chanTopic \in [Subs -> Topics \cup {NoTopic}]
  /\ chanBuf \in [Subs -> Seq(Nat)]
  /\ \A s \in Subs : Len(chanBuf[s]) <= ChanCap
  /\ watcher \in [Subs -> {"none", "waiting", "ended"}]
  /\ ctxDone \in [Subs -> BOOLEAN]
  /\ panicked \in BOOLEAN
  /\ received \in [Subs -> Seq(Nat)]
  /\ openedAt \in [Subs -> Nat]
  /\ closedAt \in [Subs -> Nat]

\* Whatever order Store, Cleanup and Close run in, nothing is sent on a closed
\* channel and no channel is closed twice: the lookup in the cleanup goroutine
\* and the table that Close empties keep the three apart.
NoPanic == ~panicked

\* A channel is in the table of its own topic, and of no other, exactly while
\* it is open; and while it is open a goroutine is there to close it.  So no
\* channel leaks and none is forgotten by Store.
Registry ==
  \A s \in Subs :
    /\ \A t \in Topics :
         s \in subscribers[t] <=> chanState[s] = "open" /\ chanTopic[s] = t
    /\ chanState[s] = "open" => watcher[s] = "waiting"

\* What a subscriber took and, after it, what its channel still holds.
Delivered(s) == received[s] \o chanBuf[s]

\* The objects of its topic stored while a channel was open.
Due(s) ==
  {p \in DOMAIN heap :
     /\ heap[p].topic = chanTopic[s]
     /\ openedAt[s] < p
     /\ chanState[s] = "closed" => p <= closedAt[s]}

\* A subscriber is given messages of its own topic stored after it subscribed
\* and before its channel was closed, in the order of Store, none of them
\* twice.
DeliveryOrder ==
  \A s \in Subs :
    LET d == Delivered(s) IN
    /\ \A k \in DOMAIN d : chanState[s] # "unmade" /\ d[k] \in Due(s)
    /\ \A j, k \in DOMAIN d : j < k => d[j] < d[k]

\* A channel misses a message only when it is full: as long as no more than
\* ChanCap messages of its topic were stored since it was opened, it was given
\* every one of them.
NoEarlyLoss ==
  \A s \in Subs :
    chanState[s] # "unmade" =>
      \A p \in Due(s) :
        Cardinality({q \in Due(s) : q <= p}) <= ChanCap =>
          \E k \in DOMAIN Delivered(s) : Delivered(s)[k] = p

\* The tracker has no entry for a message that is gone, so a message stored
\* under an id that was deleted starts unacknowledged.
TrackedIsStored ==
  \A i \in MsgIds : ackTracker[i] # NoConsumer => Present(i)

\* Every message in the map is the object stored under that id, and is in the
\* index of its topic, where GetMessages looks for it.
Indexed ==
  \A i \in MsgIds : Present(i) =>
    /\ heap[messages[i]].id = i
    /\ i \in topics[heap[messages[i]].topic]

FetchableByAll(i) ==
  \A c \in Consumers \cup {NoConsumer} :
    i \in Fetchable(heap[messages[i]].topic, c)

\* A message stored under an id the store does not hold can be fetched by every
\* consumer of its topic, whatever happened to earlier messages with that id.
NewIsFetchable ==
  [][\A i \in MsgIds : ~Present(i) /\ Present(i)' => FetchableByAll(i)']_vars

-----------------------------------------------------------------------------
(* The store implements the lossy broadcast. *)

AbstractStatus(state) ==
  CASE state = "unmade" -> "idle"
    [] state = "open"   -> "live"
    [] OTHER            -> "gone"

B == INSTANCE Broadcast WITH
       log <- heap,
       status <- [s \in Subs |-> AbstractStatus(chanState[s])],
       topicOf <- chanTopic,
       from <- openedAt,
       shown <- received,
       limit <- closedAt

\* Seen through the log of stored objects and the messages each subscriber took,
\* every step of the store is a step of the lossy broadcast: subscribers see a
\* subsequence of what was published on their topic while they were there.
ImplementsBroadcast == B!Spec

=============================================================================
