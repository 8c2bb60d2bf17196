------------------------- MODULE MessageStoreProofs -------------------------
(***************************************************************************)
(* Theorems about MessageStore, for every number of messages, topics,      *)
(* consumers and subscriptions and every channel capacity.                 *)
(***************************************************************************)
EXTENDS MessageStore, TLAPS

\* Store with its bound variable expanded, to case on the actions.
AnyStore == (\E m \in Message : Store(m)) \/ (\E t \in Topics : StoreUnnamed(t))

\* An object stored without an id is stored under an id of its own: for every
\* invariant the two ways to call Store are one.
LEMMA StoreCases ==
  ASSUME AnyStore
  PROVE  \E m \in Message : Store(m)
BY DEF AnyStore, StoreUnnamed, FreshIds, Message

-----------------------------------------------------------------------------
(* Type correctness. *)

\* Each step of the store leaves every variable in its type and every channel
\* within its capacity.
LEMMA TypeStep ==
  ASSUME TypeOK, [Next]_vars
  PROVE  TypeOK'
<1> USE ConstantsAssumption
<1>1. CASE AnyStore
  <2>1. PICK m \in Message : Store(m) BY <1>1, StoreCases
  <2>2. heap' \in Seq(Message) /\ Len(heap') = Len(heap) + 1
    BY <2>1 DEF Store, TypeOK
  <2>3. messages' \in [MsgIds -> 0 .. Len(heap')]
    <3>1. m.id \in MsgIds BY <2>1 DEF Message
    <3>2. /\ Len(heap) \in Nat
          /\ messages \in [MsgIds -> 0 .. Len(heap)]
          /\ messages' = [messages EXCEPT ![m.id] = Len(heap) + 1]
      BY <2>1 DEF Store, TypeOK
    <3>3. 0 .. Len(heap) \subseteq 0 .. (Len(heap) + 1) BY <3>2
    <3>4. Len(heap) + 1 \in 0 .. (Len(heap) + 1) BY <3>2
    <3> QED BY <2>2, <3>1, <3>2, <3>3, <3>4
  <2>4. topics' \in [Topics -> SUBSET MsgIds]
    <3>1. m.id \in MsgIds /\ m.topic \in Topics BY <2>1 DEF Message
    <3> QED BY <2>1, <3>1 DEF Store, TypeOK, IndexWith
  <2>5. /\ chanBuf' \in [Subs -> Seq(Nat)]
        /\ \A s \in Subs : Len(chanBuf'[s]) <= ChanCap
    <3>1. ASSUME NEW s \in Subs
          PROVE  chanBuf'[s] \in Seq(Nat) /\ Len(chanBuf'[s]) <= ChanCap
      <4>1. chanBuf[s] \in Seq(Nat) /\ Len(heap) + 1 \in Nat BY DEF TypeOK
      <4>2. CASE chanBuf'[s] = chanBuf[s] BY <4>1, <4>2 DEF TypeOK
      <4>3. CASE HasRoom(s) /\ chanBuf'[s] = Append(chanBuf[s], Len(heap) + 1)
        BY <4>1, <4>3 DEF HasRoom
      <4> QED BY <2>1, <4>2, <4>3 DEF Store, BufferLast
    <3>2. chanBuf' = [s \in Subs |-> chanBuf'[s]] BY <2>1 DEF Store
    <3> QED BY <3>1, <3>2
  <2> QED BY <2>1, <2>2, <2>3, <2>4, <2>5 DEF Store, TypeOK, histVars
<1>2. ASSUME NEW i \in MsgIds, Delete(i) PROVE TypeOK'
  BY <1>2 DEF Delete, TypeOK, chanVars, histVars
<1>3. ASSUME NEW i \in MsgIds, NEW c \in Consumers \cup {NoConsumer},
             Acknowledge(i, c)
      PROVE  TypeOK'
  BY <1>3 DEF Acknowledge, TypeOK, storeVars, chanVars, histVars
<1>4. ASSUME NEW t \in Topics, NEW c \in Consumers \cup {NoConsumer},
             NEW n \in BatchSizes, GetMessages(t, c, n)
      PROVE  TypeOK'
  BY <1>4 DEF GetMessages, TypeOK, storeVars, chanVars, histVars
<1>5. ASSUME NEW c \in Consumers, NEW t \in Topics, AddSubscriber(c, t)
      PROVE  TypeOK'
  BY <1>5 DEF AddSubscriber, TypeOK, storeVars, chanVars, histVars
<1>6. ASSUME NEW c \in Consumers, RemoveSubscriber(c) PROVE TypeOK'
  BY <1>6 DEF RemoveSubscriber, TypeOK, storeVars, chanVars, histVars
<1>7. ASSUME NEW s \in Subs, NEW t \in Topics, Subscribe(s, t) PROVE TypeOK'
  BY <1>7 DEF Subscribe, TypeOK, storeVars
<1>8. ASSUME NEW s \in Subs, Receive(s) PROVE TypeOK'
  <2>1. chanBuf[s] \in Seq(Nat) /\ chanBuf[s] # <<>> /\ received[s] \in Seq(Nat)
    BY <1>8 DEF Receive, TypeOK
  <2>2. /\ Head(chanBuf[s]) \in Nat
        /\ Tail(chanBuf[s]) \in Seq(Nat)
        /\ Len(Tail(chanBuf[s])) <= ChanCap
    BY <2>1 DEF TypeOK
  <2>3. Append(received[s], Head(chanBuf[s])) \in Seq(Nat) BY <2>1, <2>2
  <2>4. received' \in [Subs -> Seq(Nat)] BY <1>8, <2>3 DEF Receive, TypeOK
  <2>5. /\ chanBuf' \in [Subs -> Seq(Nat)]
        /\ \A r \in Subs : Len(chanBuf'[r]) <= ChanCap
    BY <1>8, <2>2 DEF Receive, TypeOK
  <2> QED BY <1>8, <2>4, <2>5 DEF Receive, TypeOK, storeVars
<1>9. ASSUME NEW s \in Subs, Cancel(s) PROVE TypeOK'
  BY <1>9 DEF Cancel, TypeOK, storeVars, chanVars, histVars
<1>10. ASSUME NEW s \in Subs, Cleanup(s) PROVE TypeOK'
  <2>1. subscribers' \in [Topics -> SUBSET Subs]
    BY <1>10 DEF Cleanup, TypeOK
  <2>2. /\ panicked' \in BOOLEAN
        /\ chanState' \in [Subs -> {"unmade", "open", "closed"}]
        /\ closedAt' \in [Subs -> Nat]
    BY <1>10 DEF Cleanup, CloseChannels, TypeOK
  <2>3. watcher' \in [Subs -> {"none", "waiting", "ended"}]
    BY <1>10 DEF Cleanup, TypeOK
  <2> QED BY <1>10, <2>1, <2>2, <2>3 DEF Cleanup, TypeOK, storeVars
<1>11. CASE Close
  BY <1>11 DEF Close, CloseChannels, TypeOK
<1>12. CASE UNCHANGED vars
  BY <1>12 DEF vars, TypeOK, storeVars, chanVars, histVars
<1> QED
  BY <1>1, <1>2, <1>3, <1>4, <1>5, <1>6, <1>7, <1>8, <1>9, <1>10, <1>11, <1>12
  DEF Next, AnyStore

\* Every variable of the store has its type at all times, and no channel ever
\* holds more than its capacity.
THEOREM TypeCorrect == Spec => []TypeOK
<1>1. Init => TypeOK
  <2> SUFFICES ASSUME Init PROVE TypeOK OBVIOUS
  <2>1. heap \in Seq(Message) /\ messages \in [MsgIds -> 0 .. Len(heap)]
    BY DEF Init
  <2>2. /\ chanBuf \in [Subs -> Seq(Nat)]
        /\ \A s \in Subs : Len(chanBuf[s]) <= ChanCap
    BY ConstantsAssumption DEF Init
  <2>3. received \in [Subs -> Seq(Nat)] BY DEF Init
  <2> QED BY <2>1, <2>2, <2>3 DEF Init, TypeOK
<1> QED BY <1>1, TypeStep, PTL DEF Spec

-----------------------------------------------------------------------------
(* The table of channels, and no panic. *)

\* A channel that was made has a topic.
MadeHasTopic == \A s \in Subs : chanState[s] # "unmade" => chanTopic[s] \in Topics

\* A goroutine is there once its channel is made.
WatcherIsMade == \A s \in Subs : watcher[s] # "none" => chanState[s] # "unmade"

\* Registry is not inductive alone: Cleanup looks a channel up under the topic
\* its goroutine remembers, which is a key of the table only if the channel was
\* made; and Close finds every open channel only if it has a topic.
ChannelInv == NoPanic /\ Registry /\ MadeHasTopic /\ WatcherIsMade

\* The channels registered for a topic are open channels of that topic.
LEMMA RegisteredIsOpen ==
  ASSUME ChannelInv, TypeOK, NEW t \in Topics, NEW s \in subscribers[t]
  PROVE  s \in Subs /\ chanState[s] = "open" /\ chanTopic[s] = t
BY DEF ChannelInv, Registry, TypeOK

\* What a goroutine that is waiting finds under its topic is its own channel,
\* and it finds it exactly if the channel is open.
LEMMA FoundIsOpen ==
  ASSUME ChannelInv, TypeOK, NEW s \in Subs, watcher[s] = "waiting"
  PROVE  /\ chanTopic[s] \in Topics
         /\ StillRegistered(s) = IF chanState[s] = "open" THEN {s} ELSE {}
<1>1. chanTopic[s] \in Topics
  BY DEF ChannelInv, WatcherIsMade, MadeHasTopic
<1>2. s \in subscribers[chanTopic[s]] <=> chanState[s] = "open"
  BY <1>1 DEF ChannelInv, Registry
<1> QED BY <1>1, <1>2 DEF StillRegistered

\* Close closes the open channels, each of them once.
LEMMA RegisteredAnywhere ==
  ASSUME ChannelInv, TypeOK
  PROVE  UNION {subscribers[t] : t \in Topics}
           = {s \in Subs : chanState[s] = "open"}
BY RegisteredIsOpen DEF ChannelInv, Registry, MadeHasTopic

\* Steps that touch neither channels nor goroutines keep the table as it is.
LEMMA ChannelsUntouched ==
  ASSUME ChannelInv, UNCHANGED <<panicked, subscribers, chanState, chanTopic,
                                 watcher>>
  PROVE  ChannelInv'
BY DEF ChannelInv, NoPanic, Registry, MadeHasTopic, WatcherIsMade

\* Each step of the store keeps the table of channels right and does not panic.
LEMMA ChannelStep ==
  ASSUME TypeOK, ChannelInv, [Next]_vars
  PROVE  ChannelInv'
<1>1. CASE AnyStore
  <2>1. PICK m \in Message : Store(m) BY <1>1, StoreCases
  <2>2. m.topic \in Topics BY DEF Message
  <2>3. ~panicked'
    BY <2>1, <2>2, RegisteredIsOpen DEF Store, Listening, TypeOK
  <2> QED BY <2>1, <2>3 DEF Store, ChannelInv, NoPanic, Registry, MadeHasTopic,
                            WatcherIsMade
<1>2. ASSUME NEW i \in MsgIds, Delete(i) PROVE ChannelInv'
  BY <1>2, ChannelsUntouched DEF Delete, chanVars
<1>3. ASSUME NEW i \in MsgIds, NEW c \in Consumers \cup {NoConsumer},
             Acknowledge(i, c)
      PROVE  ChannelInv'
  BY <1>3, ChannelsUntouched DEF Acknowledge, chanVars
<1>4. ASSUME NEW t \in Topics, NEW c \in Consumers \cup {NoConsumer},
             NEW n \in BatchSizes, GetMessages(t, c, n)
      PROVE  ChannelInv'
  BY <1>4, ChannelsUntouched DEF GetMessages, chanVars
<1>5. ASSUME NEW c \in Consumers, NEW t \in Topics, AddSubscriber(c, t)
      PROVE  ChannelInv'
  BY <1>5, ChannelsUntouched DEF AddSubscriber, chanVars
<1>6. ASSUME NEW c \in Consumers, RemoveSubscriber(c) PROVE ChannelInv'
  BY <1>6, ChannelsUntouched DEF RemoveSubscriber, chanVars
<1>7. ASSUME NEW s \in Subs, NEW t \in Topics, Subscribe(s, t)
      PROVE  ChannelInv'
  <2>1. \A u \in Topics : s \notin subscribers[u]
    BY <1>7, RegisteredIsOpen DEF Subscribe
  <2>2. Registry'
    BY <1>7, <2>1 DEF Subscribe, Registry, ChannelInv, TypeOK
  <2>3. MadeHasTopic' /\ WatcherIsMade' /\ NoPanic'
    BY <1>7 DEF Subscribe, ChannelInv, MadeHasTopic, WatcherIsMade, NoPanic,
                TypeOK
  <2> QED BY <2>2, <2>3 DEF ChannelInv
<1>8. ASSUME NEW s \in Subs, Receive(s) PROVE ChannelInv'
  BY <1>8, ChannelsUntouched DEF Receive
<1>9. ASSUME NEW s \in Subs, Cancel(s) PROVE ChannelInv'
  BY <1>9, ChannelsUntouched DEF Cancel, chanVars
<1>10. ASSUME NEW s \in Subs, Cleanup(s) PROVE ChannelInv'
  <2>1. chanTopic[s] \in Topics
    BY <1>10, FoundIsOpen DEF Cleanup
  <2>2. StillRegistered(s) = IF chanState[s] = "open" THEN {s} ELSE {}
    BY <1>10, FoundIsOpen DEF Cleanup
  <2>3. ~panicked'
    BY <1>10, <2>2 DEF Cleanup, CloseChannels
  <2>4. ASSUME NEW r \in Subs
        PROVE  chanState'[r] = IF r = s /\ chanState[s] = "open" THEN "closed"
                               ELSE chanState[r]
    BY <1>10, <2>2 DEF Cleanup, CloseChannels
  <2>5. ASSUME NEW r \in Subs, NEW t \in Topics
        PROVE  r \in subscribers'[t] <=> r \in subscribers[t] /\ r # s
    <3>1. s \in subscribers[t] => t = chanTopic[s] BY RegisteredIsOpen
    <3> QED BY <1>10, <2>1, <3>1 DEF Cleanup, TypeOK
  <2>6. Registry'
    BY <1>10, <2>4, <2>5 DEF Cleanup, Registry, ChannelInv, TypeOK
  <2>7. MadeHasTopic' /\ WatcherIsMade'
    BY <1>10, <2>4 DEF Cleanup, ChannelInv, MadeHasTopic, WatcherIsMade, TypeOK
  <2> QED BY <2>3, <2>6, <2>7 DEF ChannelInv, NoPanic
<1>11. CASE Close
  <2>1. ~panicked'
    BY <1>11, RegisteredAnywhere DEF Close, CloseChannels
  <2>2. \A s \in Subs : chanState'[s] = IF chanState[s] = "open" THEN "closed"
                                        ELSE chanState[s]
    BY <1>11, RegisteredAnywhere DEF Close, CloseChannels
  <2>3. Registry'
    BY <1>11, <2>2 DEF Close, Registry
  <2>4. MadeHasTopic' /\ WatcherIsMade'
    BY <1>11, <2>2 DEF Close, ChannelInv, MadeHasTopic, WatcherIsMade
  <2> QED BY <2>1, <2>3, <2>4 DEF ChannelInv, NoPanic
<1>12. CASE UNCHANGED vars
  BY <1>12, ChannelsUntouched DEF vars, chanVars
<1> QED
  BY <1>1, <1>2, <1>3, <1>4, <1>5, <1>6, <1>7, <1>8, <1>9, <1>10, <1>11, <1>12
  DEF Next, AnyStore

\* The inductive invariant holds in every state.
LEMMA ChannelsCorrect == Spec => []ChannelInv
<1>1. Init => ChannelInv
  BY DEF Init, ChannelInv, NoPanic, Registry, MadeHasTopic, WatcherIsMade
<1> QED BY <1>1, ChannelStep, TypeCorrect, PTL DEF Spec

\* No channel is sent on or closed after it was closed, in whatever order Store,
\* the goroutines and Close get the lock.
THEOREM NeverPanics == Spec => []NoPanic
<1>1. ChannelInv => NoPanic BY DEF ChannelInv
<1> QED BY <1>1, ChannelsCorrect, PTL

\* A channel is registered, under its topic alone, exactly while it is open, and
\* then a goroutine waits to close it.
THEOREM RegistryCorrect == Spec => []Registry
<1>1. ChannelInv => Registry BY DEF ChannelInv
<1> QED BY <1>1, ChannelsCorrect, PTL

-----------------------------------------------------------------------------
(* The message map, the index and the tracker. *)

ContentInv == TrackedIsStored /\ Indexed

\* Steps that touch neither the map nor the index nor the tracker.
LEMMA ContentUntouched ==
  ASSUME ContentInv, UNCHANGED <<storeVars, ackTracker>>
  PROVE  ContentInv'
BY DEF ContentInv, TrackedIsStored, Indexed, Present, storeVars

\* What a call of Store does to the map, the index and the tracker.
LEMMA StoreEffect ==
  ASSUME TypeOK, NEW m \in Message, Store(m)
  PROVE  /\ m.id \in MsgIds /\ m.topic \in Topics
         /\ messages'[m.id] = Len(heap) + 1
         /\ heap'[Len(heap) + 1] = m
         /\ \A i \in MsgIds : i # m.id => messages'[i] = messages[i]
         /\ \A p \in DOMAIN heap : p \in DOMAIN heap' /\ heap'[p] = heap[p]
         /\ m.id \in topics'[m.topic]
         /\ \A t \in Topics : topics[t] \subseteq topics'[t]
         /\ ackTracker' = ackTracker
<1>1. m.id \in MsgIds /\ m.topic \in Topics BY DEF Message
<1>2. /\ heap' = Append(heap, m)
      /\ messages' = [messages EXCEPT ![m.id] = Len(heap) + 1]
      /\ topics' = [topics EXCEPT ![m.topic] = topics[m.topic] \cup {m.id}]
      /\ ackTracker' = ackTracker
  BY DEF Store, IndexWith
<1>3. heap \in Seq(Message) BY DEF TypeOK
<1>4. /\ heap'[Len(heap) + 1] = m
      /\ \A p \in DOMAIN heap : p \in DOMAIN heap' /\ heap'[p] = heap[p]
  BY <1>2, <1>3
<1>5. /\ messages'[m.id] = Len(heap) + 1
      /\ \A i \in MsgIds : i # m.id => messages'[i] = messages[i]
  BY <1>1, <1>2 DEF TypeOK
<1>6. /\ m.id \in topics'[m.topic]
      /\ \A t \in Topics : topics[t] \subseteq topics'[t]
  BY <1>1, <1>2 DEF TypeOK
<1> QED BY <1>1, <1>2, <1>4, <1>5, <1>6

\* Each step of the store keeps the map, the index and the tracker consistent.
LEMMA ContentStep ==
  ASSUME TypeOK, ContentInv, [Next]_vars
  PROVE  ContentInv'
<1>1. CASE AnyStore
  <2>1. PICK m \in Message : Store(m) BY <1>1, StoreCases
  <2>2. Len(heap) \in Nat /\ DOMAIN heap = 1 .. Len(heap) BY DEF TypeOK
  <2>3. \A i \in MsgIds : Present(i) => messages[i] \in DOMAIN heap
    BY <2>2 DEF TypeOK, Present
  <2>4. TrackedIsStored'
    BY <2>1, <2>2, StoreEffect DEF ContentInv, TrackedIsStored, Present
  <2>5. ASSUME NEW i \in MsgIds, Present(i)'
        PROVE  /\ heap'[messages'[i]].id = i
               /\ i \in topics'[heap'[messages'[i]].topic]
    <3>1. CASE i = m.id BY <2>1, <3>1, StoreEffect
    <3>2. CASE i # m.id
      <4>1. Present(i) /\ messages'[i] = messages[i]
        BY <2>1, <2>5, <3>2, StoreEffect DEF Present
      <4>2. heap'[messages[i]] = heap[messages[i]]
        BY <2>1, <2>3, <4>1, StoreEffect
      <4>3. heap[messages[i]].topic \in Topics
        <5>1. heap \in Seq(Message) /\ messages[i] \in 1 .. Len(heap)
          BY <2>2, <2>3, <4>1 DEF TypeOK
        <5>2. heap[messages[i]] \in Message BY <5>1
        <5> QED BY <5>2 DEF Message
      <4> QED BY <2>1, <4>1, <4>2, <4>3, StoreEffect DEF ContentInv, Indexed
    <3> QED BY <3>1, <3>2
  <2> QED BY <2>4, <2>5 DEF ContentInv, Indexed
<1>2. ASSUME NEW i \in MsgIds, Delete(i) PROVE ContentInv'
  BY <1>2 DEF Delete, ContentInv, TrackedIsStored, Indexed, Present, TypeOK
<1>3. ASSUME NEW i \in MsgIds, NEW c \in Consumers \cup {NoConsumer},
             Acknowledge(i, c)
      PROVE  ContentInv'
  BY <1>3 DEF Acknowledge, CanAcknowledge, storeVars, ContentInv,
              TrackedIsStored, Indexed, Present, TypeOK
<1>4. ASSUME NEW t \in Topics, NEW c \in Consumers \cup {NoConsumer},
             NEW n \in BatchSizes, GetMessages(t, c, n)
      PROVE  ContentInv'
  BY <1>4 DEF GetMessages, Fetchable, storeVars, ContentInv, TrackedIsStored,
              Indexed, Present, TypeOK
<1>5. ASSUME NEW c \in Consumers, NEW t \in Topics, AddSubscriber(c, t)
      PROVE  ContentInv'
  BY <1>5, ContentUntouched DEF AddSubscriber
<1>6. ASSUME NEW c \in Consumers, RemoveSubscriber(c) PROVE ContentInv'
  BY <1>6, ContentUntouched DEF RemoveSubscriber
<1>7. ASSUME NEW s \in Subs, NEW t \in Topics, Subscribe(s, t)
      PROVE  ContentInv'
  BY <1>7, ContentUntouched DEF Subscribe
<1>8. ASSUME NEW s \in Subs, Receive(s) \/ Cancel(s) \/ Cleanup(s)
      PROVE  ContentInv'
  BY <1>8, ContentUntouched DEF Receive, Cancel, Cleanup
<1>9. CASE Close
  BY <1>9 DEF Close, ContentInv, TrackedIsStored, Indexed, Present
<1>10. CASE UNCHANGED vars
  BY <1>10, ContentUntouched DEF vars
<1> QED
  BY <1>1, <1>2, <1>3, <1>4, <1>5, <1>6, <1>7, <1>8, <1>9, <1>10
  DEF Next, AnyStore

\* The map, the index and the tracker agree in every state.
LEMMA ContentCorrect == Spec => []ContentInv
<1>1. Init => ContentInv
  BY DEF Init, ContentInv, TrackedIsStored, Indexed, Present
<1> QED BY <1>1, ContentStep, TypeCorrect, PTL DEF Spec

\* The ack tracker has entries only for messages in the map.
THEOREM TrackerCorrect == Spec => []TrackedIsStored
<1>1. ContentInv => TrackedIsStored BY DEF ContentInv
<1> QED BY <1>1, ContentCorrect, PTL

\* A message in the map is stored under its own id and indexed under its topic.
THEOREM IndexCorrect == Spec => []Indexed
<1>1. ContentInv => Indexed BY DEF ContentInv
<1> QED BY <1>1, ContentCorrect, PTL

\* A message whose id the store did not hold can be fetched by every consumer,
\* whatever was acknowledged under that id before.
THEOREM NewCanBeFetched == Spec => NewIsFetchable
<1> DEFINE Step == \A i \in MsgIds :
                     ~Present(i) /\ Present(i)' => FetchableByAll(i)'
<1>1. ASSUME TypeOK, ContentInv, [Next]_vars PROVE Step
  <2> SUFFICES ASSUME NEW i \in MsgIds, ~Present(i), Present(i)'
               PROVE  FetchableByAll(i)'
    OBVIOUS
  <2>1. \E m \in Message : Store(m)
    <3>1. messages'[i] # 0 /\ messages[i] = 0 BY DEF Present
    <3>2. AnyStore
      BY <1>1, <3>1 DEF Next, AnyStore, Delete, Acknowledge, GetMessages,
                  AddSubscriber, RemoveSubscriber, Subscribe, Receive, Cancel,
                  Cleanup, Close, vars, storeVars, TypeOK
    <3> QED BY <3>2, StoreCases
  <2>2. PICK m \in Message : Store(m) BY <2>1
  <2>3. i = m.id BY <1>1, <2>2, StoreEffect DEF Present
  <2>4. ackTracker'[i] = NoConsumer
    BY <1>1, <2>2, StoreEffect DEF ContentInv, TrackedIsStored, TypeOK
  <2>5. heap'[messages'[i]] = m /\ i \in topics'[m.topic]
    BY <1>1, <2>2, <2>3, StoreEffect
  <2> QED BY <2>4, <2>5 DEF FetchableByAll, Fetchable, Present
<1>2. TypeOK /\ ContentInv /\ [Next]_vars => [Step]_vars BY <1>1
<1> QED
  BY <1>2, TypeCorrect, ContentCorrect, PTL DEF Spec, NewIsFetchable

=============================================================================
