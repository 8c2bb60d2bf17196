--------------------------- MODULE MQServerProofs ---------------------------
(***************************************************************************)
(* Theorems about MQServer, for every number of streams, consumers,        *)
(* topics and messages and every channel capacity: what its clients see,   *)
(* what the store keeps of its promises inside it, and that the stream of  *)
(* a client that has left ends.                                            *)
(***************************************************************************)
EXTENDS MQServer, StoreDeliveryProofs

-----------------------------------------------------------------------------
(* The server uses the store as any caller may. *)

\* Handlers that registered a consumer and have yet to unregister it.
Registered(s) == subPc[s] \in {"registered", "select", "send"}

\* The types that do not depend on the log; a registered handler has a consumer
\* and a topic.
HandlersOK ==
  /\ phase \in {"serving", "signalled", "draining", "stopped", "exited"}
  /\ subPc \in [Subs -> {"idle", "receive", "registered", "select", "send",
                         "returned"}]
  /\ consumer \in [Subs -> Consumers \cup {NoConsumer}]
  /\ wanted \in [Subs -> Topics \cup {NoTopic}]
  /\ pubPc \in [Pubs -> {"idle", "receive", "respond", "returned"}]
  /\ ackPc \in [Acks -> {"idle", "receive", "returned"}]
  /\ \A s \in Subs : Registered(s) => consumer[s] \in Consumers /\ wanted[s] \in Topics

\* No step of a handler leaves these types.
LEMMA HandlersStep ==
  ASSUME HandlersOK, [ServerNext]_allVars
  PROVE  HandlersOK'
<1> USE DEF HandlersOK, Registered
<1>1. ASSUME NEW s \in Subs, SubscribeHandler(s) PROVE HandlersOK'
  <2>1. CASE \E t \in Topics, c \in Consumers : Register(s, t, c)
    BY <2>1 DEF Register, pubVars
  <2>2. CASE OpenSubscribe(s) \/ RejectSubscribe(s)
    BY <2>2 DEF OpenSubscribe, RejectSubscribe, pubVars
  <2>3. CASE OpenChannel(s) BY <2>3 DEF OpenChannel, pubVars
  <2>4. CASE TakeMessage(s) BY <2>4 DEF TakeMessage, pubVars
  <2>5. CASE SendMessage(s) \/ ReturnSubscribe(s)
    BY <2>5 DEF SendMessage, ReturnSubscribe, pubVars
  <2>6. CASE Disconnect(s) \/ CleanupStream(s)
    BY <2>6 DEF Disconnect, CleanupStream, serverVars, subVars, pubVars
  <2> QED BY <1>1, <2>1, <2>2, <2>3, <2>4, <2>5, <2>6 DEF SubscribeHandler
<1>2. ASSUME NEW p \in Pubs, PublishHandler(p) PROVE HandlersOK'
  BY <1>2 DEF PublishHandler, OpenPublish, ReceivePublish, RespondPublish,
     ReturnPublish, subVars
<1>3. ASSUME NEW a \in Acks, AcknowledgeHandler(a) PROVE HandlersOK'
  BY <1>3 DEF AcknowledgeHandler, OpenAcknowledge, ReceiveAcknowledge,
     ReturnAcknowledge, subVars, pubVars
<1>4. CASE Lifecycle
  BY <1>4 DEF Lifecycle, ServeFails, Signal, BeginStop, FinishStop, Exit,
     subVars, pubVars
<1>5. CASE UNCHANGED allVars
  BY <1>5 DEF allVars, serverVars, subVars, pubVars
<1> QED BY <1>1, <1>2, <1>3, <1>4, <1>5 DEF ServerNext

\* Whatever a handler does to the store, it does by a call of the store.
LEMMA StoreCalls ==
  ASSUME HandlersOK, [ServerNext]_allVars
  PROVE  [Next]_vars
<1>0. CASE UNCHANGED vars BY <1>0
<1>1. ASSUME NEW s \in Subs, SubscribeHandler(s), ~panicked PROVE [Next]_vars
  <2>1. CASE \E t \in Topics, c \in Consumers : Register(s, t, c)
    BY <1>1, <2>1 DEF Register, Next
  <2>2. CASE OpenSubscribe(s) \/ RejectSubscribe(s) \/ SendMessage(s)
    BY <2>2 DEF OpenSubscribe, RejectSubscribe, SendMessage
  <2>3. CASE OpenChannel(s)
    BY <1>1, <2>3 DEF OpenChannel, Next, HandlersOK, Registered
  <2>4. CASE TakeMessage(s) BY <1>1, <2>4 DEF TakeMessage, Next
  <2>5. CASE ReturnSubscribe(s)
    BY <1>1, <2>5 DEF ReturnSubscribe, Unregister, Next, HandlersOK, Registered
  <2>6. CASE Disconnect(s) \/ CleanupStream(s)
    BY <1>1, <2>6 DEF Disconnect, CleanupStream, Next
  <2> QED BY <1>1, <2>1, <2>2, <2>3, <2>4, <2>5, <2>6 DEF SubscribeHandler
<1>2. ASSUME NEW p \in Pubs, PublishHandler(p), ~panicked PROVE [Next]_vars
  BY <1>2 DEF PublishHandler, OpenPublish, ReceivePublish, RespondPublish,
     ReturnPublish, Next
<1>3. ASSUME NEW a \in Acks, AcknowledgeHandler(a), ~panicked PROVE [Next]_vars
  BY <1>3 DEF AcknowledgeHandler, OpenAcknowledge, ReceiveAcknowledge,
     ReturnAcknowledge, Next
<1>4. ASSUME Lifecycle, ~panicked PROVE [Next]_vars
  BY <1>4 DEF Lifecycle, ServeFails, Signal, BeginStop, FinishStop, Exit, Next
<1> QED BY <1>0, <1>1, <1>2, <1>3, <1>4 DEF ServerNext, allVars

\* The types hold at all times.
LEMMA HandlersCorrect == ServerSpec => []HandlersOK
<1>1. ServerInit => HandlersOK BY DEF ServerInit, HandlersOK, Registered
<1> QED BY <1>1, HandlersStep, PTL DEF ServerSpec

\* A queue server is a caller of the store like any other: every behaviour of the
\* server is one of the store, so that what is proved of the store under all
\* callers holds inside the server.
THEOREM ServerUsesStore == ServerSpec => Spec
<1>1. ServerInit => Init BY DEF ServerInit
<1> QED BY <1>1, StoreCalls, HandlersCorrect, PTL DEF ServerSpec, Spec

\* What the handlers can count on, however their calls interleave: the store does
\* not panic on a closed channel, its maps agree with each other, a subscriber is
\* shown what was published in order and misses nothing before its channel is
\* full, and a message that was stored can be fetched by every consumer.
THEOREM StoreInsideServer ==
  ServerSpec =>
    /\ [](NoPanic /\ Registry /\ TrackedIsStored /\ Indexed)
    /\ [](DeliveryOrder /\ NoEarlyLoss)
    /\ NewIsFetchable
    /\ ImplementsBroadcast
BY ServerUsesStore, NeverPanics, RegistryCorrect, TrackerCorrect, IndexCorrect,
   DeliveryInOrder, NothingEarlyLost, NewCanBeFetched, StoreIsBroadcast, PTL

\* What the store's proofs say of each state.
StoreInv == TypeOK /\ ChannelInv /\ OpenedBefore /\ QueueInv

\* It holds inside the server.
LEMMA StoreInServer == ServerSpec => []StoreInv
BY ServerUsesStore, QueuesCorrect, PTL DEF StoreInv

\* The log only grows: what is a position of it stays one, of the same object.
LEMMA HeapGrows ==
  ASSUME TypeOK, [Next]_vars
  PROVE  /\ Len(heap) \in Nat /\ DOMAIN heap = 1 .. Len(heap)
         /\ Len(heap') \in Nat /\ DOMAIN heap' = 1 .. Len(heap')
         /\ Len(heap) <= Len(heap')
         /\ \A n \in DOMAIN heap : heap'[n] = heap[n]
<1>1. Len(heap) \in Nat /\ DOMAIN heap = 1 .. Len(heap) BY DEF TypeOK
<1>2. CASE AnyStore
  <2>1. PICK m \in Message : Store(m) BY <1>2, StoreCases
  <2> QED BY <1>1, <2>1 DEF Store, TypeOK
<1>3. CASE UNCHANGED heap BY <1>1, <1>3
<1> QED
  BY <1>2, <1>3
  DEF Next, AnyStore, Delete, Acknowledge, GetMessages, AddSubscriber,
      RemoveSubscriber, Subscribe, Receive, Cancel, Cleanup, Close, vars, storeVars

-----------------------------------------------------------------------------
(* Types of what handlers hold of the log. *)

\* Everything a handler keeps of a message is its position in the log, 0 for
\* none.
PositionsOK ==
  /\ hand \in [Subs -> 0 .. Len(heap)]
  /\ sent \in [Subs -> Seq(0 .. Len(heap))]
  /\ pending \in [Pubs -> 0 .. Len(heap)]
  /\ confirmed \subseteq DOMAIN heap
  /\ \A p \in Pubs : pubPc[p] = "respond" => pending[p] \in DOMAIN heap

\* A sequence over a range is one over a longer range.
LEMMA RangeWiden ==
  ASSUME NEW m \in Nat, NEW n \in Nat, m <= n, NEW q \in Seq(0 .. m)
  PROVE  q \in Seq(0 .. n)
<1>1. q \in [1 .. Len(q) -> 0 .. m] /\ Len(q) \in Nat OBVIOUS
<1>2. q \in [1 .. Len(q) -> 0 .. n] BY <1>1
<1> QED BY <1>1, <1>2

\* Handlers that leave their messages alone keep positions of the log.
LEMMA PositionsKept ==
  ASSUME TypeOK, PositionsOK, [Next]_vars, UNCHANGED <<hand, sent>>
  PROVE  /\ hand' \in [Subs -> 0 .. Len(heap')]
         /\ sent' \in [Subs -> Seq(0 .. Len(heap'))]
<1>1. Len(heap) \in Nat /\ Len(heap') \in Nat /\ Len(heap) <= Len(heap')
  BY HeapGrows
<1>2. hand' \in [Subs -> 0 .. Len(heap')] BY <1>1 DEF PositionsOK
<1>3. \A s \in Subs : sent[s] \in Seq(0 .. Len(heap'))
  BY <1>1, RangeWiden DEF PositionsOK
<1> QED BY <1>2, <1>3 DEF PositionsOK

\* The same of the publishers' handlers.
LEMMA PendingKept ==
  ASSUME TypeOK, PositionsOK, [Next]_vars, UNCHANGED pubVars
  PROVE  /\ pending' \in [Pubs -> 0 .. Len(heap')]
         /\ confirmed' \subseteq DOMAIN heap'
         /\ \A p \in Pubs : pubPc'[p] = "respond" => pending'[p] \in DOMAIN heap'
BY HeapGrows DEF PositionsOK, pubVars

\* A handler takes what is in its channel, which are positions of the log, and
\* sends what it took; a publisher is answered about the object just stored.
LEMMA PositionsStep ==
  ASSUME TypeOK, QueueInv, HandlersOK, PositionsOK, [ServerNext]_allVars
  PROVE  PositionsOK'
<1>0. [Next]_vars BY StoreCalls
<1>1. /\ Len(heap) \in Nat /\ DOMAIN heap = 1 .. Len(heap)
      /\ Len(heap') \in Nat /\ DOMAIN heap' = 1 .. Len(heap')
      /\ Len(heap) <= Len(heap')
  BY <1>0, HeapGrows
<1>2. ASSUME NEW s \in Subs, TakeMessage(s) PROVE PositionsOK'
  <2>1. UNCHANGED <<sent, pubVars>> /\ heap' = heap
    BY <1>2 DEF TakeMessage, Receive, storeVars, vars
  <2>2. hand' \in [Subs -> 0 .. Len(heap)]
    <3>1. CASE hand' = [hand EXCEPT ![s] = 0]
      BY <1>1, <3>1 DEF PositionsOK
    <3>2. CASE hand' = [hand EXCEPT ![s] = Head(chanBuf[s])] /\ Receive(s)
      <4>1. /\ chanBuf[s] \in Seq(Nat) /\ chanBuf[s] # <<>>
        BY <3>2 DEF TypeOK, Receive
      <4>2. Head(chanBuf[s]) = chanBuf[s][1] /\ 1 \in DOMAIN chanBuf[s] BY <4>1
      <4>3. Head(chanBuf[s]) \in DOMAIN heap
        BY <4>2 DEF QueueInv, InOrder, Due
      <4> QED BY <1>1, <3>2, <4>3 DEF PositionsOK
    <3> QED BY <1>2, <3>1, <3>2 DEF TakeMessage
  <2> QED BY <2>1, <2>2 DEF PositionsOK, pubVars
<1>3. ASSUME NEW s \in Subs, SendMessage(s) PROVE PositionsOK'
  <2>1. UNCHANGED <<hand, pubVars>> /\ heap' = heap
    BY <1>3 DEF SendMessage, storeVars, vars
  <2>2. Append(sent[s], hand[s]) \in Seq(0 .. Len(heap))
    <3>1. sent[s] \in Seq(0 .. Len(heap)) /\ hand[s] \in 0 .. Len(heap)
      BY DEF PositionsOK
    <3> QED BY <3>1, AppendProperties
  <2>3. \/ sent' = [sent EXCEPT ![s] = Append(sent[s], hand[s])]
        \/ sent' = sent
    BY <1>3 DEF SendMessage
  <2>4. sent' \in [Subs -> Seq(0 .. Len(heap))]
    BY <2>2, <2>3, Zenon DEF PositionsOK
  <2> QED BY <2>1, <2>4 DEF PositionsOK, pubVars
<1>4. ASSUME NEW p \in Pubs, ReceivePublish(p) PROVE PositionsOK'
  <2>1. UNCHANGED <<hand, sent, confirmed>> BY <1>4 DEF ReceivePublish, subVars
  <2>2. AnyStore
    BY <1>4 DEF ReceivePublish, AnyStore
  <2>3. NewMessage = Len(heap) + 1 /\ Len(heap') = Len(heap) + 1
    <3>1. PICK m \in Message : Store(m) BY <2>2, StoreCases
    <3> QED BY <3>1 DEF NewMessage, Store, TypeOK
  <2>4. /\ pending' \in [Pubs -> 0 .. Len(heap')]
        /\ \A q \in Pubs : pubPc'[q] = "respond" => pending'[q] \in DOMAIN heap'
    BY <1>1, <1>4, <2>3 DEF ReceivePublish, PositionsOK, HandlersOK
  <2>5. confirmed' \subseteq DOMAIN heap' BY <1>1, <2>1 DEF PositionsOK
  <2> QED BY <1>0, <2>1, <2>4, <2>5, PositionsKept DEF PositionsOK
<1>5. ASSUME NEW p \in Pubs, OpenPublish(p) \/ RespondPublish(p) \/ ReturnPublish(p)
      PROVE  PositionsOK'
  <2>1. UNCHANGED <<hand, sent>> /\ heap' = heap
    BY <1>5 DEF OpenPublish, RespondPublish, ReturnPublish, subVars, vars, storeVars
  <2>2. CASE OpenPublish(p)
    BY <2>1, <2>2 DEF OpenPublish, PositionsOK, HandlersOK
  <2>3. CASE RespondPublish(p)
    BY <1>1, <2>1, <2>3 DEF RespondPublish, PositionsOK, HandlersOK
  <2>4. CASE ReturnPublish(p)
    BY <1>1, <2>1, <2>4 DEF ReturnPublish, PositionsOK, HandlersOK
  <2> QED BY <1>5, <2>2, <2>3, <2>4
<1>6. CASE UNCHANGED <<hand, sent, pubVars>>
  <2>1. /\ hand' \in [Subs -> 0 .. Len(heap')]
        /\ sent' \in [Subs -> Seq(0 .. Len(heap'))]
    BY <1>0, <1>6, PositionsKept
  <2>2. /\ pending' \in [Pubs -> 0 .. Len(heap')]
        /\ confirmed' \subseteq DOMAIN heap'
        /\ \A p \in Pubs : pubPc'[p] = "respond" => pending'[p] \in DOMAIN heap'
    BY <1>0, <1>6, PendingKept
  <2> QED BY <2>1, <2>2 DEF PositionsOK
<1> QED
  BY <1>2, <1>3, <1>4, <1>5, <1>6
  DEF ServerNext, SubscribeHandler, OpenSubscribe, RejectSubscribe, Register,
      OpenChannel, ReturnSubscribe, Disconnect, CleanupStream, PublishHandler,
      AcknowledgeHandler, OpenAcknowledge, ReceiveAcknowledge,
      ReturnAcknowledge, Lifecycle, ServeFails, Signal, BeginStop, FinishStop,
      Exit, allVars, serverVars, subVars

\* All of the above, in every state.
LEMMA PositionsCorrect ==
  ServerSpec => [](StoreInv /\ HandlersOK /\ PositionsOK)
<1>1. ServerInit => PositionsOK BY DEF ServerInit, Init, PositionsOK
<1>2. StoreInv => TypeOK /\ QueueInv BY DEF StoreInv
<1> QED
  BY <1>1, <1>2, PositionsStep, StoreInServer, HandlersCorrect, PTL DEF ServerSpec

\* The handlers' variables keep their types for any number of streams; what they
\* hold of messages are positions of the log.
THEOREM ServerTypeCorrect == ServerSpec => []ServerTypeOK
<1>1. HandlersOK /\ PositionsOK => ServerTypeOK
  BY DEF HandlersOK, PositionsOK, ServerTypeOK
<1> QED BY <1>1, PositionsCorrect, PTL

-----------------------------------------------------------------------------
(* What a publisher is told. *)

\* While a handler is about to answer, the store holds its message or a later
\* one of its id.
PendingIsStored ==
  \A p \in Pubs :
    pubPc[p] = "respond" => messages[heap[pending[p]].id] >= pending[p]

\* Only the end of Stop takes messages out of the store, and it waits for every
\* handler that has to answer.
LEMMA PendingStep ==
  ASSUME TypeOK, HandlersOK, PositionsOK, PendingIsStored, [ServerNext]_allVars
  PROVE  PendingIsStored'
<1> SUFFICES ASSUME NEW p \in Pubs, pubPc'[p] = "respond"
             PROVE  messages'[heap'[pending'[p]].id] >= pending'[p]
  BY DEF PendingIsStored
<1>0. /\ heap \in Seq(Message) /\ Len(heap) \in Nat
      /\ DOMAIN heap = 1 .. Len(heap)
  BY DEF TypeOK
<1>1. ASSUME pubPc[p] = "respond", pending'[p] = pending[p], heap' = heap,
             messages' = messages
      PROVE  messages'[heap'[pending'[p]].id] >= pending'[p]
  BY <1>1 DEF PendingIsStored
<1>2. ASSUME NEW q \in Pubs, ReceivePublish(q)
      PROVE  messages'[heap'[pending'[p]].id] >= pending'[p]
  <2>1. PICK m \in Message : Store(m)
    BY <1>2, StoreCases DEF ReceivePublish, AnyStore
  <2>2. /\ m.id \in MsgIds /\ messages'[m.id] = Len(heap) + 1
        /\ heap'[Len(heap) + 1] = m
        /\ \A i \in MsgIds : i # m.id => messages'[i] = messages[i]
        /\ \A n \in DOMAIN heap : heap'[n] = heap[n]
    BY <2>1, StoreEffect
  <2>3. CASE p = q
    <3>1. pending'[p] = Len(heap) + 1
      BY <1>2, <2>3 DEF ReceivePublish, NewMessage, PositionsOK, HandlersOK
    <3> QED BY <1>0, <2>2, <3>1
  <2>4. CASE p # q
    <3>1. pubPc[p] = "respond" /\ pending'[p] = pending[p]
      BY <1>2, <2>4 DEF ReceivePublish, PositionsOK, HandlersOK
    <3>2. /\ pending[p] \in DOMAIN heap
          /\ messages[heap[pending[p]].id] >= pending[p]
      BY <3>1 DEF PendingIsStored, PositionsOK
    <3>3. heap[pending[p]] \in Message /\ heap'[pending[p]] = heap[pending[p]]
      BY <1>0, <2>2, <3>2
    <3>4. heap[pending[p]].id \in MsgIds BY <3>3 DEF Message
    <3>5. CASE heap[pending[p]].id = m.id
      BY <1>0, <2>2, <3>1, <3>2, <3>3, <3>5
    <3>6. CASE heap[pending[p]].id # m.id
      BY <2>2, <3>1, <3>2, <3>3, <3>4, <3>6
    <3> QED BY <3>5, <3>6
  <2> QED BY <2>3, <2>4
<1>3. ASSUME NEW q \in Pubs, OpenPublish(q) \/ RespondPublish(q) \/ ReturnPublish(q)
      PROVE  messages'[heap'[pending'[p]].id] >= pending'[p]
  <2>1. p # q /\ pubPc[p] = "respond" /\ pending'[p] = pending[p]
    BY <1>3 DEF OpenPublish, RespondPublish, ReturnPublish, HandlersOK, PositionsOK
  <2>2. heap' = heap /\ messages' = messages
    BY <1>3 DEF OpenPublish, RespondPublish, ReturnPublish, vars, storeVars
  <2> QED BY <1>1, <2>1, <2>2
<1>4. CASE FinishStop
  <2>1. pubPc[p] # "respond" /\ pubPc' = pubPc
    BY <1>4 DEF FinishStop, Drained, Ongoing, pubVars
  <2> QED BY <2>1
<1>5. CASE UNCHANGED <<pubVars, storeVars>>
  BY <1>1, <1>5 DEF pubVars, storeVars
<1> QED
  BY <1>2, <1>3, <1>4, <1>5
  DEF ServerNext, SubscribeHandler, OpenSubscribe, RejectSubscribe, Register,
      AddSubscriber, OpenChannel, Subscribe, TakeMessage, Receive, SendMessage,
      ReturnSubscribe, Unregister, RemoveSubscriber, Disconnect, Cancel,
      CleanupStream, Cleanup, PublishHandler, AcknowledgeHandler,
      OpenAcknowledge, ReceiveAcknowledge, Acknowledge, ReturnAcknowledge,
      Lifecycle, ServeFails, Signal, BeginStop, Exit, allVars, serverVars,
      subVars, pubVars, vars

\* A publisher is answered only while the store holds its message or a later one
\* of the same id, however long its handler takes and whatever Stop does.
THEOREM ConfirmedWasStored == ServerSpec => ConfirmedIsStored
<1> DEFINE Told == \A p \in confirmed' \ confirmed : messages[heap[p].id] >= p
<1>1. ServerInit => PendingIsStored BY DEF ServerInit, PendingIsStored
<1>2. ASSUME HandlersOK, PendingIsStored, ServerNext PROVE Told
  <2>1. ASSUME NEW q \in Pubs, RespondPublish(q) PROVE Told
    BY <1>2, <2>1 DEF RespondPublish, PendingIsStored
  <2>2. CASE confirmed' = confirmed BY <2>2
  <2> HIDE DEF Told
  <2> QED
    BY <1>2, <2>1, <2>2
    DEF ServerNext, SubscribeHandler, OpenSubscribe, RejectSubscribe, Register,
        OpenChannel, TakeMessage, SendMessage, ReturnSubscribe, Disconnect,
        CleanupStream, PublishHandler, OpenPublish, ReceivePublish,
        ReturnPublish, AcknowledgeHandler, OpenAcknowledge,
        ReceiveAcknowledge, ReturnAcknowledge, Lifecycle, ServeFails, Signal,
        BeginStop, FinishStop, Exit, serverVars, pubVars
<1>3. StoreInv => TypeOK BY DEF StoreInv
<1>4. ASSUME HandlersOK, PendingIsStored, [ServerNext]_allVars PROVE [Told]_allVars
  BY <1>2, <1>4
<1> QED
  BY <1>1, <1>3, <1>4, PendingStep, PositionsCorrect, PTL
  DEF ServerSpec, ConfirmedIsStored

-----------------------------------------------------------------------------
(* The table of consumers. *)

\* An entry is made by a handler that has yet to remove it; a handler removes its
\* own, and with it that of any other handler of the consumer.
LEMMA OwnerStep ==
  ASSUME TypeOK, HandlersOK, RegistrationHasOwner, [ServerNext]_allVars
  PROVE  RegistrationHasOwner'
<1> SUFFICES ASSUME NEW c \in Consumers, subscriberInfo'[c] # NoTopic
             PROVE  \E s \in Subs : consumer'[s] = c /\ Registered(s)'
  BY DEF RegistrationHasOwner, Registered
<1>0. ASSUME subscriberInfo[c] # NoTopic
      PROVE  \E s \in Subs : consumer[s] = c /\ Registered(s)
  BY <1>0 DEF RegistrationHasOwner, Registered
<1>1. ASSUME NEW r \in Subs, NEW t \in Topics, NEW d \in Consumers, Register(r, t, d)
      PROVE  \E s \in Subs : consumer'[s] = c /\ Registered(s)'
  <2>1. CASE c = d
    BY <1>1, <2>1 DEF Register, Registered, HandlersOK
  <2>2. CASE c # d
    <3>1. subscriberInfo[c] # NoTopic
      BY <1>1, <2>2 DEF Register, AddSubscriber, TypeOK
    <3>2. PICK s \in Subs : consumer[s] = c /\ Registered(s) BY <1>0, <3>1
    <3>3. s # r BY <1>1, <3>2 DEF Register, Registered
    <3>4. consumer'[s] = c /\ Registered(s)'
      BY <1>1, <3>2, <3>3 DEF Register, Registered, HandlersOK
    <3> QED BY <3>4
  <2> QED BY <2>1, <2>2
<1>2. ASSUME NEW r \in Subs, ReturnSubscribe(r)
      PROVE  \E s \in Subs : consumer'[s] = c /\ Registered(s)'
  <2>1. /\ subscriberInfo' = [subscriberInfo EXCEPT ![consumer[r]] = NoTopic]
        /\ consumer' = consumer
        /\ subPc' = [subPc EXCEPT ![r] = "returned"]
    BY <1>2 DEF ReturnSubscribe, Unregister, RemoveSubscriber
  <2>2. subscriberInfo[c] # NoTopic /\ c # consumer[r] BY <2>1 DEF TypeOK
  <2>3. PICK s \in Subs : consumer[s] = c /\ Registered(s) BY <1>0, <2>2
  <2>4. Registered(s)' BY <2>1, <2>2, <2>3 DEF Registered, HandlersOK
  <2> QED BY <2>1, <2>3, <2>4
<1>3. ASSUME NEW r \in Subs, OpenSubscribe(r) \/ RejectSubscribe(r) \/ OpenChannel(r)
                             \/ TakeMessage(r) \/ SendMessage(r)
      PROVE  \E s \in Subs : consumer'[s] = c /\ Registered(s)'
  <2>1. consumer' = consumer /\ subscriberInfo' = subscriberInfo
    BY <1>3 DEF OpenSubscribe, RejectSubscribe, OpenChannel, Subscribe,
       TakeMessage, Receive, SendMessage, vars
  <2>2. \A s \in Subs : Registered(s) => Registered(s)'
    BY <1>3 DEF OpenSubscribe, RejectSubscribe, OpenChannel, TakeMessage,
       SendMessage, Registered, HandlersOK
  <2> QED BY <1>0, <2>1, <2>2
<1>4. CASE FinishStop
  BY <1>4 DEF FinishStop, Close
<1>5. CASE UNCHANGED <<subVars, subscriberInfo>>
  BY <1>0, <1>5 DEF subVars, Registered
<1> QED
  BY <1>1, <1>2, <1>3, <1>4, <1>5
  DEF ServerNext, SubscribeHandler, Disconnect, Cancel, CleanupStream, Cleanup,
      PublishHandler, OpenPublish, ReceivePublish, StoreUnnamed, Store,
      RespondPublish, ReturnPublish, AcknowledgeHandler, OpenAcknowledge,
      ReceiveAcknowledge, Acknowledge, ReturnAcknowledge, Lifecycle,
      ServeFails, Signal, BeginStop, Exit, allVars, serverVars, vars

\* No entry of the table of consumers is left behind by handlers that ended,
\* however many streams share a consumer.
THEOREM EveryEntryHasOwner == ServerSpec => []RegistrationHasOwner
<1>1. ServerInit => RegistrationHasOwner
  BY DEF ServerInit, Init, RegistrationHasOwner
<1>2. StoreInv => TypeOK BY DEF StoreInv
<1> QED BY <1>1, <1>2, OwnerStep, PositionsCorrect, PTL DEF ServerSpec

-----------------------------------------------------------------------------
(* A stopped server. *)

\* Once it is stopped no handler is left, and the store is empty.
StoppedInv == phase = "stopped" => Drained /\ StoppedIsEmpty

\* A stopped server takes no stream, and what is left of the old ones, the
\* goroutines of the store, only takes channels out of the table.
LEMMA StoppedStep ==
  ASSUME TypeOK, HandlersOK, StoppedInv, [ServerNext]_allVars
  PROVE  StoppedInv'
<1> SUFFICES ASSUME phase' = "stopped" PROVE Drained' /\ StoppedIsEmpty'
  BY DEF StoppedInv
<1>1. CASE FinishStop
  <2>1. Drained'
    BY <1>1 DEF FinishStop, Drained, subVars, pubVars
  <2>2. StoppedIsEmpty'
    BY <1>1 DEF FinishStop, Close, StoppedIsEmpty, Present
  <2> QED BY <2>1, <2>2
<1>2. ASSUME phase = "stopped" PROVE Drained' /\ StoppedIsEmpty'
  <2>1. Drained /\ StoppedIsEmpty BY <1>2 DEF StoppedInv
  <2>2. ASSUME NEW s \in Subs, CleanupStream(s) PROVE Drained' /\ StoppedIsEmpty'
    <3>1. Drained'
      BY <2>1, <2>2 DEF CleanupStream, serverVars, subVars, pubVars, Drained
    <3>2. /\ UNCHANGED <<messages, topics, ackTracker, subscriberInfo, phase>>
          /\ subscribers' = [subscribers EXCEPT ![chanTopic[s]] = @ \ {s}]
      BY <2>2 DEF CleanupStream, Cleanup, storeVars, serverVars
    <3>3. \A t \in Topics : subscribers'[t] = {}
      BY <1>2, <2>1, <3>2 DEF StoppedIsEmpty, TypeOK
    <3> QED BY <2>1, <3>1, <3>2, <3>3 DEF StoppedIsEmpty, Present
  <2>3. CASE UNCHANGED allVars
    BY <2>1, <2>3 DEF allVars, vars, storeVars, chanVars, serverVars, subVars,
       pubVars, Drained, StoppedIsEmpty, Present
  <2>4. ASSUME NEW s \in Subs, SubscribeHandler(s) PROVE CleanupStream(s)
    <3>1. subPc[s] \in {"idle", "returned"}
      BY <2>1 DEF Drained, Ongoing
    <3> QED
      BY <1>2, <2>4, <3>1
      DEF SubscribeHandler, OpenSubscribe, Accepting, RejectSubscribe, Register,
          OpenChannel, TakeMessage, SendMessage, ReturnSubscribe, Disconnect,
          Ongoing
  <2>5. ASSUME NEW p \in Pubs, PublishHandler(p) PROVE FALSE
    BY <1>2, <2>1, <2>5 DEF PublishHandler, OpenPublish, Accepting,
       ReceivePublish, RespondPublish, ReturnPublish, Drained, Ongoing
  <2>6. ASSUME NEW a \in Acks, AcknowledgeHandler(a) PROVE FALSE
    BY <1>2, <2>1, <2>6 DEF AcknowledgeHandler, OpenAcknowledge, Accepting,
       ReceiveAcknowledge, ReturnAcknowledge, Drained, Ongoing
  <2>7. ASSUME Lifecycle PROVE FALSE
    BY <1>2, <2>7 DEF Lifecycle, ServeFails, Signal, BeginStop, FinishStop, Exit
  <2> QED BY <2>2, <2>3, <2>4, <2>5, <2>6, <2>7 DEF ServerNext
<1>3. phase = "stopped" \/ FinishStop
  BY DEF ServerNext, SubscribeHandler, OpenSubscribe, RejectSubscribe, Register,
     OpenChannel, TakeMessage, SendMessage, ReturnSubscribe, Disconnect,
     CleanupStream, PublishHandler, OpenPublish, ReceivePublish,
     RespondPublish, ReturnPublish, AcknowledgeHandler, OpenAcknowledge,
     ReceiveAcknowledge, ReturnAcknowledge, Lifecycle, ServeFails, Signal,
     BeginStop, Exit, allVars, serverVars
<1> QED BY <1>1, <1>2, <1>3

\* Once Stop has closed the store nothing is put into it.
THEOREM StoppedStaysEmpty == ServerSpec => []StoppedIsEmpty
<1>1. ServerInit => StoppedInv BY DEF ServerInit, StoppedInv
<1>2. StoreInv => TypeOK BY DEF StoreInv
<1>3. StoppedInv => StoppedIsEmpty BY DEF StoppedInv, StoppedIsEmpty
<1> QED BY <1>1, <1>2, <1>3, StoppedStep, PositionsCorrect, PTL DEF ServerSpec

-----------------------------------------------------------------------------
(* No nil message. *)

\* A handler whose channel is closed under it has lost its client: the store's
\* goroutine waits for that, and Stop for the handler.  A handler that has yet to
\* open its channel finds it unmade.
ClosedIsDone ==
  \A s \in Subs :
    /\ Ongoing(subPc[s]) /\ chanState[s] = "closed" => ctxDone[s]
    /\ subPc[s] \in {"idle", "receive", "registered"} => chanState[s] = "unmade"
    /\ subPc[s] = "send" /\ hand[s] = 0 => ctxDone[s]

\* Each step keeps it for each stream.
LEMMA DoneStep ==
  ASSUME StoreInv, HandlersOK, PositionsOK, ClosedIsDone, [ServerNext]_allVars
  PROVE  ClosedIsDone'
<1> DEFINE Done(s) ==
      /\ Ongoing(subPc[s]) /\ chanState[s] = "closed" => ctxDone[s]
      /\ subPc[s] \in {"idle", "receive", "registered"} => chanState[s] = "unmade"
      /\ subPc[s] = "send" /\ hand[s] = 0 => ctxDone[s]
<1> SUFFICES ASSUME NEW s \in Subs PROVE Done(s)' BY DEF ClosedIsDone
<1>0. Done(s) /\ TypeOK /\ ChannelInv /\ QueueInv BY DEF ClosedIsDone, StoreInv
<1>1. ASSUME subPc'[s] = subPc[s], hand'[s] = hand[s],
             chanState'[s] = chanState[s], ctxDone[s] => ctxDone'[s]
      PROVE  Done(s)'
  BY <1>0, <1>1
<1>2. ASSUME NEW r \in Subs, TakeMessage(r) PROVE Done(s)'
  <2>1. chanState' = chanState /\ ctxDone' = ctxDone
    BY <1>2 DEF TakeMessage, Receive, vars, chanVars
  <2>2. CASE r # s
    BY <1>1, <1>2, <2>1, <2>2 DEF TakeMessage, HandlersOK, PositionsOK
  <2>3. CASE r = s
    <3>1. subPc[s] = "select" /\ subPc'[s] = "send"
      BY <1>2, <2>3 DEF TakeMessage, HandlersOK
    <3>2. CASE Receive(s) /\ hand' = [hand EXCEPT ![s] = Head(chanBuf[s])]
      <4>1. chanBuf[s] \in Seq(Nat) /\ chanBuf[s] # <<>>
        BY <1>0, <3>2 DEF TypeOK, Receive
      <4>2. Head(chanBuf[s]) = chanBuf[s][1] /\ 1 \in DOMAIN chanBuf[s] BY <4>1
      <4>3. Head(chanBuf[s]) \in DOMAIN heap
        BY <1>0, <4>2 DEF QueueInv, InOrder, Due
      <4>4. DOMAIN heap = 1 .. Len(heap) BY <1>0 DEF TypeOK
      <4>5. hand'[s] # 0 BY <3>2, <4>3, <4>4 DEF PositionsOK
      <4> QED BY <1>0, <2>1, <3>1, <4>5 DEF Ongoing
    <3>3. CASE chanState[s] = "closed"
      BY <1>0, <2>1, <3>1, <3>3 DEF Ongoing
    <3> QED BY <1>2, <2>3, <3>2, <3>3 DEF TakeMessage
  <2> QED BY <2>2, <2>3
<1>3. ASSUME NEW r \in Subs, OpenChannel(r) PROVE Done(s)'
  <2>1. /\ chanState' = [chanState EXCEPT ![r] = "open"]
        /\ subPc' = [subPc EXCEPT ![r] = "select"]
        /\ ctxDone' = ctxDone /\ hand' = hand
    BY <1>3 DEF OpenChannel, Subscribe
  <2>2. CASE r = s BY <1>0, <2>1, <2>2 DEF TypeOK, HandlersOK, Ongoing
  <2>3. CASE r # s BY <1>1, <2>1, <2>3
  <2> QED BY <2>2, <2>3
<1>4. ASSUME NEW r \in Subs, NEW pc,
             /\ subPc' = [subPc EXCEPT ![r] = pc]
             /\ UNCHANGED <<hand, chanState, ctxDone>>,
             \/ pc = "receive" /\ subPc[r] = "idle"
             \/ pc = "registered" /\ subPc[r] = "receive"
             \/ pc = "select" /\ subPc[r] = "send"
             \/ pc = "returned"
      PROVE  Done(s)'
  <2>1. CASE r = s BY <1>0, <1>4, <2>1 DEF HandlersOK, Ongoing
  <2>2. CASE r # s BY <1>1, <1>4, <2>2
  <2> QED BY <2>1, <2>2
<1>5. ASSUME NEW r \in Subs, CleanupStream(r) PROVE Done(s)'
  <2>1. UNCHANGED <<subPc, hand, ctxDone>>
    BY <1>5 DEF CleanupStream, Cleanup, serverVars, subVars
  <2>2. /\ watcher[r] = "waiting" /\ ctxDone[r] /\ StillRegistered(r) \subseteq {r}
        /\ chanState' = [q \in Subs |-> IF q \in StillRegistered(r) THEN "closed"
                                        ELSE chanState[q]]
    BY <1>5 DEF CleanupStream, Cleanup, CloseChannels, StillRegistered
  <2>3. chanState[r] # "unmade"
    BY <1>0, <2>2 DEF ChannelInv, WatcherIsMade
  <2>4. CASE s \in StillRegistered(r)
    BY <1>0, <2>1, <2>2, <2>3, <2>4
  <2>5. CASE s \notin StillRegistered(r)
    BY <1>1, <2>1, <2>2, <2>5
  <2> QED BY <2>4, <2>5
<1>6. ASSUME NEW r \in Subs, Disconnect(r) PROVE Done(s)'
  BY <1>0, <1>1, <1>6 DEF Disconnect, Cancel, chanVars, serverVars, subVars, TypeOK
<1>7. CASE FinishStop
  <2>1. /\ UNCHANGED <<subPc, hand, ctxDone>> /\ ~Ongoing(subPc[s])
        /\ chanState' = [q \in Subs |-> IF q \in UNION {subscribers[t] : t \in Topics}
                                        THEN "closed" ELSE chanState[q]]
    BY <1>7 DEF FinishStop, Drained, Close, CloseChannels, subVars
  <2>2. s \in UNION {subscribers[t] : t \in Topics} => chanState[s] = "open"
    BY <1>0, RegisteredAnywhere
  <2> QED BY <1>0, <2>1, <2>2 DEF Ongoing
<1>8. ASSUME UNCHANGED <<subPc, hand, chanState, ctxDone>> PROVE Done(s)'
  BY <1>1, <1>8
<1>9. ASSUME NEW r \in Subs, OpenSubscribe(r) \/ RejectSubscribe(r)
                             \/ (\E t \in Topics, c \in Consumers : Register(r, t, c))
                             \/ SendMessage(r) \/ ReturnSubscribe(r)
      PROVE  Done(s)'
  BY <1>4, <1>9 DEF OpenSubscribe, RejectSubscribe, Register, SendMessage,
     ReturnSubscribe, Unregister, AddSubscriber, RemoveSubscriber, vars, chanVars
<1>10. ASSUME NEW p \in Pubs, PublishHandler(p)
       PROVE  UNCHANGED <<subPc, hand, chanState, ctxDone>>
  BY <1>10 DEF PublishHandler, OpenPublish, ReceivePublish, StoreUnnamed, Store,
     RespondPublish, ReturnPublish, subVars, vars, chanVars
<1>11. ASSUME NEW a \in Acks, AcknowledgeHandler(a)
       PROVE  UNCHANGED <<subPc, hand, chanState, ctxDone>>
  BY <1>11 DEF AcknowledgeHandler, OpenAcknowledge, ReceiveAcknowledge,
     Acknowledge, ReturnAcknowledge, subVars, vars, chanVars
<1>12. ASSUME Lifecycle, ~FinishStop
       PROVE  UNCHANGED <<subPc, hand, chanState, ctxDone>>
  BY <1>12 DEF Lifecycle, ServeFails, Signal, BeginStop, Exit, subVars, vars, chanVars
<1>13. ASSUME UNCHANGED allVars
       PROVE  UNCHANGED <<subPc, hand, chanState, ctxDone>>
  BY <1>13 DEF allVars, serverVars, subVars, vars, chanVars
<1> HIDE DEF Done
<1> QED
  BY <1>2, <1>3, <1>5, <1>6, <1>7, <1>8, <1>9, <1>10, <1>11, <1>12, <1>13
  DEF ServerNext, SubscribeHandler

\* It holds at all times.
LEMMA DoneCorrect == ServerSpec => []ClosedIsDone
<1>1. ServerInit => ClosedIsDone BY DEF ServerInit, Init, ClosedIsDone, Ongoing
<1> QED BY <1>1, DoneStep, PositionsCorrect, PTL DEF ServerSpec

\* So a handler with a nil message in hand has nobody left to send it to.
LEMMA NoNilStep ==
  ASSUME PositionsOK, ClosedIsDone, NoNilToClient, [ServerNext]_allVars
  PROVE  NoNilToClient'
<1>1. ASSUME NEW r \in Subs, SendMessage(r) PROVE NoNilToClient'
  <2> SUFFICES ASSUME NEW s \in Subs, NEW k \in DOMAIN sent'[s]
               PROVE  sent'[s][k] # 0
    BY DEF NoNilToClient
  <2>1. CASE sent'[s] = sent[s] BY <2>1 DEF NoNilToClient
  <2>2. CASE sent'[s] # sent[s]
    <3>1. s = r /\ sent'[s] = Append(sent[s], hand[s]) /\ hand[s] # 0
      BY <1>1, <2>2 DEF SendMessage, PositionsOK, ClosedIsDone
    <3>2. sent[s] \in Seq(0 .. Len(heap)) BY DEF PositionsOK
    <3>3. \/ k \in DOMAIN sent[s] /\ sent'[s][k] = sent[s][k]
          \/ sent'[s][k] = hand[s]
      BY <3>1, <3>2
    <3> QED BY <3>1, <3>3 DEF NoNilToClient
  <2> QED BY <2>1, <2>2
<1>2. CASE UNCHANGED sent BY <1>2 DEF NoNilToClient
<1> QED
  BY <1>1, <1>2
  DEF ServerNext, SubscribeHandler, OpenSubscribe, RejectSubscribe, Register,
      OpenChannel, TakeMessage, ReturnSubscribe, Disconnect, CleanupStream,
      PublishHandler, OpenPublish, ReceivePublish, RespondPublish,
      ReturnPublish, AcknowledgeHandler, OpenAcknowledge, ReceiveAcknowledge,
      ReturnAcknowledge, Lifecycle, ServeFails, Signal, BeginStop, FinishStop,
      Exit, allVars, serverVars, subVars

\* No client that is still there is ever sent a nil message.
THEOREM ClientsGetNoNil == ServerSpec => []NoNilToClient
<1>1. ServerInit => NoNilToClient BY DEF ServerInit, NoNilToClient
<1> QED BY <1>1, NoNilStep, DoneCorrect, PositionsCorrect, PTL DEF ServerSpec

-----------------------------------------------------------------------------
(* What clients see is the lossy broadcast. *)

\* No call of the store takes back what is due to a channel that was made.
LEMMA DueKept ==
  ASSUME TypeOK, [Next]_vars, NEW s \in Subs, chanState[s] # "unmade"
  PROVE  /\ Due(s) \subseteq Due(s)'
         /\ openedAt'[s] = openedAt[s]
         /\ chanState'[s] # "unmade"
<1>1. CASE AnyStore
  <2>1. PICK m \in Message : Store(m) BY <1>1, StoreCases
  <2>2. \A n \in DOMAIN heap : n \in DOMAIN heap' /\ heap'[n] = heap[n]
    BY <2>1, StoreEffect
  <2> QED BY <2>1, <2>2 DEF Due, Store, histVars
<1>2. ASSUME NEW r \in Subs, NEW t \in Topics, Subscribe(r, t)
      PROVE  /\ Due(s) \subseteq Due(s)'
             /\ openedAt'[s] = openedAt[s]
             /\ chanState'[s] # "unmade"
  <2>1. s # r BY <1>2 DEF Subscribe
  <2>2. /\ heap' = heap /\ chanTopic'[s] = chanTopic[s]
        /\ openedAt'[s] = openedAt[s] /\ closedAt'[s] = closedAt[s]
        /\ chanState'[s] = chanState[s]
    BY <1>2, <2>1 DEF Subscribe, storeVars, TypeOK
  <2> QED BY <2>2, DueUntouched
<1>3. CASE Close \/ \E r \in Subs : Cleanup(r)
  <2>1. /\ heap' = heap /\ chanTopic' = chanTopic /\ openedAt' = openedAt
        /\ \/ chanState'[s] = "closed" /\ closedAt'[s] = Len(heap)
           \/ chanState'[s] = chanState[s] /\ closedAt'[s] = closedAt[s]
    BY <1>3 DEF Close, Cleanup, CloseChannels, storeVars
  <2> QED BY <2>1, DueUntouched, DueAtClosing
<1>4. ASSUME UNCHANGED <<heap, chanTopic, openedAt, closedAt, chanState>>
      PROVE  /\ Due(s) \subseteq Due(s)'
             /\ openedAt'[s] = openedAt[s]
             /\ chanState'[s] # "unmade"
  BY <1>4, DueUntouched
<1> HIDE DEF Due
<1> QED
  BY <1>1, <1>2, <1>3, <1>4
  DEF Next, AnyStore, Delete, Acknowledge, GetMessages, AddSubscriber,
      RemoveSubscriber, Receive, Cancel, vars, storeVars, chanVars, histVars

\* What a client was sent lies before what its handler has in hand, and that
\* before what its channel holds.
SentBefore(s) ==
  /\ C!Last(s) \in 0 .. Len(heap)
  /\ \A k \in DOMAIN chanBuf[s] : C!Last(s) < chanBuf[s][k]
  /\ subPc[s] = "send" /\ hand[s] # 0 =>
       /\ chanState[s] # "unmade"
       /\ hand[s] \in Due(s)
       /\ C!Last(s) < hand[s]
       /\ \A k \in DOMAIN chanBuf[s] : hand[s] < chanBuf[s][k]

SentInv == \A s \in Subs : SentBefore(s)

\* A stream on which nothing is taken or sent, and nothing comes in.
LEMMA SentUntouched ==
  ASSUME TypeOK, [Next]_vars, NEW s \in Subs, SentBefore(s),
         sent'[s] = sent[s], hand'[s] = hand[s], chanBuf'[s] = chanBuf[s],
         openedAt'[s] = openedAt[s],
         subPc'[s] = "send" => subPc[s] = "send"
  PROVE  SentBefore(s)'
<1>1. C!Last(s)' = C!Last(s) BY DEF C!Last
<1>2. Len(heap) \in Nat /\ Len(heap') \in Nat /\ Len(heap) <= Len(heap')
  BY HeapGrows
<1>3. C!Last(s)' \in 0 .. Len(heap') BY <1>1, <1>2 DEF SentBefore
<1>4. chanState[s] # "unmade" => chanState'[s] # "unmade" /\ Due(s) \subseteq Due(s)'
  BY DueKept
<1> HIDE DEF C!Last, Due
<1> QED BY <1>1, <1>3, <1>4 DEF SentBefore

\* A message that is stored comes after everything.
LEMMA SentStore ==
  ASSUME StoreInv, [Next]_vars, NEW s \in Subs, SentBefore(s), AnyStore,
         UNCHANGED <<sent, hand, subPc>>
  PROVE  SentBefore(s)'
<1>1. PICK m \in Message : Store(m) BY StoreCases
<1>2. openedAt' = openedAt BY <1>1 DEF Store, histVars
<1>3. CASE chanBuf'[s] = chanBuf[s]
  BY <1>2, <1>3, SentUntouched DEF StoreInv
<1>4. CASE chanBuf'[s] = Append(chanBuf[s], Len(heap) + 1) /\ chanState[s] # "unmade"
  <2>1. C!Last(s)' = C!Last(s) BY <1>2 DEF C!Last
  <2>2. Len(heap) \in Nat /\ Len(heap') = Len(heap) + 1 /\ chanBuf[s] \in Seq(Nat)
        /\ DOMAIN heap = 1 .. Len(heap)
    BY <1>1 DEF StoreInv, TypeOK, Store
  <2>3. Due(s) \subseteq Due(s)' /\ chanState'[s] # "unmade"
    BY <1>4, DueKept DEF StoreInv
  <2>4. \A k \in DOMAIN chanBuf'[s] :
          \/ k \in DOMAIN chanBuf[s] /\ chanBuf'[s][k] = chanBuf[s][k]
          \/ chanBuf'[s][k] = Len(heap) + 1
    BY <1>4, <2>2
  <2>5. \A n \in Due(s) : n \in DOMAIN heap BY DEF Due
  <2>6. C!Last(s)' \in 0 .. Len(heap')
    BY <2>1, <2>2 DEF SentBefore
  <2>7. \A k \in DOMAIN chanBuf'[s] : C!Last(s)' < chanBuf'[s][k]
    BY <2>1, <2>2, <2>4 DEF SentBefore
  <2>8. subPc[s] = "send" /\ hand[s] # 0 =>
          /\ hand[s] \in Due(s)' /\ C!Last(s)' < hand[s]
          /\ \A k \in DOMAIN chanBuf'[s] : hand[s] < chanBuf'[s][k]
    BY <2>1, <2>2, <2>3, <2>4, <2>5 DEF SentBefore
  <2> HIDE DEF C!Last, Due
  <2> QED BY <2>3, <2>6, <2>7, <2>8 DEF SentBefore
<1>5. \/ chanBuf'[s] = chanBuf[s]
      \/ chanBuf'[s] = Append(chanBuf[s], Len(heap) + 1) /\ s \in Listening(m.topic)
  BY <1>1 DEF Store, BufferLast
<1>6. s \in Listening(m.topic) => chanState[s] # "unmade"
  BY <1>1, RegisteredIsOpen DEF Listening, Message, StoreInv
<1> QED BY <1>3, <1>4, <1>5, <1>6

\* What a handler takes is the first of its channel.
LEMMA SentTake ==
  ASSUME StoreInv, HandlersOK, PositionsOK, NEW s \in Subs, SentBefore(s),
         TakeMessage(s)
  PROVE  SentBefore(s)'
<1>1. /\ subPc'[s] = "send"
      /\ UNCHANGED <<heap, sent, openedAt, chanState, closedAt, chanTopic>>
  BY DEF TakeMessage, Receive, HandlersOK, vars, storeVars, chanVars, histVars
<1>2. C!Last(s)' = C!Last(s) BY <1>1 DEF C!Last
<1>3. CASE hand' = [hand EXCEPT ![s] = 0] /\ UNCHANGED vars
  <2>1. hand'[s] = 0 /\ chanBuf' = chanBuf
    BY <1>3 DEF PositionsOK, vars, chanVars
  <2> QED BY <1>1, <1>2, <2>1 DEF SentBefore
<1>4. CASE hand' = [hand EXCEPT ![s] = Head(chanBuf[s])] /\ Receive(s)
  <2>1. /\ chanBuf[s] \in Seq(Nat) /\ chanBuf[s] # <<>>
        /\ chanBuf'[s] = Tail(chanBuf[s]) /\ hand'[s] = Head(chanBuf[s])
    BY <1>4 DEF StoreInv, TypeOK, Receive, PositionsOK
  <2>2. hand'[s] = chanBuf[s][1] /\ 1 \in DOMAIN chanBuf[s] BY <2>1
  <2>3. InOrder(s) BY DEF StoreInv, QueueInv
  <2>4. \A k \in DOMAIN chanBuf'[s] : /\ chanBuf'[s][k] = chanBuf[s][k + 1]
                                      /\ k + 1 \in DOMAIN chanBuf[s]
                                      /\ hand'[s] < chanBuf'[s][k]
    BY <2>1, <2>3, IncreasingTail DEF InOrder
  <2>5. Due(s)' = Due(s) BY <1>1, DueUntouched
  <2>6. hand'[s] \in Due(s)' /\ chanState'[s] # "unmade"
    BY <1>1, <2>1, <2>2, <2>3, <2>5 DEF InOrder
  <2>7. C!Last(s)' < hand'[s] BY <1>2, <2>2 DEF SentBefore
  <2>8. \A k \in DOMAIN chanBuf'[s] : C!Last(s)' < chanBuf'[s][k]
    BY <1>2, <2>4 DEF SentBefore
  <2>9. C!Last(s)' \in 0 .. Len(heap') BY <1>1, <1>2 DEF SentBefore
  <2> HIDE DEF C!Last, Due
  <2> QED BY <2>4, <2>6, <2>7, <2>8, <2>9 DEF SentBefore
<1> QED BY <1>3, <1>4 DEF TakeMessage

\* What is sent becomes the last that was.
LEMMA SentSend ==
  ASSUME StoreInv, HandlersOK, PositionsOK, ClosedIsDone, NEW s \in Subs,
         SentBefore(s), SendMessage(s), sent' # sent
  PROVE  /\ SentBefore(s)'
         /\ sent' = [sent EXCEPT ![s] = Append(sent[s], hand[s])]
         /\ hand[s] # 0
<1>1. /\ subPc[s] = "send" /\ subPc'[s] = "select" /\ ~ctxDone[s]
      /\ sent' = [sent EXCEPT ![s] = Append(sent[s], hand[s])]
      /\ UNCHANGED <<heap, chanBuf>>
  BY DEF SendMessage, HandlersOK, vars, storeVars, chanVars
<1>2. hand[s] # 0 BY <1>1 DEF ClosedIsDone
<1>3. /\ sent[s] \in Seq(0 .. Len(heap)) /\ sent'[s] = Append(sent[s], hand[s])
      /\ hand[s] \in 0 .. Len(heap)
  BY <1>1 DEF PositionsOK
<1>4. C!Last(s)' = hand[s]
  <2>1. sent'[s] # <<>> /\ sent'[s][Len(sent'[s])] = hand[s] BY <1>3
  <2> QED BY <2>1 DEF C!Last
<1> HIDE DEF C!Last
<1>5. SentBefore(s)' BY <1>1, <1>2, <1>3, <1>4 DEF SentBefore
<1> QED BY <1>1, <1>2, <1>5

\* A channel that is made begins at the end of the log, after whatever there is.
LEMMA SentOpen ==
  ASSUME StoreInv, HandlersOK, PositionsOK, NEW s \in Subs, SentBefore(s),
         OpenChannel(s)
  PROVE  SentBefore(s)'
<1>1. /\ subPc'[s] = "select" /\ UNCHANGED <<heap, chanBuf, sent>>
      /\ openedAt'[s] = Len(heap) /\ chanState[s] = "unmade"
  BY DEF OpenChannel, Subscribe, HandlersOK, StoreInv, TypeOK, storeVars
<1>2. chanBuf'[s] = <<>> BY <1>1 DEF StoreInv, QueueInv, InOrder
<1>3. C!Last(s)' \in 0 .. Len(heap)
  <2>1. sent[s] \in Seq(0 .. Len(heap)) /\ Len(heap) \in Nat
    BY DEF PositionsOK, StoreInv, TypeOK
  <2>2. CASE sent[s] = <<>> BY <1>1, <2>1, <2>2 DEF C!Last
  <2>3. CASE sent[s] # <<>>
    <3>1. Len(sent[s]) \in DOMAIN sent[s] BY <2>1, <2>3
    <3>2. sent[s][Len(sent[s])] \in 0 .. Len(heap) BY <2>1, <3>1
    <3> QED BY <1>1, <2>3, <3>2 DEF C!Last
  <2> QED BY <2>2, <2>3
<1> HIDE DEF C!Last
<1> QED BY <1>1, <1>2, <1>3 DEF SentBefore

\* Each step keeps the order for each stream.
LEMMA SentStep ==
  ASSUME StoreInv, HandlersOK, PositionsOK, ClosedIsDone, SentInv,
         [ServerNext]_allVars
  PROVE  SentInv'
<1> SUFFICES ASSUME NEW s \in Subs PROVE SentBefore(s)' BY DEF SentInv
<1>0. SentBefore(s) /\ TypeOK /\ [Next]_vars
  BY StoreCalls DEF SentInv, StoreInv
<1>1. ASSUME sent'[s] = sent[s], hand'[s] = hand[s], chanBuf'[s] = chanBuf[s],
             openedAt'[s] = openedAt[s], subPc'[s] = "send" => subPc[s] = "send"
      PROVE  SentBefore(s)'
  BY <1>0, <1>1, SentUntouched
<1>2. ASSUME NEW r \in Subs, TakeMessage(r) PROVE SentBefore(s)'
  <2>1. CASE r = s BY <1>0, <1>2, <2>1, SentTake
  <2>2. CASE r # s
    <3>1. /\ subPc'[s] = subPc[s] /\ hand'[s] = hand[s] /\ sent' = sent
          /\ openedAt' = openedAt /\ chanBuf'[s] = chanBuf[s]
      BY <1>0, <1>2, <2>2 DEF TakeMessage, Receive, HandlersOK, PositionsOK,
         TypeOK, vars, chanVars, histVars
    <3> QED BY <1>1, <3>1
  <2> QED BY <2>1, <2>2
<1>3. ASSUME NEW r \in Subs, SendMessage(r) PROVE SentBefore(s)'
  <2>1. UNCHANGED <<hand, chanBuf, openedAt>>
    BY <1>3 DEF SendMessage, vars, chanVars, histVars
  <2>2. subPc'[s] = "send" => subPc[s] = "send"
    BY <1>3 DEF SendMessage, HandlersOK
  <2>3. CASE sent' = sent BY <1>1, <2>1, <2>2, <2>3
  <2>4. CASE sent' # sent /\ r = s BY <1>0, <1>3, <2>4, SentSend
  <2>5. CASE sent' # sent /\ r # s
    <3>1. sent'[s] = sent[s] BY <1>3, <2>5 DEF SendMessage, PositionsOK
    <3> QED BY <1>1, <2>1, <2>2, <3>1
  <2> QED BY <2>3, <2>4, <2>5
<1>4. ASSUME NEW r \in Subs, OpenChannel(r) PROVE SentBefore(s)'
  <2>1. CASE r = s BY <1>0, <1>4, <2>1, SentOpen
  <2>2. CASE r # s
    <3>1. /\ subPc'[s] = subPc[s] /\ UNCHANGED <<hand, sent, chanBuf>>
          /\ openedAt'[s] = openedAt[s]
      BY <1>4, <2>2 DEF OpenChannel, Subscribe
    <3> QED BY <1>1, <3>1
  <2> QED BY <2>1, <2>2
<1>5. ASSUME NEW r \in Subs, OpenSubscribe(r) \/ RejectSubscribe(r)
                             \/ (\E t \in Topics, c \in Consumers : Register(r, t, c))
                             \/ ReturnSubscribe(r) \/ Disconnect(r) \/ CleanupStream(r)
      PROVE  SentBefore(s)'
  <2>1. UNCHANGED <<hand, sent, chanBuf, openedAt>>
    BY <1>5 DEF OpenSubscribe, RejectSubscribe, Register, AddSubscriber,
       ReturnSubscribe, Unregister, RemoveSubscriber, Disconnect, Cancel,
       CleanupStream, Cleanup, vars, chanVars, histVars, serverVars, subVars
  <2>2. subPc'[s] = "send" => subPc[s] = "send"
    BY <1>5 DEF OpenSubscribe, RejectSubscribe, Register, ReturnSubscribe,
       Disconnect, CleanupStream, HandlersOK, serverVars, subVars
  <2> QED BY <1>1, <2>1, <2>2
<1>6. ASSUME NEW p \in Pubs, ReceivePublish(p) PROVE SentBefore(s)'
  <2>1. AnyStore /\ UNCHANGED <<sent, hand, subPc>>
    BY <1>6 DEF ReceivePublish, AnyStore, subVars
  <2> QED BY <1>0, <2>1, SentStore
<1>7. CASE UNCHANGED <<subVars, chanBuf, openedAt>>
  BY <1>1, <1>7 DEF subVars
<1>8. ASSUME NEW p \in Pubs, PublishHandler(p), ~ReceivePublish(p)
      PROVE  UNCHANGED <<subVars, chanBuf, openedAt>>
  BY <1>8 DEF PublishHandler, OpenPublish, RespondPublish, ReturnPublish, vars,
     chanVars, histVars
<1>9. ASSUME NEW a \in Acks, AcknowledgeHandler(a)
      PROVE  UNCHANGED <<subVars, chanBuf, openedAt>>
  BY <1>9 DEF AcknowledgeHandler, OpenAcknowledge, ReceiveAcknowledge,
     Acknowledge, ReturnAcknowledge, vars, chanVars, histVars
<1>10. ASSUME Lifecycle PROVE UNCHANGED <<subVars, chanBuf, openedAt>>
  BY <1>10 DEF Lifecycle, ServeFails, Signal, BeginStop, FinishStop, Close, Exit,
     vars, chanVars, histVars
<1>11. ASSUME UNCHANGED allVars PROVE UNCHANGED <<subVars, chanBuf, openedAt>>
  BY <1>11 DEF allVars, serverVars, vars, chanVars, histVars
<1> QED
  BY <1>2, <1>3, <1>4, <1>5, <1>6, <1>7, <1>8, <1>9, <1>10, <1>11
  DEF ServerNext, SubscribeHandler

\* It holds at all times.
LEMMA SentCorrect == ServerSpec => []SentInv
<1>1. ServerInit => SentInv
  BY DEF ServerInit, Init, SentInv, SentBefore, C!Last
<1> QED BY <1>1, SentStep, DoneCorrect, PositionsCorrect, PTL DEF ServerSpec

\* Steps of which the clients see nothing.
LEMMA UnseenStep ==
  ASSUME UNCHANGED <<heap, chanState, chanTopic, sent, openedAt, closedAt>>
  PROVE  UNCHANGED C!vars
BY DEF C!vars, AbstractStatus

\* The closing of a set of open channels is the leaving of their streams.
LEMMA ClosingStreams ==
  ASSUME TypeOK, NEW gone \in SUBSET Subs, CloseChannels(gone),
         \A s \in gone : chanState[s] = "open",
         UNCHANGED <<heap, chanTopic, sent, openedAt>>
  PROVE  [C!Next]_(C!vars)
<1>1. CASE gone = {}
  <2>1. chanState' = chanState /\ closedAt' = closedAt
    BY <1>1 DEF CloseChannels, TypeOK
  <2> QED BY <2>1, UnseenStep
<1>2. CASE gone # {}
  <2>1. C!Leave(gone)
    BY <1>2 DEF C!Leave, CloseChannels, AbstractStatus
  <2> QED BY <2>1 DEF C!Next
<1> QED BY <1>1, <1>2

\* Publishing, joining, sending and closing are the steps of the broadcast; all
\* else is unseen.
LEMMA ClientsStep ==
  ASSUME StoreInv, HandlersOK, PositionsOK, ClosedIsDone, SentInv,
         [ServerNext]_allVars
  PROVE  [C!Next]_(C!vars)
<1>0. TypeOK /\ ChannelInv BY DEF StoreInv
<1>1. ASSUME NEW p \in Pubs, ReceivePublish(p) PROVE C!Next
  <2>1. PICK m \in Message : Store(m)
    BY <1>1, StoreCases DEF ReceivePublish, AnyStore
  <2>2. C!Publish(m)
    BY <1>1, <2>1 DEF C!Publish, ReceivePublish, Store, histVars, subVars,
       AbstractStatus
  <2> QED BY <2>2 DEF C!Next
<1>2. ASSUME NEW s \in Subs, OpenChannel(s) PROVE C!Next
  <2>1. wanted[s] \in Topics BY <1>2 DEF OpenChannel, HandlersOK, Registered
  <2>2. /\ sent' = sent /\ heap' = heap /\ closedAt' = closedAt
        /\ openedAt' = [openedAt EXCEPT ![s] = Len(heap)]
        /\ chanTopic' = [chanTopic EXCEPT ![s] = wanted[s]]
        /\ chanState[s] = "unmade"
        /\ \A r \in Subs : chanState'[r] = IF r = s THEN "open" ELSE chanState[r]
    BY <1>0, <1>2 DEF OpenChannel, Subscribe, storeVars, TypeOK
  <2>3. C!Join(s, wanted[s]) BY <2>2 DEF C!Join, AbstractStatus
  <2> QED BY <2>1, <2>3 DEF C!Next
<1>3. ASSUME NEW s \in Subs, SendMessage(s), sent' # sent PROVE C!Next
  <2>1. SentBefore(s) BY DEF SentInv
  <2>2. /\ sent' = [sent EXCEPT ![s] = Append(sent[s], hand[s])] /\ hand[s] # 0
    BY <1>3, <2>1, SentSend
  <2>3. /\ subPc[s] = "send"
        /\ UNCHANGED <<heap, chanState, chanTopic, openedAt, closedAt>>
    BY <1>3 DEF SendMessage, vars, storeVars, chanVars, histVars
  <2>4. /\ chanState[s] # "unmade" /\ hand[s] \in Due(s) /\ C!Last(s) < hand[s]
        /\ C!Last(s) \in Nat
    BY <2>1, <2>2, <2>3 DEF SentBefore
  <2>5. /\ Len(heap) \in Nat /\ DOMAIN heap = 1 .. Len(heap)
        /\ chanState[s] \in {"open", "closed"} /\ closedAt[s] \in Nat
    BY <1>0, <2>4 DEF TypeOK
  <2>6. /\ hand[s] \in DOMAIN heap /\ heap[hand[s]].topic = chanTopic[s]
        /\ chanState[s] = "closed" => hand[s] <= closedAt[s]
    BY <2>4 DEF Due
  <2>7. /\ C!Horizon(s) = IF chanState[s] = "open" THEN Len(heap) ELSE closedAt[s]
        /\ AbstractStatus(chanState[s]) # "idle"
    BY <2>5 DEF C!Horizon, AbstractStatus
  <2>8. hand[s] \in (C!Last(s) + 1) .. C!Horizon(s)
    BY <2>4, <2>5, <2>6, <2>7
  <2>9. C!Show(s)
    BY <2>2, <2>3, <2>6, <2>7, <2>8 DEF C!Show
  <2> QED BY <2>9 DEF C!Next
<1>4. ASSUME NEW s \in Subs, CleanupStream(s) PROVE [C!Next]_(C!vars)
  <2>1. \A r \in StillRegistered(s) : r \in Subs /\ chanState[r] = "open"
    BY <1>0, <1>4, FoundIsOpen DEF CleanupStream, Cleanup
  <2>2. /\ CloseChannels(StillRegistered(s))
        /\ UNCHANGED <<heap, chanTopic, sent, openedAt>>
    BY <1>4 DEF CleanupStream, Cleanup, storeVars, serverVars, subVars
  <2> QED BY <1>0, <2>1, <2>2, ClosingStreams
<1>5. CASE FinishStop
  <2>1. \A r \in UNION {subscribers[t] : t \in Topics} :
          r \in Subs /\ chanState[r] = "open"
    BY <1>0, RegisteredAnywhere
  <2>2. /\ CloseChannels(UNION {subscribers[t] : t \in Topics})
        /\ UNCHANGED <<heap, chanTopic, sent, openedAt>>
    BY <1>5 DEF FinishStop, Close, subVars
  <2> QED BY <1>0, <2>1, <2>2, ClosingStreams
<1>6. CASE UNCHANGED <<heap, chanState, chanTopic, sent, openedAt, closedAt>>
  BY <1>6, UnseenStep
<1>7. ASSUME NEW s \in Subs, SubscribeHandler(s), ~OpenChannel(s),
             ~CleanupStream(s), SendMessage(s) => sent' = sent
      PROVE  UNCHANGED <<heap, chanState, chanTopic, sent, openedAt, closedAt>>
  BY <1>7 DEF SubscribeHandler, OpenSubscribe, RejectSubscribe, Register,
     AddSubscriber, TakeMessage, Receive, SendMessage, ReturnSubscribe,
     Unregister, RemoveSubscriber, Disconnect, Cancel, vars, storeVars,
     chanVars, histVars, serverVars, subVars
<1>8. ASSUME NEW p \in Pubs, PublishHandler(p), ~ReceivePublish(p)
      PROVE  UNCHANGED <<heap, chanState, chanTopic, sent, openedAt, closedAt>>
  BY <1>8 DEF PublishHandler, OpenPublish, RespondPublish, ReturnPublish, vars,
     storeVars, chanVars, histVars, subVars
<1>9. ASSUME NEW a \in Acks, AcknowledgeHandler(a)
      PROVE  UNCHANGED <<heap, chanState, chanTopic, sent, openedAt, closedAt>>
  BY <1>9 DEF AcknowledgeHandler, OpenAcknowledge, ReceiveAcknowledge,
     Acknowledge, ReturnAcknowledge, vars, storeVars, chanVars, histVars, subVars
<1>10. ASSUME Lifecycle, ~FinishStop
       PROVE  UNCHANGED <<heap, chanState, chanTopic, sent, openedAt, closedAt>>
  BY <1>10 DEF Lifecycle, ServeFails, Signal, BeginStop, Exit, vars, storeVars,
     chanVars, histVars, subVars
<1>11. ASSUME UNCHANGED allVars
       PROVE  UNCHANGED <<heap, chanState, chanTopic, sent, openedAt, closedAt>>
  BY <1>11 DEF allVars, serverVars, subVars, vars, storeVars, chanVars, histVars
<1> QED
  BY <1>1, <1>2, <1>3, <1>4, <1>5, <1>6, <1>7, <1>8, <1>9, <1>10, <1>11
  DEF ServerNext

\* What clients are sent, over any number of streams that come and go and a stop,
\* is the lossy broadcast.
THEOREM ClientsSeeABroadcast == ServerSpec => ClientsSeeBroadcast
<1>1. ServerInit => C!Init
  BY DEF ServerInit, Init, C!Init, AbstractStatus
<1> QED
  BY <1>1, ClientsStep, SentCorrect, DoneCorrect, PositionsCorrect, PTL
  DEF ServerSpec, ClientsSeeBroadcast, C!Spec

-----------------------------------------------------------------------------
(* A stream whose client is gone comes to an end. *)

\* What the prover has no rules for: that a goroutine of the stream, woken by its
\* context or about to open its channel, has a step to take.
CanGoOn(s) ==
  phase # "exited" =>
    /\ subPc[s] = "registered" => ENABLED <<Running(OpenChannel(s))>>_allVars
    /\ ctxDone[s] =>
         /\ subPc[s] = "receive"
              => ENABLED <<Running(ctxDone[s] /\ RejectSubscribe(s))>>_allVars
         /\ subPc[s] = "send"
              => ENABLED <<Running(ctxDone[s] /\ SendMessage(s))>>_allVars
         /\ subPc[s] = "select" => ENABLED <<Running(ReturnSubscribe(s))>>_allVars
         /\ watcher[s] = "waiting"
              => ENABLED <<Running(CleanupStream(s))>>_allVars

StreamsCanGoOn == \A s \in Subs : CanGoOn(s)

\* Where the handler of a stream goes from where it is, and that its context, once
\* done, stays done.
LEMMA StreamMoves ==
  ASSUME StoreInv, HandlersOK, [ServerNext]_allVars, NEW s \in Subs
  PROVE  /\ ctxDone[s] => ctxDone'[s]
         /\ subPc[s] = "receive"
              => subPc'[s] \in {"receive", "registered", "returned"}
         /\ subPc[s] = "registered" => subPc'[s] \in {"registered", "select"}
         /\ subPc[s] = "select" => subPc'[s] \in {"select", "send", "returned"}
         /\ subPc[s] = "send" => subPc'[s] \in {"send", "select"}
         /\ subPc[s] = "returned" => subPc'[s] = "returned"
<1>1. ctxDone[s] => ctxDone'[s]
  <2>1. [Next]_vars BY StoreCalls
  <2>2. ctxDone \in [Subs -> BOOLEAN] BY DEF StoreInv, TypeOK
  <2>3. ASSUME NEW r \in Subs, Cancel(r) PROVE ctxDone[s] => ctxDone'[s]
    BY <2>2, <2>3 DEF Cancel
  <2>4. CASE UNCHANGED ctxDone BY <2>4
  <2> QED
    BY <2>1, <2>3, <2>4
    DEF Next, StoreUnnamed, Store, Delete, Acknowledge, GetMessages, AddSubscriber,
        RemoveSubscriber, Subscribe, Receive, Cleanup, Close, vars
<1>2. CASE UNCHANGED subPc BY <1>1, <1>2 DEF HandlersOK
<1>3. ASSUME NEW r \in Subs, NEW a, NEW b, subPc[r] = a,
             subPc' = [subPc EXCEPT ![r] = b],
             <<a, b>> \in {<<"idle", "receive">>, <<"receive", "returned">>,
                           <<"receive", "registered">>, <<"registered", "select">>,
                           <<"select", "send">>, <<"send", "select">>,
                           <<"select", "returned">>}
      PROVE  /\ subPc[s] = "receive"
                  => subPc'[s] \in {"receive", "registered", "returned"}
             /\ subPc[s] = "registered" => subPc'[s] \in {"registered", "select"}
             /\ subPc[s] = "select" => subPc'[s] \in {"select", "send", "returned"}
             /\ subPc[s] = "send" => subPc'[s] \in {"send", "select"}
             /\ subPc[s] = "returned" => subPc'[s] = "returned"
  <2>1. CASE r = s BY <1>3, <2>1 DEF HandlersOK
  <2>2. CASE r # s
    <3>1. subPc'[s] = subPc[s] BY <1>3, <2>2 DEF HandlersOK
    <3> QED BY <3>1
  <2> QED BY <2>1, <2>2
<1>4. ASSUME NEW r \in Subs, SubscribeHandler(r)
      PROVE  \/ UNCHANGED subPc
             \/ \E a, b : /\ subPc[r] = a /\ subPc' = [subPc EXCEPT ![r] = b]
                          /\ <<a, b>> \in
                               {<<"idle", "receive">>, <<"receive", "returned">>,
                                <<"receive", "registered">>,
                                <<"registered", "select">>,
                                <<"select", "send">>, <<"send", "select">>,
                                <<"select", "returned">>}
  BY <1>4
  DEF SubscribeHandler, OpenSubscribe, RejectSubscribe, Register, OpenChannel,
      TakeMessage, SendMessage, ReturnSubscribe, Disconnect, CleanupStream,
      serverVars, subVars
<1>5. ASSUME ~(\E r \in Subs : SubscribeHandler(r)) PROVE UNCHANGED subPc
  BY <1>5
  DEF ServerNext, PublishHandler, OpenPublish, ReceivePublish, RespondPublish,
      ReturnPublish, AcknowledgeHandler, OpenAcknowledge, ReceiveAcknowledge,
      ReturnAcknowledge, Lifecycle, ServeFails, Signal, BeginStop, FinishStop,
      Exit, allVars, serverVars, subVars
<1> QED BY <1>1, <1>2, <1>3, <1>4, <1>5

\* Where the steps that are fair bring it.
LEMMA FairSteps ==
  ASSUME StoreInv, HandlersOK, NEW s \in Subs
  PROVE  /\ Running(OpenChannel(s)) => subPc'[s] = "select"
         /\ Running(ctxDone[s] /\ RejectSubscribe(s)) => subPc'[s] = "returned"
         /\ Running(ctxDone[s] /\ SendMessage(s)) => subPc'[s] = "select"
         /\ Running(ReturnSubscribe(s)) => subPc'[s] = "returned"
         /\ Running(CleanupStream(s)) => chanState'[s] # "open"
<1>1. /\ Running(OpenChannel(s)) => subPc'[s] = "select"
      /\ Running(ctxDone[s] /\ RejectSubscribe(s)) => subPc'[s] = "returned"
      /\ Running(ctxDone[s] /\ SendMessage(s)) => subPc'[s] = "select"
      /\ Running(ReturnSubscribe(s)) => subPc'[s] = "returned"
  BY DEF Running, OpenChannel, RejectSubscribe, SendMessage, ReturnSubscribe,
         HandlersOK
<1>2. Running(CleanupStream(s)) => chanState'[s] # "open"
  <2> SUFFICES ASSUME Cleanup(s) PROVE chanState'[s] # "open"
    BY DEF Running, CleanupStream
  <2>1. chanState' = [q \in Subs |-> IF q \in StillRegistered(s) THEN "closed"
                                     ELSE chanState[q]]
    BY DEF Cleanup, CloseChannels
  <2>2. chanState[s] = "open" => s \in StillRegistered(s)
    BY FoundIsOpen DEF StoreInv, Cleanup
  <2> QED BY <2>1, <2>2
<1> QED BY <1>1, <1>2

\* A Subscribe stream whose client is gone comes to an end, its handler and its
\* channel too, whatever is buffered and whoever publishes meanwhile: for any
\* number of streams, messages and any capacity of a channel.
THEOREM StreamsEnd ==
  ServerFairSpec /\ []StreamsCanGoOn => CancelledStreamEnds
<1> DEFINE Gone(s) == ctxDone[s]
           At(s, pc) == subPc[s] = pc
           Open(s) == chanState[s] = "open"
           Waits(s) == watcher[s] = "waiting"
           Exited == phase = "exited"
<1> SUFFICES ASSUME NEW s \in Subs
             PROVE  ServerFairSpec /\ []StreamsCanGoOn =>
                      (ctxDone[s] /\ Ongoing(subPc[s]) ~>
                         \/ subPc[s] = "returned" /\ chanState[s] # "open"
                         \/ phase = "exited")
  BY DEF CancelledStreamEnds
<1>1. StoreInv /\ HandlersOK /\ [ServerNext]_allVars =>
        /\ Gone(s) => Gone(s)'
        /\ At(s, "receive") =>
             At(s, "receive")' \/ At(s, "registered")' \/ At(s, "returned")'
        /\ At(s, "registered") => At(s, "registered")' \/ At(s, "select")'
        /\ At(s, "select") =>
             At(s, "select")' \/ At(s, "send")' \/ At(s, "returned")'
        /\ At(s, "send") => At(s, "send")' \/ At(s, "select")'
        /\ At(s, "returned") => At(s, "returned")'
  BY StreamMoves
<1>2. StoreInv /\ HandlersOK =>
        /\ <<Running(OpenChannel(s))>>_allVars => At(s, "select")'
        /\ <<Running(ctxDone[s] /\ RejectSubscribe(s))>>_allVars
             => At(s, "returned")'
        /\ <<Running(ctxDone[s] /\ SendMessage(s))>>_allVars => At(s, "select")'
        /\ <<Running(ReturnSubscribe(s))>>_allVars => At(s, "returned")'
        /\ <<Running(CleanupStream(s))>>_allVars => (~Open(s))'
  BY FairSteps
<1>3. StreamsCanGoOn /\ ~Exited =>
        /\ At(s, "registered") => ENABLED <<Running(OpenChannel(s))>>_allVars
        /\ Gone(s) /\ At(s, "receive")
             => ENABLED <<Running(ctxDone[s] /\ RejectSubscribe(s))>>_allVars
        /\ Gone(s) /\ At(s, "send")
             => ENABLED <<Running(ctxDone[s] /\ SendMessage(s))>>_allVars
        /\ Gone(s) /\ At(s, "select")
             => ENABLED <<Running(ReturnSubscribe(s))>>_allVars
        /\ Gone(s) /\ Waits(s) => ENABLED <<Running(CleanupStream(s))>>_allVars
  BY DEF StreamsCanGoOn, CanGoOn
<1>4. StoreInv => (Open(s) => Waits(s)) BY DEF StoreInv, ChannelInv, Registry
<1>5. HandlersOK /\ Ongoing(subPc[s]) =>
        At(s, "receive") \/ At(s, "registered") \/ At(s, "select") \/ At(s, "send")
  BY DEF HandlersOK, Ongoing
<1>6. ServerFairSpec => StreamFairness(s) BY DEF ServerFairSpec, ServerFairness
<1>7. ServerFairSpec => ServerSpec BY DEF ServerFairSpec
<1>8. ServerSpec => [][ServerNext]_allVars BY DEF ServerSpec
<1>9. ~Open(s) => chanState[s] # "open" OBVIOUS
<1> QED
  BY <1>1, <1>2, <1>3, <1>4, <1>5, <1>6, <1>7, <1>8, <1>9, StoreInServer,
     HandlersCorrect, PTL
  DEF StreamFairness

=============================================================================
