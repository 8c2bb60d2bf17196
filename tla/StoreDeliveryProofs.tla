------------------------ MODULE StoreDeliveryProofs ------------------------
(***************************************************************************)
(* Theorems about what MessageStore hands its subscribers: the order of    *)
(* delivery, and that the store implements the lossy broadcast.            *)
(***************************************************************************)
EXTENDS MessageStoreProofs, SequenceTheorems, FiniteSetTheorems

Increasing(q) == \A j, k \in DOMAIN q : j < k => q[j] < q[k]

\* Appending a number larger than every entry keeps a sequence increasing.
LEMMA IncreasingAppend ==
  ASSUME NEW q \in Seq(Nat), NEW n \in Nat, Increasing(q),
         \A k \in DOMAIN q : q[k] < n
  PROVE  Increasing(Append(q, n))
<1> SUFFICES ASSUME NEW j \in DOMAIN Append(q, n), NEW k \in DOMAIN Append(q, n),
                    j < k
             PROVE  Append(q, n)[j] < Append(q, n)[k]
  BY DEF Increasing
<1>1. j \in 1 .. Len(q) /\ k \in 1 .. Len(q) + 1 OBVIOUS
<1>2. Append(q, n)[j] = q[j] BY <1>1
<1>3. CASE k = Len(q) + 1 BY <1>1, <1>2, <1>3
<1>4. CASE k \in 1 .. Len(q) BY <1>1, <1>2, <1>4 DEF Increasing
<1> QED BY <1>1, <1>3, <1>4

\* So does dropping the first entry, which is smaller than all others.
LEMMA IncreasingTail ==
  ASSUME NEW q \in Seq(Nat), q # <<>>, Increasing(q)
  PROVE  /\ Increasing(Tail(q))
         /\ \A k \in DOMAIN Tail(q) : Tail(q)[k] = q[k + 1] /\ k + 1 \in DOMAIN q
         /\ \A k \in DOMAIN Tail(q) : Head(q) < Tail(q)[k]
<1>1. /\ Len(q) \in Nat /\ Len(q) > 0
      /\ DOMAIN Tail(q) = 1 .. Len(q) - 1
      /\ DOMAIN q = 1 .. Len(q)
      /\ Head(q) = q[1]
  OBVIOUS
<1>2. \A k \in DOMAIN Tail(q) : Tail(q)[k] = q[k + 1] /\ k + 1 \in DOMAIN q
  BY <1>1
<1>3. \A k \in DOMAIN Tail(q) : Head(q) < Tail(q)[k]
  BY <1>1, <1>2 DEF Increasing
<1>4. Increasing(Tail(q))
  BY <1>1, <1>2 DEF Increasing
<1> QED BY <1>2, <1>3, <1>4

\* The entries of a concatenation, by the part they come from.
LEMMA JoinEntries ==
  ASSUME NEW r \in Seq(Nat), NEW b \in Seq(Nat), NEW k \in DOMAIN (r \o b)
  PROVE  \/ k \in DOMAIN r /\ (r \o b)[k] = r[k]
         \/ /\ k > Len(r)
            /\ k - Len(r) \in DOMAIN b
            /\ (r \o b)[k] = b[k - Len(r)]
<1>1. Len(r) \in Nat /\ Len(b) \in Nat OBVIOUS
<1>2. r \o b \in Seq(Nat) /\ Len(r \o b) = Len(r) + Len(b)
  BY ConcatProperties
<1>3. k \in 1 .. Len(r) + Len(b) BY <1>2
<1>4. (r \o b)[k] = IF k <= Len(r) THEN r[k] ELSE b[k - Len(r)]
  BY <1>3, ConcatProperties
<1>5. DOMAIN r = 1 .. Len(r) /\ DOMAIN b = 1 .. Len(b) OBVIOUS
<1>6. CASE k <= Len(r) BY <1>1, <1>3, <1>4, <1>5, <1>6
<1>7. CASE k > Len(r)
  <2>1. k - Len(r) \in 1 .. Len(b) BY <1>1, <1>3, <1>7
  <2> QED BY <1>1, <1>3, <1>4, <1>5, <1>7, <2>1
<1> QED BY <1>1, <1>3, <1>6, <1>7

\* Every entry of the parts of a concatenation is an entry of the whole.
LEMMA JoinCovers ==
  ASSUME NEW r \in Seq(Nat), NEW b \in Seq(Nat)
  PROVE  /\ \A j \in DOMAIN r : \E i \in DOMAIN (r \o b) : (r \o b)[i] = r[j]
         /\ \A k \in DOMAIN b : \E i \in DOMAIN (r \o b) : (r \o b)[i] = b[k]
<1>1. /\ Len(r) \in Nat /\ DOMAIN r = 1 .. Len(r)
      /\ Len(b) \in Nat /\ DOMAIN b = 1 .. Len(b)
  OBVIOUS
<1>2. DOMAIN (r \o b) = 1 .. Len(r) + Len(b)
  <2>1. r \o b \in Seq(Nat) /\ Len(r \o b) = Len(r) + Len(b)
    BY ConcatProperties
  <2> QED BY <2>1
<1>3. \A i \in 1 .. Len(r) + Len(b) :
        (r \o b)[i] = IF i <= Len(r) THEN r[i] ELSE b[i - Len(r)]
  BY ConcatProperties
<1>4. ASSUME NEW j \in DOMAIN r
      PROVE  j \in DOMAIN (r \o b) /\ (r \o b)[j] = r[j]
  <2>1. j \in 1 .. Len(r) + Len(b) /\ j <= Len(r) BY <1>1
  <2> QED BY <1>2, <1>3, <2>1
<1>5. ASSUME NEW k \in DOMAIN b
      PROVE  Len(r) + k \in DOMAIN (r \o b) /\ (r \o b)[Len(r) + k] = b[k]
  <2>1. /\ Len(r) + k \in 1 .. Len(r) + Len(b)
        /\ ~(Len(r) + k <= Len(r))
        /\ (Len(r) + k) - Len(r) = k
    BY <1>1
  <2> QED BY <1>2, <1>3, <2>1
<1> QED BY <1>4, <1>5

\* Two increasing sequences, the first below the second, join to one.
LEMMA IncreasingJoin ==
  ASSUME NEW r \in Seq(Nat), NEW b \in Seq(Nat), Increasing(r), Increasing(b),
         \A j \in DOMAIN r, k \in DOMAIN b : r[j] < b[k]
  PROVE  Increasing(r \o b)
<1> SUFFICES ASSUME NEW j \in DOMAIN (r \o b), NEW k \in DOMAIN (r \o b), j < k
             PROVE  (r \o b)[j] < (r \o b)[k]
  BY DEF Increasing
<1>1. Len(r) \in Nat /\ DOMAIN r = 1 .. Len(r) OBVIOUS
<1>2. j \in Nat /\ k \in Nat
  <2>1. DOMAIN (r \o b) = 1 .. Len(r \o b) /\ Len(r \o b) \in Nat
    BY ConcatProperties
  <2> QED BY <2>1
<1>3. CASE k \in DOMAIN r /\ (r \o b)[k] = r[k]
  <2>1. j \in DOMAIN r /\ (r \o b)[j] = r[j]
    BY <1>1, <1>2, <1>3, JoinEntries
  <2> QED BY <1>3, <2>1 DEF Increasing
<1>4. CASE k - Len(r) \in DOMAIN b /\ (r \o b)[k] = b[k - Len(r)]
  <2>1. CASE j \in DOMAIN r /\ (r \o b)[j] = r[j] BY <1>4, <2>1
  <2>2. CASE j - Len(r) \in DOMAIN b /\ (r \o b)[j] = b[j - Len(r)]
    <3>1. j - Len(r) < k - Len(r) BY <1>1, <1>2
    <3> QED BY <1>4, <2>2, <3>1 DEF Increasing
  <2> QED BY <2>1, <2>2, JoinEntries
<1> QED BY <1>3, <1>4, JoinEntries

-----------------------------------------------------------------------------
(* The order of delivery. *)

\* What one subscriber took and what its channel holds, taken apart.
InOrder(s) ==
  /\ Increasing(received[s])
  /\ Increasing(chanBuf[s])
  /\ \A j \in DOMAIN received[s], k \in DOMAIN chanBuf[s] :
       received[s][j] < chanBuf[s][k]
  /\ \A j \in DOMAIN received[s] : received[s][j] \in Due(s)
  /\ \A k \in DOMAIN chanBuf[s] : chanBuf[s][k] \in Due(s)
  /\ chanState[s] = "unmade" => received[s] = <<>> /\ chanBuf[s] = <<>>

QueueInv == \A s \in Subs : InOrder(s)

\* A channel was made at some length the log has had.
OpenedBefore == \A s \in Subs : openedAt[s] <= Len(heap)

\* No step makes a channel later than the end of the log.
LEMMA OpenedStep ==
  ASSUME TypeOK, OpenedBefore, [Next]_vars
  PROVE  OpenedBefore'
<1>1. /\ Len(heap) \in Nat
      /\ \A s \in Subs : openedAt[s] \in Nat
  BY DEF TypeOK
<1>2. CASE AnyStore
  <2>1. PICK m \in Message : Store(m) BY <1>2, StoreCases
  <2>2. Len(heap') = Len(heap) + 1 /\ openedAt' = openedAt
    BY <2>1 DEF Store, TypeOK, histVars
  <2> QED BY <1>1, <2>2 DEF OpenedBefore
<1>3. ASSUME NEW s \in Subs, NEW t \in Topics, Subscribe(s, t)
      PROVE  OpenedBefore'
  BY <1>1, <1>3 DEF Subscribe, storeVars, OpenedBefore, TypeOK
<1>4. CASE UNCHANGED <<heap, openedAt>> BY <1>4 DEF OpenedBefore
<1> QED
  BY <1>2, <1>3, <1>4
  DEF Next, AnyStore, Delete, Acknowledge, GetMessages, AddSubscriber,
      RemoveSubscriber, Receive, Cancel, Cleanup, Close, vars, storeVars, histVars

\* A subscriber whose sequences are left alone stays in order as long as what
\* was due to it still is.
LEMMA QueueUntouched ==
  ASSUME NEW s \in Subs, InOrder(s),
         received'[s] = received[s], chanBuf'[s] = chanBuf[s],
         Due(s) \subseteq Due(s)',
         chanState'[s] = "unmade" => chanState[s] = "unmade"
  PROVE  InOrder(s)'
BY DEF InOrder, Increasing

\* What is due to a subscriber is left alone by a step that leaves alone the
\* log and the history of its channel.
LEMMA DueUntouched ==
  ASSUME NEW s \in Subs, heap' = heap, chanTopic'[s] = chanTopic[s],
         openedAt'[s] = openedAt[s], closedAt'[s] = closedAt[s],
         chanState'[s] = chanState[s]
  PROVE  Due(s)' = Due(s)
BY DEF Due

\* Nothing that is due is lost when a channel is closed.
LEMMA DueAtClosing ==
  ASSUME TypeOK, NEW s \in Subs, heap' = heap, chanTopic'[s] = chanTopic[s],
         openedAt'[s] = openedAt[s], closedAt'[s] = Len(heap)
  PROVE  Due(s) \subseteq Due(s)'
<1>1. DOMAIN heap = 1 .. Len(heap) /\ Len(heap) \in Nat BY DEF TypeOK
<1> QED BY <1>1 DEF Due

\* Each step of the store keeps every subscriber in order.
LEMMA QueueStep ==
  ASSUME TypeOK, ChannelInv, OpenedBefore, QueueInv, [Next]_vars
  PROVE  QueueInv'
<1> SUFFICES ASSUME NEW s \in Subs PROVE InOrder(s)' BY DEF QueueInv
<1>0. InOrder(s) BY DEF QueueInv
<1>1. CASE AnyStore
  <2>1. PICK m \in Message : Store(m) BY <1>1, StoreCases
  <2>2. /\ heap \in Seq(Message) /\ Len(heap) \in Nat
        /\ DOMAIN heap = 1 .. Len(heap)
        /\ heap' = Append(heap, m)
        /\ DOMAIN heap' = 1 .. Len(heap) + 1
        /\ heap'[Len(heap) + 1] = m
        /\ \A p \in DOMAIN heap : heap'[p] = heap[p]
    BY <2>1 DEF TypeOK, Store
  <2>3. Due(s) \subseteq Due(s)'
    BY <2>1, <2>2 DEF Due, Store, histVars
  <2>4. CASE chanBuf'[s] = chanBuf[s]
    BY <1>0, <2>1, <2>3, <2>4, QueueUntouched DEF Store, histVars
  <2>5. CASE /\ s \in Listening(m.topic)
             /\ chanBuf'[s] = Append(chanBuf[s], Len(heap) + 1)
    <3>1. chanState[s] = "open" /\ chanTopic[s] = m.topic
      BY <2>5, RegisteredIsOpen DEF Listening, Message
    <3>2. Len(heap) + 1 \in Due(s)'
      <4>1. openedAt'[s] < Len(heap) + 1
        BY <2>1, <2>2 DEF OpenedBefore, TypeOK, Store, histVars
      <4> QED BY <2>1, <2>2, <3>1, <4>1 DEF Due, Store
    <3>3. /\ received[s] \in Seq(Nat) /\ chanBuf[s] \in Seq(Nat)
          /\ received'[s] = received[s] /\ chanState'[s] = chanState[s]
      BY <2>1 DEF TypeOK, Store, histVars
    <3>4. \A p \in Due(s) : p \in Nat /\ p < Len(heap) + 1
      BY <2>2 DEF Due
    <3>5. Increasing(chanBuf'[s])
      BY <1>0, <2>2, <2>5, <3>3, <3>4, IncreasingAppend DEF InOrder
    <3>6. \A k \in DOMAIN chanBuf'[s] :
            \/ k \in DOMAIN chanBuf[s] /\ chanBuf'[s][k] = chanBuf[s][k]
            \/ chanBuf'[s][k] = Len(heap) + 1
      BY <2>5, <3>3
    <3>7. \A k \in DOMAIN chanBuf'[s] : chanBuf'[s][k] \in Due(s)'
      BY <1>0, <2>3, <3>2, <3>6 DEF InOrder
    <3>8. \A j \in DOMAIN received'[s], k \in DOMAIN chanBuf'[s] :
            received'[s][j] < chanBuf'[s][k]
      BY <1>0, <3>3, <3>4, <3>6 DEF InOrder
    <3>9. \A j \in DOMAIN received'[s] : received'[s][j] \in Due(s)'
      BY <1>0, <2>3, <3>3 DEF InOrder
    <3> QED BY <1>0, <3>1, <3>3, <3>5, <3>7, <3>8, <3>9 DEF InOrder
  <2> QED BY <2>1, <2>4, <2>5 DEF Store, BufferLast
<1>2. ASSUME NEW i \in MsgIds, Delete(i) PROVE InOrder(s)'
  BY <1>0, <1>2, QueueUntouched, DueUntouched DEF Delete, chanVars, histVars
<1>3. ASSUME NEW i \in MsgIds, NEW c \in Consumers \cup {NoConsumer},
             Acknowledge(i, c)
      PROVE  InOrder(s)'
  BY <1>0, <1>3, QueueUntouched, DueUntouched
  DEF Acknowledge, storeVars, chanVars, histVars
<1>4. ASSUME NEW t \in Topics, NEW c \in Consumers \cup {NoConsumer},
             NEW n \in BatchSizes, GetMessages(t, c, n)
      PROVE  InOrder(s)'
  BY <1>0, <1>4, QueueUntouched, DueUntouched
  DEF GetMessages, storeVars, chanVars, histVars
<1>5. ASSUME NEW c \in Consumers, NEW t \in Topics, AddSubscriber(c, t)
      PROVE  InOrder(s)'
  BY <1>0, <1>5, QueueUntouched, DueUntouched
  DEF AddSubscriber, storeVars, chanVars, histVars
<1>6. ASSUME NEW c \in Consumers, RemoveSubscriber(c) PROVE InOrder(s)'
  BY <1>0, <1>6, QueueUntouched, DueUntouched
  DEF RemoveSubscriber, storeVars, chanVars, histVars
<1>7. ASSUME NEW r \in Subs, NEW t \in Topics, Subscribe(r, t)
      PROVE  InOrder(s)'
  <2>1. CASE s = r
    <3>1. received'[s] = <<>> /\ chanBuf'[s] = <<>>
      BY <1>0, <1>7, <2>1 DEF Subscribe, InOrder
    <3> QED BY <3>1 DEF InOrder, Increasing
  <2>2. CASE s # r
    <3>1. /\ heap' = heap /\ received' = received /\ chanBuf' = chanBuf
          /\ chanTopic'[s] = chanTopic[s] /\ openedAt'[s] = openedAt[s]
          /\ closedAt' = closedAt /\ chanState'[s] = chanState[s]
      BY <1>7, <2>2 DEF Subscribe, storeVars, TypeOK
    <3> QED BY <1>0, <3>1, QueueUntouched, DueUntouched
  <2> QED BY <2>1, <2>2
<1>8. ASSUME NEW r \in Subs, Receive(r) PROVE InOrder(s)'
  <2>1. Due(s)' = Due(s)
    BY <1>8, DueUntouched DEF Receive, storeVars
  <2>2. CASE s # r
    <3>1. received'[s] = received[s] /\ chanBuf'[s] = chanBuf[s]
      BY <1>8, <2>2 DEF Receive, TypeOK
    <3> QED BY <1>0, <1>8, <2>1, <3>1, QueueUntouched DEF Receive
  <2>3. CASE s = r
    <3> DEFINE p == Head(chanBuf[s])
    <3>1. /\ chanBuf[s] \in Seq(Nat) /\ chanBuf[s] # <<>>
          /\ received[s] \in Seq(Nat)
          /\ received'[s] = Append(received[s], p)
          /\ chanBuf'[s] = Tail(chanBuf[s])
          /\ chanState'[s] = chanState[s]
      BY <1>8, <2>3 DEF Receive, TypeOK
    <3>2. p = chanBuf[s][1] /\ 1 \in DOMAIN chanBuf[s] /\ p \in Nat BY <3>1
    <3>3. /\ Increasing(chanBuf'[s])
          /\ \A k \in DOMAIN chanBuf'[s] : /\ chanBuf'[s][k] = chanBuf[s][k + 1]
                                           /\ k + 1 \in DOMAIN chanBuf[s]
                                           /\ p < chanBuf'[s][k]
      BY <1>0, <3>1, IncreasingTail DEF InOrder
    <3>4. Increasing(received'[s])
      BY <1>0, <3>1, <3>2, IncreasingAppend DEF InOrder
    <3>5. \A j \in DOMAIN received'[s] :
            \/ j \in DOMAIN received[s] /\ received'[s][j] = received[s][j]
            \/ received'[s][j] = p
      BY <3>1, <3>2
    <3>6. \A j \in DOMAIN received'[s], k \in DOMAIN chanBuf'[s] :
            received'[s][j] < chanBuf'[s][k]
      BY <1>0, <3>3, <3>5 DEF InOrder
    <3>7. \A j \in DOMAIN received'[s] : received'[s][j] \in Due(s)'
      BY <1>0, <2>1, <3>2, <3>5 DEF InOrder
    <3>8. \A k \in DOMAIN chanBuf'[s] : chanBuf'[s][k] \in Due(s)'
      BY <1>0, <2>1, <3>3 DEF InOrder
    <3>9. chanState'[s] # "unmade" BY <1>0, <3>1 DEF InOrder
    <3> QED BY <3>3, <3>4, <3>6, <3>7, <3>8, <3>9 DEF InOrder
  <2> QED BY <2>2, <2>3
<1>9. ASSUME NEW r \in Subs, Cancel(r) PROVE InOrder(s)'
  BY <1>0, <1>9, QueueUntouched, DueUntouched
  DEF Cancel, storeVars, chanVars, histVars
<1>10. ASSUME NEW r \in Subs, Cleanup(r) PROVE InOrder(s)'
  <2>1. /\ heap' = heap /\ received' = received /\ chanBuf' = chanBuf
        /\ chanTopic' = chanTopic /\ openedAt' = openedAt
    BY <1>10 DEF Cleanup, storeVars
  <2>2. \/ chanState'[s] = "closed" /\ closedAt'[s] = Len(heap)
        \/ chanState'[s] = chanState[s] /\ closedAt'[s] = closedAt[s]
    BY <1>10 DEF Cleanup, CloseChannels
  <2> QED BY <1>0, <2>1, <2>2, QueueUntouched, DueUntouched, DueAtClosing
<1>11. CASE Close
  <2>1. /\ heap' = heap /\ received' = received /\ chanBuf' = chanBuf
        /\ chanTopic' = chanTopic /\ openedAt' = openedAt
    BY <1>11 DEF Close
  <2>2. \/ chanState'[s] = "closed" /\ closedAt'[s] = Len(heap)
        \/ chanState'[s] = chanState[s] /\ closedAt'[s] = closedAt[s]
    BY <1>11 DEF Close, CloseChannels
  <2> QED BY <1>0, <2>1, <2>2, QueueUntouched, DueUntouched, DueAtClosing
<1>12. CASE UNCHANGED vars
  BY <1>0, <1>12, QueueUntouched, DueUntouched
  DEF vars, storeVars, chanVars, histVars
<1> QED
  BY <1>1, <1>2, <1>3, <1>4, <1>5, <1>6, <1>7, <1>8, <1>9, <1>10, <1>11, <1>12
  DEF Next, AnyStore

\* The invariants that need one another, in every state.
LEMMA QueuesCorrect == Spec => [](TypeOK /\ ChannelInv /\ OpenedBefore /\ QueueInv)
<1>1. Init => OpenedBefore /\ QueueInv
  BY DEF Init, OpenedBefore, QueueInv, InOrder, Increasing
<1> QED
  BY <1>1, OpenedStep, QueueStep, TypeCorrect, ChannelsCorrect, PTL DEF Spec

\* What a subscriber was given, joined again.
LEMMA DeliveredInOrder ==
  ASSUME TypeOK, NEW s \in Subs, InOrder(s)
  PROVE  /\ \A k \in DOMAIN Delivered(s) : chanState[s] # "unmade"
                                           /\ Delivered(s)[k] \in Due(s)
         /\ \A j, k \in DOMAIN Delivered(s) :
              j < k => Delivered(s)[j] < Delivered(s)[k]
<1>1. received[s] \in Seq(Nat) /\ chanBuf[s] \in Seq(Nat) BY DEF TypeOK
<1>2. ASSUME NEW k \in DOMAIN Delivered(s)
      PROVE  chanState[s] # "unmade" /\ Delivered(s)[k] \in Due(s)
  <2>1. \/ k \in DOMAIN received[s] /\ Delivered(s)[k] = received[s][k]
        \/ /\ k - Len(received[s]) \in DOMAIN chanBuf[s]
           /\ Delivered(s)[k] = chanBuf[s][k - Len(received[s])]
    BY <1>1, <1>2, JoinEntries DEF Delivered
  <2>2. received[s] # <<>> \/ chanBuf[s] # <<>> BY <1>1, <2>1
  <2> QED BY <2>1, <2>2 DEF InOrder
<1>3. Increasing(Delivered(s))
  BY <1>1, IncreasingJoin DEF Delivered, InOrder
<1> QED BY <1>2, <1>3 DEF Increasing

\* Subscribers are given messages of their topic, from the time they were
\* subscribed, in the order of Store and none of them twice.
THEOREM DeliveryInOrder == Spec => []DeliveryOrder
<1>1. TypeOK /\ QueueInv => DeliveryOrder
  BY DeliveredInOrder DEF QueueInv, DeliveryOrder
<1> QED BY <1>1, QueuesCorrect, PTL

-----------------------------------------------------------------------------
(* The store implements the lossy broadcast. *)

\* The log position a subscriber has come to lies before every message in its
\* channel.
LEMMA LastBefore ==
  ASSUME TypeOK, NEW s \in Subs, InOrder(s)
  PROVE  /\ B!Last(s) \in Nat
         /\ \A k \in DOMAIN chanBuf[s] : B!Last(s) < chanBuf[s][k]
<1>1. CASE received[s] = <<>>
  BY <1>1 DEF B!Last, InOrder, Due, TypeOK
<1>2. CASE received[s] # <<>>
  <2>1. received[s] \in Seq(Nat) BY DEF TypeOK
  <2>2. Len(received[s]) \in DOMAIN received[s] BY <1>2, <2>1
  <2> QED BY <1>2, <2>1, <2>2 DEF B!Last, InOrder
<1> QED BY <1>1, <1>2

\* Steps that leave the log, the channels' lives and what was taken alone.
LEMMA Stutter ==
  ASSUME UNCHANGED <<heap, chanState, chanTopic, received, openedAt, closedAt>>
  PROVE  UNCHANGED B!vars
BY DEF B!vars, AbstractStatus

\* Closing a set of open channels is the leaving of their subscriptions.
LEMMA Closing ==
  ASSUME TypeOK, NEW gone \in SUBSET Subs, CloseChannels(gone),
         \A s \in gone : chanState[s] = "open",
         UNCHANGED <<heap, chanTopic, received, openedAt>>
  PROVE  B!Next \/ UNCHANGED B!vars
<1>1. CASE gone = {}
  <2>1. chanState' = chanState /\ closedAt' = closedAt
    BY <1>1 DEF CloseChannels, TypeOK
  <2> QED BY <2>1, Stutter
<1>2. CASE gone # {}
  <2>1. B!Leave(gone)
    BY <1>2 DEF B!Leave, CloseChannels, AbstractStatus
  <2> QED BY <2>1 DEF B!Next
<1> QED BY <1>1, <1>2

\* Each step of the store is a step of the broadcast or leaves it alone.
LEMMA BroadcastStep ==
  ASSUME TypeOK, ChannelInv, QueueInv, [Next]_vars
  PROVE  [B!Next]_(B!vars)
<1>1. CASE AnyStore
  <2>1. PICK m \in Message : Store(m) BY <1>1, StoreCases
  <2>2. B!Publish(m)
    BY <2>1 DEF B!Publish, Store, histVars, AbstractStatus
  <2> QED BY <2>2 DEF B!Next
<1>2. ASSUME NEW s \in Subs, NEW t \in Topics, Subscribe(s, t)
      PROVE  B!Next
  <2>1. received' = received
    BY <1>2 DEF Subscribe
  <2>2. openedAt' = [openedAt EXCEPT ![s] = Len(heap)]
    BY <1>2 DEF Subscribe
  <2>3. \A r \in Subs : chanState'[r] = IF r = s THEN "open" ELSE chanState[r]
    BY <1>2 DEF Subscribe, TypeOK
  <2>4. /\ heap' = heap /\ closedAt' = closedAt /\ chanState[s] = "unmade"
        /\ chanTopic' = [chanTopic EXCEPT ![s] = t]
    BY <1>2 DEF Subscribe, storeVars
  <2>5. B!Join(s, t)
    BY <2>1, <2>2, <2>3, <2>4 DEF B!Join, AbstractStatus
  <2> QED BY <2>5 DEF B!Next
<1>3. ASSUME NEW s \in Subs, Receive(s) PROVE B!Next
  <2> DEFINE p == Head(chanBuf[s])
  <2>1. InOrder(s) BY DEF QueueInv
  <2>2. /\ chanBuf[s] \in Seq(Nat) /\ chanBuf[s] # <<>>
        /\ received[s] \in Seq(Nat) /\ p \in Nat
        /\ p = chanBuf[s][1] /\ 1 \in DOMAIN chanBuf[s]
        /\ received' = [received EXCEPT ![s] = Append(received[s], p)]
    BY <1>3 DEF Receive, TypeOK
  <2>3. p \in Due(s) /\ chanState[s] # "unmade"
    BY <2>1, <2>2 DEF InOrder
  <2>4. UNCHANGED <<heap, chanState, chanTopic, openedAt, closedAt>>
    BY <1>3 DEF Receive, storeVars
  <2>5. B!Last(s) \in Nat /\ B!Last(s) < p
    BY <2>1, <2>2, LastBefore
  <2>6. /\ chanState[s] = "open" => p \in (B!Last(s) + 1) .. Len(heap)
        /\ chanState[s] = "closed" => p \in (B!Last(s) + 1) .. closedAt[s]
        /\ heap[p].topic = chanTopic[s]
        /\ chanState[s] \in {"open", "closed"}
    BY <2>2, <2>3, <2>5 DEF Due, TypeOK
  <2>7. B!Horizon(s) = IF chanState[s] = "open" THEN Len(heap) ELSE closedAt[s]
    BY <2>6 DEF B!Horizon, AbstractStatus
  <2>8. /\ p \in (B!Last(s) + 1) .. B!Horizon(s)
        /\ AbstractStatus(chanState[s]) # "idle"
    BY <2>6, <2>7 DEF AbstractStatus
  <2>9. B!Show(s)
    BY <2>2, <2>4, <2>6, <2>8 DEF B!Show
  <2> QED BY <2>9 DEF B!Next
<1>4. ASSUME NEW s \in Subs, Cleanup(s) PROVE B!Next \/ UNCHANGED B!vars
  <2>1. \A r \in StillRegistered(s) : r \in Subs /\ chanState[r] = "open"
    BY <1>4, FoundIsOpen DEF Cleanup
  <2> QED BY <1>4, <2>1, Closing DEF Cleanup, storeVars
<1>5. CASE Close
  <2>1. \A r \in UNION {subscribers[t] : t \in Topics} :
          r \in Subs /\ chanState[r] = "open"
    BY RegisteredAnywhere
  <2> QED BY <1>5, <2>1, Closing DEF Close
<1>6. CASE UNCHANGED <<heap, chanState, chanTopic, received, openedAt, closedAt>>
  BY <1>6, Stutter
<1> QED
  BY <1>1, <1>2, <1>3, <1>4, <1>5, <1>6
  DEF Next, AnyStore, Delete, Acknowledge, GetMessages, AddSubscriber,
      RemoveSubscriber, Cancel, vars, storeVars, chanVars, histVars

\* The store implements the lossy broadcast.
THEOREM StoreIsBroadcast == Spec => ImplementsBroadcast
<1>1. Init => B!Init
  BY DEF Init, B!Init, AbstractStatus
<1> QED
  BY <1>1, BroadcastStep, QueuesCorrect, PTL DEF Spec, ImplementsBroadcast, B!Spec

-----------------------------------------------------------------------------
(* A channel that was not overrun misses nothing. *)

\* An increasing sequence is no longer than a set with all its entries.
LEMMA IncreasingFits ==
  ASSUME NEW q \in Seq(Nat), Increasing(q), NEW T, IsFiniteSet(T),
         \A k \in DOMAIN q : q[k] \in T
  PROVE  Len(q) <= Cardinality(T)
<1>1. Len(q) \in Nat /\ DOMAIN q = 1 .. Len(q) OBVIOUS
<1>2. q \in [1 .. Len(q) -> T] BY <1>1
<1>3. \A j, k \in 1 .. Len(q) : q[j] = q[k] => j = k
  <2>1. \A k \in 1 .. Len(q) : q[k] \in Nat BY <1>1
  <2>2. \A j, k \in 1 .. Len(q) : j < k => q[j] < q[k] BY <1>1 DEF Increasing
  <2> QED BY <1>1, <2>1, <2>2
<1>4. q \in Injection(1 .. Len(q), T)
  BY <1>2, <1>3 DEF Injection, IsInjective
<1>5. Cardinality(1 .. Len(q)) <= Cardinality(T)
  BY <1>4, FS_Injection
<1>6. Cardinality(1 .. Len(q)) = Len(q)
  BY <1>1, FS_Interval
<1> QED BY <1>5, <1>6

\* The due messages up to one of them.
DueUpTo(s, p) == {q \in Due(s) : q <= p}

\* A message is with the subscriber or in its channel.
Given(s, p) ==
  \/ \E j \in DOMAIN received[s] : received[s][j] = p
  \/ \E k \in DOMAIN chanBuf[s] : chanBuf[s][k] = p

\* A message that was missed was preceded by a channel full of others.
MissedWhenFull ==
  \A s \in Subs : chanState[s] # "unmade" =>
    \A p \in Due(s) : Given(s, p) \/ Cardinality(DueUpTo(s, p)) > ChanCap

\* A channel was closed at some length the log has had.
ClosedBefore == \A s \in Subs : closedAt[s] <= Len(heap)

\* No step closes a channel later than the end of the log.
LEMMA ClosedStep ==
  ASSUME TypeOK, ClosedBefore, [Next]_vars
  PROVE  ClosedBefore'
<1>1. /\ Len(heap) \in Nat
      /\ \A s \in Subs : closedAt[s] \in Nat
  BY DEF TypeOK
<1>2. CASE AnyStore
  <2>1. PICK m \in Message : Store(m) BY <1>2, StoreCases
  <2>2. Len(heap') = Len(heap) + 1 /\ closedAt' = closedAt
    BY <2>1 DEF Store, TypeOK, histVars
  <2> QED BY <1>1, <2>2 DEF ClosedBefore
<1>3. ASSUME NEW s \in Subs, Cleanup(s) PROVE ClosedBefore'
  BY <1>1, <1>3 DEF Cleanup, CloseChannels, storeVars, ClosedBefore
<1>4. CASE Close
  BY <1>1, <1>4 DEF Close, CloseChannels, ClosedBefore
<1>5. CASE UNCHANGED <<heap, closedAt>> BY <1>5 DEF ClosedBefore
<1> QED
  BY <1>2, <1>3, <1>4, <1>5
  DEF Next, AnyStore, Delete, Acknowledge, GetMessages, AddSubscriber,
      RemoveSubscriber, Subscribe, Receive, Cancel, vars, storeVars, histVars

\* Every entry of a sequence but the first is in its tail, one place earlier.
LEMMA TailAt ==
  ASSUME NEW q \in Seq(Nat), q # <<>>
  PROVE  \A k \in DOMAIN q :
           k = 1 \/ (k - 1 \in DOMAIN Tail(q) /\ Tail(q)[k - 1] = q[k])
<1>1. /\ Tail(q) \in Seq(Nat)
      /\ Len(Tail(q)) = Len(q) - 1
      /\ \A i \in 1 .. Len(Tail(q)) : Tail(q)[i] = q[i + 1]
  BY HeadTailProperties
<1>2. DOMAIN q = 1 .. Len(q) /\ DOMAIN Tail(q) = 1 .. Len(Tail(q)) /\ Len(q) \in Nat
  BY <1>1
<1>3. ASSUME NEW k \in DOMAIN q, k # 1
      PROVE  k - 1 \in 1 .. Len(Tail(q)) /\ (k - 1) + 1 = k
  BY <1>1, <1>2, <1>3
<1> QED BY <1>1, <1>2, <1>3

\* As long as what is due and what was given stay the same, so does what was
\* missed.
LEMMA MissedUntouched ==
  ASSUME MissedWhenFull, NEW s \in Subs, chanState[s] # "unmade",
         Due(s)' = Due(s), \A p \in Due(s) : Given(s, p) => Given(s, p)'
  PROVE  \A p \in Due(s)' : \/ Given(s, p)'
                            \/ Cardinality(DueUpTo(s, p)') > ChanCap
BY DEF MissedWhenFull, DueUpTo

\* Each step of the store lets a subscriber miss a message only when its channel
\* is full.
LEMMA MissedStep ==
  ASSUME TypeOK, ChannelInv, OpenedBefore, ClosedBefore, QueueInv,
         MissedWhenFull, [Next]_vars
  PROVE  MissedWhenFull'
<1> SUFFICES ASSUME NEW s \in Subs, chanState'[s] # "unmade"
             PROVE  \A p \in Due(s)' :
                      Given(s, p)' \/ Cardinality(DueUpTo(s, p)') > ChanCap
  BY DEF MissedWhenFull
<1>0. /\ Len(heap) \in Nat /\ DOMAIN heap = 1 .. Len(heap)
      /\ \A p \in Due(s) : p \in 1 .. Len(heap)
  BY DEF TypeOK, Due
<1>1. CASE AnyStore
  <2>1. PICK m \in Message : Store(m) BY <1>1, StoreCases
  <2>0. PICK new \in Nat : new = Len(heap) + 1 BY <1>0
  <2>2. /\ DOMAIN heap' = 1 .. new
        /\ heap'[new] = m
        /\ \A p \in DOMAIN heap : heap'[p] = heap[p]
        /\ UNCHANGED <<chanState, chanTopic, openedAt, closedAt, received>>
    BY <2>0, <2>1 DEF TypeOK, Store, histVars
  <2>3. \A p : p \in Due(s)' => p \in Due(s) \/ p = new
    BY <1>0, <2>0, <2>2 DEF Due
  <2>4. \A p \in Due(s) : p \in Due(s)' BY <1>0, <2>0, <2>2 DEF Due
  <2>5. \A p \in Due(s) : DueUpTo(s, p)' = DueUpTo(s, p)
    BY <1>0, <2>0, <2>3, <2>4 DEF DueUpTo
  <2>6. \A p : Given(s, p) => Given(s, p)'
    <3>1. \A k \in DOMAIN chanBuf[s] : k \in DOMAIN chanBuf'[s]
                                       /\ chanBuf'[s][k] = chanBuf[s][k]
      BY <2>1 DEF Store, BufferLast, TypeOK
    <3> QED BY <2>2, <3>1 DEF Given
  <2>7. ASSUME new \in Due(s)', ~Given(s, new)'
        PROVE  Cardinality(DueUpTo(s, new)') > ChanCap
    <3>1. s \in Listening(m.topic)
      <4>1. chanState[s] # "closed"
        BY <1>0, <2>0, <2>2, <2>7 DEF Due, ClosedBefore, TypeOK
      <4>2. chanState[s] = "open" /\ chanTopic[s] = m.topic
        BY <2>2, <2>7, <4>1 DEF Due, TypeOK
      <4> QED BY <4>2 DEF ChannelInv, Registry, Listening, Message
    <3>2. chanBuf[s] \in Seq(Nat) BY DEF TypeOK
    <3>3. ~HasRoom(s)
      <4>1. SUFFICES ASSUME HasRoom(s) PROVE FALSE OBVIOUS
      <4>2. chanBuf'[s] = Append(chanBuf[s], new)
        BY <2>0, <2>1, <3>1, <4>1 DEF Store, BufferLast
      <4>3. Len(chanBuf[s]) + 1 \in DOMAIN chanBuf'[s]
            /\ chanBuf'[s][Len(chanBuf[s]) + 1] = new
        BY <3>2, <4>2
      <4> QED BY <2>7, <4>3 DEF Given
    <3>4. Len(chanBuf[s]) >= ChanCap
      BY <3>2, <3>3, ConstantsAssumption DEF HasRoom
    <3> DEFINE T == DueUpTo(s, Len(heap))
    <3>5. IsFiniteSet(T) /\ Cardinality(T) \in Nat
      <4>1. T \in SUBSET (1 .. Len(heap)) BY <1>0 DEF DueUpTo
      <4>2. IsFiniteSet(1 .. Len(heap)) BY <1>0, FS_Interval
      <4> QED BY <4>1, <4>2, FS_Subset, FS_CardinalityType
    <3>6. \A k \in DOMAIN chanBuf[s] : chanBuf[s][k] \in T
      BY <1>0 DEF QueueInv, InOrder, DueUpTo
    <3>7. Increasing(chanBuf[s]) BY DEF QueueInv, InOrder
    <3>8. Len(chanBuf[s]) <= Cardinality(T)
      BY <3>2, <3>5, <3>6, <3>7, IncreasingFits
    <3>9. DueUpTo(s, new)' = T \cup {new} /\ new \notin T
      <4>1. \A p \in Due(s) : p <= Len(heap) /\ p <= new BY <1>0, <2>0
      <4>2. new <= new /\ ~(new <= Len(heap)) BY <1>0, <2>0
      <4>3. {q \in Due(s)' : q <= new} = T \cup {new}
        BY <2>3, <2>4, <2>7, <4>1, <4>2 DEF DueUpTo
      <4> QED BY <4>2, <4>3 DEF DueUpTo
    <3>10. Cardinality(T \cup {new}) = Cardinality(T) + 1
      BY <3>5, <3>9, FS_AddElement
    <3> QED BY <3>2, <3>4, <3>5, <3>8, <3>9, <3>10, ConstantsAssumption
  <2> QED BY <2>2, <2>3, <2>5, <2>6, <2>7 DEF MissedWhenFull
<1>2. ASSUME NEW r \in Subs, NEW t \in Topics, Subscribe(r, t), s = r
      PROVE  Due(s)' = {}
  BY <1>0, <1>2 DEF Due, Subscribe, storeVars, TypeOK
<1>3. ASSUME NEW r \in Subs, NEW t \in Topics, Subscribe(r, t), s # r
      PROVE  /\ chanState[s] # "unmade"
             /\ Due(s)' = Due(s)
             /\ \A p : Given(s, p) => Given(s, p)'
  BY <1>3 DEF Due, Given, Subscribe, storeVars, TypeOK
<1>4. ASSUME NEW r \in Subs, Receive(r)
      PROVE  /\ chanState[s] # "unmade"
             /\ Due(s)' = Due(s)
             /\ \A p : Given(s, p) => Given(s, p)'
  <2>1. UNCHANGED <<heap, chanState, chanTopic, openedAt, closedAt>>
    BY <1>4 DEF Receive, storeVars
  <2>2. Due(s)' = Due(s) BY <2>1, DueUntouched
  <2>3. CASE s # r
    BY <1>4, <2>1, <2>2, <2>3 DEF Receive, Given, TypeOK
  <2>4. CASE s = r
    <3>1. /\ chanBuf[s] \in Seq(Nat) /\ chanBuf[s] # <<>>
          /\ received[s] \in Seq(Nat)
          /\ received'[s] = Append(received[s], Head(chanBuf[s]))
          /\ chanBuf'[s] = Tail(chanBuf[s])
      BY <1>4, <2>4 DEF Receive, TypeOK
    <3>2. \A j \in DOMAIN received[s] : j \in DOMAIN received'[s]
                                        /\ received'[s][j] = received[s][j]
      BY <3>1
    <3>3. /\ Len(received[s]) + 1 \in DOMAIN received'[s]
          /\ received'[s][Len(received[s]) + 1] = chanBuf[s][1]
      BY <3>1
    <3>4. \A k \in DOMAIN chanBuf[s] :
            k = 1 \/ (k - 1 \in DOMAIN chanBuf'[s]
                      /\ chanBuf'[s][k - 1] = chanBuf[s][k])
      BY <3>1, TailAt
    <3>5. \A p : Given(s, p) => Given(s, p)'
      BY <3>2, <3>3, <3>4 DEF Given
    <3> QED BY <2>1, <2>2, <3>5
  <2> QED BY <2>3, <2>4
<1>5. ASSUME UNCHANGED <<heap, chanTopic, openedAt, received, chanBuf>>,
             \/ chanState[s] = "open" /\ chanState'[s] = "closed"
                                      /\ closedAt'[s] = Len(heap)
             \/ chanState'[s] = chanState[s] /\ closedAt'[s] = closedAt[s]
      PROVE  /\ chanState[s] # "unmade"
             /\ Due(s)' = Due(s)
             /\ \A p : Given(s, p) => Given(s, p)'
  BY <1>0, <1>5 DEF Due, Given
<1>6. ASSUME NEW r \in Subs, Cleanup(r)
      PROVE  /\ UNCHANGED <<heap, chanTopic, openedAt, received, chanBuf>>
             /\ \/ chanState[s] = "open" /\ chanState'[s] = "closed"
                                         /\ closedAt'[s] = Len(heap)
                \/ chanState'[s] = chanState[s] /\ closedAt'[s] = closedAt[s]
  <2>1. \A q \in StillRegistered(r) : chanState[q] = "open"
    BY <1>6, FoundIsOpen DEF Cleanup
  <2> QED BY <1>6, <2>1 DEF Cleanup, CloseChannels, storeVars
<1>7. ASSUME Close
      PROVE  /\ UNCHANGED <<heap, chanTopic, openedAt, received, chanBuf>>
             /\ \/ chanState[s] = "open" /\ chanState'[s] = "closed"
                                         /\ closedAt'[s] = Len(heap)
                \/ chanState'[s] = chanState[s] /\ closedAt'[s] = closedAt[s]
  BY <1>7, RegisteredAnywhere DEF Close, CloseChannels
<1>8. CASE UNCHANGED <<heap, chanState, chanTopic, openedAt, closedAt, received,
                       chanBuf>>
  BY <1>5, <1>8, MissedUntouched
<1> QED
  BY <1>1, <1>2, <1>3, <1>4, <1>5, <1>6, <1>7, <1>8, MissedUntouched
  DEF Next, AnyStore, Delete, Acknowledge, GetMessages, AddSubscriber,
      RemoveSubscriber, Cancel, vars, storeVars, chanVars, histVars

\* An entry of either part is an entry of the whole.
LEMMA GivenIsDelivered ==
  ASSUME TypeOK, NEW s \in Subs, NEW p, Given(s, p)
  PROVE  \E k \in DOMAIN Delivered(s) : Delivered(s)[k] = p
<1>1. received[s] \in Seq(Nat) /\ chanBuf[s] \in Seq(Nat) BY DEF TypeOK
<1>2. /\ \A j \in DOMAIN received[s] :
           \E i \in DOMAIN Delivered(s) : Delivered(s)[i] = received[s][j]
      /\ \A k \in DOMAIN chanBuf[s] :
           \E i \in DOMAIN Delivered(s) : Delivered(s)[i] = chanBuf[s][k]
  BY <1>1, JoinCovers DEF Delivered
<1> QED BY <1>2 DEF Given

\* The first ChanCap messages due to a subscriber always reach its channel.
THEOREM NothingEarlyLost == Spec => []NoEarlyLoss
<1>1. Init => ClosedBefore /\ MissedWhenFull
  BY DEF Init, ClosedBefore, MissedWhenFull
<1>2. TypeOK /\ MissedWhenFull => NoEarlyLoss
  <2> SUFFICES ASSUME TypeOK, MissedWhenFull, NEW s \in Subs,
                      chanState[s] # "unmade", NEW p \in Due(s),
                      Cardinality(DueUpTo(s, p)) <= ChanCap
               PROVE  \E k \in DOMAIN Delivered(s) : Delivered(s)[k] = p
    BY DEF NoEarlyLoss, DueUpTo
  <2>1. ~(Cardinality(DueUpTo(s, p)) > ChanCap)
    <3>1. DueUpTo(s, p) \in SUBSET (1 .. Len(heap)) BY DEF DueUpTo, Due, TypeOK
    <3>2. IsFiniteSet(1 .. Len(heap))
      <4>1. Len(heap) \in Nat BY DEF TypeOK
      <4> QED BY <4>1, FS_Interval
    <3>3. Cardinality(DueUpTo(s, p)) \in Nat
      BY <3>1, <3>2, FS_Subset, FS_CardinalityType
    <3> QED BY <3>3, ConstantsAssumption
  <2> QED BY <2>1, GivenIsDelivered DEF MissedWhenFull
<1> QED
  BY <1>1, <1>2, ClosedStep, MissedStep, QueuesCorrect, PTL DEF Spec

=============================================================================
