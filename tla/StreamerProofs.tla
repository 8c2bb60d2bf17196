--------------------------- MODULE StreamerProofs ---------------------------
(***************************************************************************)
(* Theorems about Streamer, for every file, batch size, window and number  *)
(* of streams, whatever breaks: its types, what a stream carries and what  *)
(* a broken one loses, and that streamer and handler do not block each     *)
(* other over a batch that the windows hold.                               *)
(***************************************************************************)
EXTENDS Streamer, TLAPS

-----------------------------------------------------------------------------
(* Sequences of rows. *)

\* Rows are numbers.
LEMMA RowsAreNumbers ==
  ASSUME NEW q \in Seq(Rows) PROVE RowsIn(q) \subseteq Rows /\ Rows \subseteq Nat
<1>1. RowsIn(q) \subseteq Rows BY DEF RowsIn
<1>2. Rows \subseteq Nat BY StreamerAssumption DEF Rows
<1> QED BY <1>1, <1>2

\* What a sequence holds once its head was taken.
LEMMA HeadTail ==
  ASSUME NEW q \in Seq(Rows), q # <<>>
  PROVE  /\ Tail(q) \in Seq(Rows) /\ Head(q) \in Rows
         /\ RowsIn(q) = {Head(q)} \cup RowsIn(Tail(q))
         /\ InOrder(q) => /\ InOrder(Tail(q))
                          /\ \A r \in RowsIn(Tail(q)) : Head(q) < r
<1>1. /\ Tail(q) \in Seq(Rows) /\ Head(q) \in Rows /\ Head(q) = q[1]
      /\ Len(q) \in Nat /\ Len(q) > 0 /\ DOMAIN q = 1 .. Len(q)
      /\ DOMAIN Tail(q) = 1 .. Len(q) - 1
      /\ \A i \in DOMAIN Tail(q) : Tail(q)[i] = q[i + 1]
  OBVIOUS
<1>2. \A i \in DOMAIN Tail(q) : i + 1 \in DOMAIN q /\ 1 < i + 1 BY <1>1
<1>3. RowsIn(q) = {Head(q)} \cup RowsIn(Tail(q))
  <2>1. ASSUME NEW i \in DOMAIN q, i # 1 PROVE q[i] \in RowsIn(Tail(q))
    <3>1. i - 1 \in DOMAIN Tail(q) BY <1>1, <2>1
    <3>2. q[i] = Tail(q)[i - 1] BY <1>1, <3>1
    <3> QED BY <3>1, <3>2 DEF RowsIn
  <2>2. \A i \in DOMAIN Tail(q) : Tail(q)[i] \in RowsIn(q) BY <1>1, <1>2 DEF RowsIn
  <2>3. q[1] \in RowsIn(q) BY <1>1 DEF RowsIn
  <2> QED BY <1>1, <2>1, <2>2, <2>3 DEF RowsIn
<1>4. ASSUME InOrder(q)
      PROVE  InOrder(Tail(q)) /\ \A r \in RowsIn(Tail(q)) : Head(q) < r
  <2>1. \A i, j \in DOMAIN Tail(q) : i < j => i + 1 < j + 1 BY <1>1
  <2>2. InOrder(Tail(q)) BY <1>1, <1>2, <1>4, <2>1 DEF InOrder
  <2>3. 1 \in DOMAIN q BY <1>1
  <2> QED BY <1>1, <1>2, <1>4, <2>2, <2>3 DEF InOrder, RowsIn
<1> QED BY <1>1, <1>3, <1>4

\* A row is put at the end.
LEMMA Appended ==
  ASSUME NEW q \in Seq(Rows), NEW r \in Rows
  PROVE  /\ Append(q, r) \in Seq(Rows)
         /\ RowsIn(Append(q, r)) = RowsIn(q) \cup {r}
         /\ InOrder(q) /\ (\A p \in RowsIn(q) : p < r) => InOrder(Append(q, r))
<1>1. /\ Append(q, r) \in Seq(Rows) /\ Len(q) \in Nat /\ DOMAIN q = 1 .. Len(q)
      /\ DOMAIN Append(q, r) = 1 .. Len(q) + 1
      /\ Append(q, r)[Len(q) + 1] = r
      /\ \A i \in 1 .. Len(q) : Append(q, r)[i] = q[i]
  OBVIOUS
<1>2. RowsIn(Append(q, r)) = RowsIn(q) \cup {r} BY <1>1 DEF RowsIn
<1>3. ASSUME InOrder(q), \A p \in RowsIn(q) : p < r PROVE InOrder(Append(q, r))
  <2> SUFFICES ASSUME NEW i \in 1 .. Len(q) + 1, NEW j \in 1 .. Len(q) + 1, i < j
               PROVE  Append(q, r)[i] < Append(q, r)[j]
    BY <1>1 DEF InOrder
  <2>1. i \in 1 .. Len(q) /\ Append(q, r)[i] = q[i] BY <1>1
  <2>2. CASE j = Len(q) + 1 BY <1>1, <1>3, <2>1, <2>2 DEF RowsIn
  <2>3. CASE j \in 1 .. Len(q) BY <1>1, <1>3, <2>1, <2>3 DEF InOrder
  <2> QED BY <1>1, <2>2, <2>3
<1> QED BY <1>1, <1>2, <1>3

\* A beginning is taken.
LEMMA BeginningOf ==
  ASSUME NEW q \in Seq(Rows), NEW n \in 0 .. Len(q)
  PROVE  /\ SubSeq(q, 1, n) \in Seq(Rows)
         /\ RowsIn(SubSeq(q, 1, n)) \subseteq RowsIn(q)
         /\ InOrder(q) =>
              /\ InOrder(SubSeq(q, 1, n))
              /\ \A r \in RowsIn(q), p \in RowsIn(SubSeq(q, 1, n)) :
                   r < p => r \in RowsIn(SubSeq(q, 1, n))
<1> DEFINE b == SubSeq(q, 1, n)
<1>1. /\ Len(q) \in Nat /\ DOMAIN q = 1 .. Len(q) /\ \A i \in 1 .. Len(q) : q[i] \in Rows
      /\ n \in Nat /\ n <= Len(q)
  OBVIOUS
<1>2. b = [i \in 1 .. n |-> q[i]] BY <1>1
<1>3. b \in Seq(Rows)
  <2>1. [i \in 1 .. n |-> q[i]] \in Seq(Rows) BY <1>1
  <2> QED BY <1>2, <2>1
<1>4. DOMAIN b = 1 .. n /\ (\A i \in 1 .. n : b[i] = q[i]) /\ 1 .. n \subseteq DOMAIN q
  BY <1>1, <1>2
<1> HIDE DEF b
<1>5. RowsIn(b) \subseteq RowsIn(q) BY <1>4 DEF RowsIn
<1>6. ASSUME InOrder(q)
      PROVE  /\ InOrder(b)
             /\ \A r \in RowsIn(q), p \in RowsIn(b) : r < p => r \in RowsIn(b)
  <2>1. InOrder(b) BY <1>4, <1>6 DEF InOrder
  <2>2. ASSUME NEW i \in DOMAIN q, NEW j \in DOMAIN b, q[i] < b[j]
        PROVE  q[i] \in RowsIn(b)
    <3>1. j \in DOMAIN q /\ q[i] < q[j] /\ q[i] \in Nat /\ q[j] \in Nat
      BY <1>1, <1>4, <2>2, StreamerAssumption DEF Rows
    <3>2. ~(j < i) /\ j # i BY <1>6, <3>1 DEF InOrder
    <3>3. i \in 1 .. n BY <1>1, <1>4, <3>1, <3>2
    <3> QED BY <1>4, <3>3 DEF RowsIn
  <2> QED BY <2>1, <2>2 DEF RowsIn
<1> QED BY <1>3, <1>5, <1>6 DEF b

\* Two sequences end to end.
LEMMA EndToEnd ==
  ASSUME NEW p \in Seq(Rows), NEW q \in Seq(Rows)
  PROVE  /\ p \o q \in Seq(Rows)
         /\ RowsIn(p \o q) = RowsIn(p) \cup RowsIn(q)
         /\ InOrder(p) /\ InOrder(q)
              /\ (\A r \in RowsIn(p), s \in RowsIn(q) : r < s) => InOrder(p \o q)
<1> DEFINE c == p \o q
<1>1. /\ c \in Seq(Rows)
      /\ Len(p) \in Nat /\ Len(q) \in Nat
      /\ DOMAIN p = 1 .. Len(p) /\ DOMAIN q = 1 .. Len(q)
      /\ DOMAIN c = 1 .. Len(p) + Len(q)
      /\ \A i \in 1 .. Len(p) + Len(q) :
           c[i] = IF i <= Len(p) THEN p[i] ELSE q[i - Len(p)]
  OBVIOUS
<1> HIDE DEF c
<1>2. \A i \in DOMAIN c :
        \/ i \in DOMAIN p /\ c[i] = p[i]
        \/ i - Len(p) \in DOMAIN q /\ c[i] = q[i - Len(p)]
  BY <1>1
<1>3. RowsIn(c) = RowsIn(p) \cup RowsIn(q)
  <2>1. RowsIn(c) \subseteq RowsIn(p) \cup RowsIn(q) BY <1>2 DEF RowsIn
  <2>2. \A i \in DOMAIN p : i \in DOMAIN c /\ c[i] = p[i] BY <1>1
  <2>3. \A j \in DOMAIN q : j + Len(p) \in DOMAIN c /\ c[j + Len(p)] = q[j]
    BY <1>1
  <2>4. RowsIn(p) \subseteq RowsIn(c) BY <2>2 DEF RowsIn
  <2>5. RowsIn(q) \subseteq RowsIn(c) BY <2>3 DEF RowsIn
  <2> QED BY <2>1, <2>4, <2>5
<1>4. ASSUME InOrder(p), InOrder(q), \A r \in RowsIn(p), s \in RowsIn(q) : r < s
      PROVE  InOrder(c)
  <2> SUFFICES ASSUME NEW i \in DOMAIN c, NEW j \in DOMAIN c, i < j
               PROVE  c[i] < c[j]
    BY DEF InOrder
  <2>1. CASE i > Len(p)
    <3>1. /\ i - Len(p) \in DOMAIN q /\ c[i] = q[i - Len(p)]
          /\ j - Len(p) \in DOMAIN q /\ c[j] = q[j - Len(p)]
          /\ i - Len(p) < j - Len(p)
      BY <1>1, <2>1
    <3> QED BY <1>4, <3>1 DEF InOrder
  <2>2. CASE i <= Len(p)
    <3>1. i \in DOMAIN p /\ c[i] = p[i] BY <1>1, <2>2
    <3>2. CASE j <= Len(p) BY <1>1, <1>4, <3>1, <3>2 DEF InOrder
    <3>3. CASE j > Len(p)
      <4>1. j - Len(p) \in DOMAIN q /\ c[j] = q[j - Len(p)] BY <1>1, <3>3
      <4> QED BY <1>4, <3>1, <4>1 DEF RowsIn
    <3> QED BY <1>1, <3>2, <3>3
  <2> QED BY <1>1, <2>1, <2>2
<1> QED BY <1>1, <1>3, <1>4 DEF c

-----------------------------------------------------------------------------
(* The invariant. *)

\* The streamer holds a stream exactly while it sends, and that one is not free.
StreamUse ==
  IF pc = "send" THEN stream \in Streams /\ state[stream] \in {"open", "broken"}
  ELSE stream = 0

Types == TypeOK /\ StreamUse

\* Rows a stream has carried, in the handler's hands or on their way there.
Sent(k) == RowsIn(handled[k]) \cup RowsIn(wire[k])

\* All of it is in the order of the file, the rest of the batch after what was
\* sent of it, and the requests on their way after those handled.
SendOrder ==
  /\ InOrder(batch)
  /\ \A k \in Streams :
       /\ InOrder(handled[k])
       /\ InOrder(wire[k])
       /\ \A r \in RowsIn(handled[k]), s \in RowsIn(wire[k]) : r < s
       /\ stream = k => \A r \in Sent(k), s \in RowsIn(batch) : r < s

\* With a row, every encodable row before it was sent.
SentRows ==
  \A k \in Streams :
    /\ Sent(k) \subseteq Encodable(rows[k])
    /\ \A r \in Encodable(rows[k]), s \in Sent(k) : r < s => r \in Sent(k)

\* On a stream that did not break, what was not sent is in the rest of the batch.
\* A stream that is free has carried nothing.
RestIsBatch ==
  \A k \in Streams :
    /\ stream = k => RowsIn(batch) \subseteq RowsIn(rows[k])
    /\ state[k] \in {"open", "closing"} =>
         Encodable(rows[k]) \subseteq
           Sent(k) \cup (IF stream = k THEN RowsIn(batch) ELSE {})
    /\ state[k] = "free" => handled[k] = <<>> /\ wire[k] = <<>>

SendInv == SendOrder /\ SentRows /\ RestIsBatch

-----------------------------------------------------------------------------
(* Type correctness. *)

\* What the end of the connection leaves.
LEMMA ConnectionLeaves ==
  ASSUME TypeOK, ConnectionEnds
  PROVE  /\ state' = [k \in Streams |-> IF state[k] = "free" THEN "free" ELSE "broken"]
         /\ wire' \in [Streams -> Seq(Rows)]
         /\ \A k \in Streams : \E n \in 0 .. Len(wire[k]) :
              wire'[k] = SubSeq(wire[k], 1, n)
         /\ UNCHANGED <<rows, handled, answers>>
<1>1. wire \in [Streams -> Seq(Rows)] BY DEF TypeOK
<1>2. PICK arrived \in [Streams -> 0 .. RequestWindow] :
        /\ \A k \in Streams : arrived[k] <= Len(wire[k])
        /\ wire' = [k \in Streams |-> SubSeq(wire[k], 1, arrived[k])]
  BY DEF ConnectionEnds
<1>3. \A k \in Streams : arrived[k] \in 0 .. Len(wire[k])
  BY <1>1, <1>2, StreamerAssumption
<1>4. \A k \in Streams : SubSeq(wire[k], 1, arrived[k]) \in Seq(Rows)
  BY <1>1, <1>3, BeginningOf
<1> QED BY <1>2, <1>3, <1>4 DEF ConnectionEnds

\* What a tick takes are rows of the file that follow on each other.
LEMMA Sliced ==
  ASSUME NEW i \in 0 .. NumRows, NEW j \in 0 .. NumRows
  PROVE  Slice(i, j) \in Seq(Rows) /\ InOrder(Slice(i, j))
<1>1. NumRows \in Nat BY StreamerAssumption
<1>2. \A n \in 1 .. j - i : i + n \in Rows BY <1>1 DEF Rows
<1>3. Slice(i, j) \in Seq(Rows)
  <2>1. CASE j - i < 0 BY <2>1 DEF Slice
  <2>2. CASE ~(j - i < 0)
    <3>1. j - i \in Nat BY <1>1, <2>2
    <3> QED BY <1>2, <3>1 DEF Slice
  <2> QED BY <2>1, <2>2
<1>4. InOrder(Slice(i, j)) BY <1>1 DEF Slice, InOrder
<1> QED BY <1>3, <1>4

\* Every step keeps every variable in its type.
LEMMA TypeStep ==
  ASSUME Types, [Next]_vars
  PROVE  Types'
<1> USE DEF Types, TypeOK, StreamUse
<1>1. ASSUME TakeBatch PROVE Types'
  <2>1. currentIdx \in 0 .. NumRows /\ NumRows \in Nat /\ BatchSize \in Nat
    BY StreamerAssumption
  <2>2. StartIdx \in 0 .. NumRows /\ EndIdx(StartIdx) \in 0 .. NumRows
    BY <2>1 DEF StartIdx, EndIdx
  <2>3. batch' \in Seq(Rows) BY <1>1, <2>2, Sliced DEF TakeBatch
  <2>4. currentIdx' \in 0 .. NumRows BY <1>1, <2>2 DEF TakeBatch
  <2> QED BY <1>1, <2>3, <2>4 DEF TakeBatch, streamVars
<1>2. CASE LoadFails BY <1>2 DEF LoadFails, vars, clientVars, streamVars
<1>3. ASSUME NEW k \in Streams, OpenStream(k) PROVE Types'
  BY <1>3 DEF OpenStream
<1>4. CASE OpenFails BY <1>4 DEF OpenFails, streamVars
<1>5. CASE SendRow
  <2>1. batch # <<>> /\ stream \in Streams BY <1>5 DEF SendRow
  <2>2. Tail(batch) \in Seq(Rows) /\ Head(batch) \in Rows BY <2>1, HeadTail
  <2>3. Append(wire[stream], Head(batch)) \in Seq(Rows) BY <2>1, <2>2, Appended
  <2>4. wire' \in [Streams -> Seq(Rows)] BY <1>5, <2>1, <2>3 DEF SendRow
  <2> QED BY <1>5, <2>2, <2>4 DEF SendRow, SentRow
<1>6. CASE SkipUnencodable \/ SendFails
  <2>1. batch # <<>> BY <1>6 DEF SkipUnencodable, SendFails
  <2>2. Tail(batch) \in Seq(Rows) BY <2>1, HeadTail
  <2> QED
    BY <1>6, <2>2
    DEF SkipUnencodable, SendFails, SkipRow, LeaveOutRow, streamVars
<1>7. CASE CloseSend BY <1>7 DEF CloseSend
<1>8. CASE Return \/ Stop BY <1>8 DEF Return, Stop, streamVars
<1>9. ASSUME CloseConn PROVE Types'
  <2>1. ConnectionEnds BY <1>9 DEF CloseConn
  <2>2. /\ state' = [k \in Streams |-> IF state[k] = "free" THEN "free" ELSE "broken"]
        /\ wire' \in [Streams -> Seq(Rows)]
        /\ UNCHANGED <<rows, handled, answers>>
    BY <2>1, ConnectionLeaves
  <2>3. state' \in [Streams -> {"free", "open", "closing", "broken"}] BY <2>2
  <2>4. StreamUse' BY <1>9, <2>2 DEF CloseConn
  <2> QED BY <1>9, <2>2, <2>3, <2>4 DEF CloseConn
<1>10. ASSUME NEW k \in Streams, Handle(k) PROVE Types'
  <2>1. wire[k] # <<>> BY <1>10 DEF Handle
  <2>2. Tail(wire[k]) \in Seq(Rows) /\ Head(wire[k]) \in Rows BY <2>1, HeadTail
  <2>3. Append(handled[k], Head(wire[k])) \in Seq(Rows) BY <2>2, Appended
  <2>4. /\ wire' \in [Streams -> Seq(Rows)] /\ handled' \in [Streams -> Seq(Rows)]
        /\ answers' \in [Streams -> Nat]
    BY <1>10, <2>2, <2>3 DEF Handle
  <2> QED BY <1>10, <2>4 DEF Handle, clientVars
<1>11. ASSUME NEW k \in Streams, Break(k) PROVE Types'
  <2>1. PICK n \in 0 .. Len(wire[k]) :
          wire' = [wire EXCEPT ![k] = SubSeq(wire[k], 1, n)]
    BY <1>11 DEF Break
  <2>2. SubSeq(wire[k], 1, n) \in Seq(Rows) BY BeginningOf
  <2>3. wire' \in [Streams -> Seq(Rows)] BY <2>1, <2>2
  <2> QED BY <1>11, <2>3 DEF Break, clientVars
<1>12. ASSUME NEW k \in Streams, Free(k) PROVE Types'
  <2>1. /\ wire' \in [Streams -> Seq(Rows)] /\ handled' \in [Streams -> Seq(Rows)]
        /\ rows' \in [Streams -> Seq(Rows)] /\ answers' \in [Streams -> Nat]
    BY <1>12 DEF Free
  <2>2. state[k] = "closing" \/ stream # k BY <1>12 DEF Free
  <2> QED BY <1>12, <2>1, <2>2 DEF Free, clientVars
<1>13. CASE UNCHANGED vars BY <1>13 DEF vars, clientVars, streamVars
<1> QED
  BY <1>1, <1>2, <1>3, <1>4, <1>5, <1>6, <1>7, <1>8, <1>9, <1>10, <1>11, <1>12,
     <1>13
  DEF Next, SendStep

\* To begin with too.
LEMMA TypesInit == Init => Types
<1> SUFFICES ASSUME Init PROVE Types OBVIOUS
<1>1. 0 \in 0 .. NumRows BY StreamerAssumption
<1>2. <<>> \in Seq(Rows) OBVIOUS
<1>3. /\ wire \in [Streams -> Seq(Rows)] /\ handled \in [Streams -> Seq(Rows)]
      /\ rows \in [Streams -> Seq(Rows)]
  BY <1>2 DEF Init
<1> QED BY <1>1, <1>2, <1>3 DEF Init, Types, TypeOK, StreamUse

\* The types hold at all times.
LEMMA TypesCorrect == Spec => []Types
BY TypesInit, TypeStep, PTL DEF Spec

\* The values the variables range over, for every file, windows and streams.
THEOREM TypeCorrect == Spec => []TypeOK
<1>1. Types => TypeOK BY DEF Types
<1> QED BY <1>1, TypesCorrect, PTL

-----------------------------------------------------------------------------
(* What a stream carries and loses. *)

\* What is left to carry on a stream that loses the end of its requests.
LEMMA LosesEnd ==
  ASSUME Types, SendInv, NEW k \in Streams, NEW n \in 0 .. Len(wire[k]),
         NEW w, w = SubSeq(wire[k], 1, n)
  PROVE  /\ InOrder(w) /\ RowsIn(w) \subseteq RowsIn(wire[k])
         /\ \A r \in Encodable(rows[k]), s \in RowsIn(handled[k]) \cup RowsIn(w) :
              r < s => r \in RowsIn(handled[k]) \cup RowsIn(w)
<1>1. wire[k] \in Seq(Rows) BY DEF Types, TypeOK
<1>2. InOrder(wire[k]) BY DEF SendInv, SendOrder
<1>3. /\ InOrder(w) /\ RowsIn(w) \subseteq RowsIn(wire[k])
      /\ \A r \in RowsIn(wire[k]), p \in RowsIn(w) : r < p => r \in RowsIn(w)
  BY <1>1, <1>2, BeginningOf
<1>4. ASSUME NEW r \in Encodable(rows[k]),
             NEW s \in RowsIn(handled[k]) \cup RowsIn(w), r < s
      PROVE  r \in RowsIn(handled[k]) \cup RowsIn(w)
  <2>1. s \in Sent(k) BY <1>3, <1>4 DEF Sent
  <2>2. r \in Sent(k) BY <1>4, <2>1 DEF SendInv, SentRows
  <2>3. CASE r \in RowsIn(handled[k]) BY <2>3
  <2>4. CASE r \in RowsIn(wire[k]) /\ s \in RowsIn(handled[k])
    <3>1. s < r BY <2>4 DEF SendInv, SendOrder
    <3>2. wire[k] \in Seq(Rows) /\ handled[k] \in Seq(Rows) BY DEF Types, TypeOK
    <3>3. r \in Nat /\ s \in Nat BY <2>4, <3>2, RowsAreNumbers
    <3> QED BY <1>4, <3>1, <3>3
  <2>5. CASE r \in RowsIn(wire[k]) /\ s \in RowsIn(w) BY <1>3, <1>4, <2>5
  <2> QED BY <1>4, <2>2, <2>3, <2>4, <2>5 DEF Sent
<1> QED BY <1>3, <1>4

\* Nothing was in the sequence of no rows.
LEMMA NoRows == RowsIn(<<>>) = {} /\ InOrder(<<>>)
BY DEF RowsIn, InOrder

\* The streams are left alone; of the batch only its beginning is taken away.
LEMMA BatchStep ==
  ASSUME Types, SendInv, UNCHANGED <<rows, handled, wire>>,
         \A k \in Streams : stream' # k \/ stream = k,
         InOrder(batch'), RowsIn(batch') \subseteq RowsIn(batch) \/ stream' = 0,
         \A k \in Streams :
           /\ state'[k] = "free" => state[k] = "free"
           /\ state'[k] \in {"open", "closing"} =>
                /\ state[k] \in {"open", "closing"}
                /\ stream = k =>
                     RowsIn(batch) \ Unencodable \subseteq
                       IF stream' = k THEN RowsIn(batch') ELSE {}
  PROVE  SendInv'
<1> USE DEF SendInv
<1>1. \A k \in Streams : Sent(k)' = Sent(k) BY DEF Sent
<1>2. \A k \in Streams : stream' = k => stream = k /\ RowsIn(batch') \subseteq RowsIn(batch)
  BY StreamerAssumption
<1>3. SendOrder' BY <1>1, <1>2 DEF SendOrder
<1>4. SentRows' BY <1>1 DEF SentRows
<1>5. RestIsBatch'
  <2>1. ASSUME NEW k \in Streams, state'[k] \in {"open", "closing"},
               NEW r \in Encodable(rows[k])
        PROVE  r \in Sent(k) \cup (IF stream' = k THEN RowsIn(batch') ELSE {})
    <3>1. r \in Sent(k) \/ (stream = k /\ r \in RowsIn(batch))
      BY <2>1 DEF RestIsBatch
    <3>2. r \notin Unencodable BY <2>1 DEF Encodable
    <3> QED BY <2>1, <3>1, <3>2
  <2>2. \A k \in Streams : state'[k] = "free" => handled[k] = <<>> /\ wire[k] = <<>>
    BY DEF RestIsBatch
  <2>3. \A k \in Streams : stream' = k => RowsIn(batch') \subseteq RowsIn(rows[k])
    BY <1>2 DEF RestIsBatch
  <2> QED BY <1>1, <2>1, <2>2, <2>3 DEF RestIsBatch
<1> QED BY <1>3, <1>4, <1>5

\* A stream, or all of them, breaks: requests are lost, the last ones first.  The
\* streamer may end with them.
LEMMA BreakStep ==
  ASSUME Types, SendInv, UNCHANGED <<rows, handled>>,
         \/ UNCHANGED <<batch, stream>>
         \/ /\ batch' = <<>> /\ stream' = 0
            /\ \A k \in Streams : state'[k] \notin {"open", "closing"},
         \A k \in Streams :
           \/ wire'[k] = wire[k] /\ state'[k] = state[k]
           \/ /\ state'[k] \notin {"open", "closing", "free"}
              /\ \E n \in 0 .. Len(wire[k]) : wire'[k] = SubSeq(wire[k], 1, n)
  PROVE  SendInv'
<1> USE DEF SendInv
<1>1. \A k \in Streams :
        /\ InOrder(wire'[k]) /\ RowsIn(wire'[k]) \subseteq RowsIn(wire[k])
        /\ Sent(k)' \subseteq Sent(k)
        /\ \A r \in Encodable(rows[k]), s \in Sent(k)' : r < s => r \in Sent(k)'
  <2> SUFFICES ASSUME NEW k \in Streams
               PROVE  /\ InOrder(wire'[k])
                      /\ RowsIn(wire'[k]) \subseteq RowsIn(wire[k])
                      /\ \A r \in Encodable(rows[k]),
                            s \in RowsIn(handled[k]) \cup RowsIn(wire'[k]) :
                           r < s => r \in RowsIn(handled[k]) \cup RowsIn(wire'[k])
    BY DEF Sent
  <2>1. CASE wire'[k] = wire[k] BY <2>1 DEF SendOrder, SentRows, Sent
  <2>2. CASE \E n \in 0 .. Len(wire[k]) : wire'[k] = SubSeq(wire[k], 1, n)
    BY <2>2, LosesEnd
  <2> QED BY <2>1, <2>2
<1>2. /\ InOrder(batch')
      /\ \A k \in Streams : stream' = k => stream = k /\ batch' = batch
  BY NoRows, StreamerAssumption DEF SendOrder
<1>3. SendOrder' BY <1>1, <1>2 DEF SendOrder
<1>4. SentRows' BY <1>1 DEF SentRows
<1>5. RestIsBatch'
  <2>1. \A k \in Streams : state'[k] \in {"open", "closing", "free"} =>
          state[k] = state'[k] /\ wire'[k] = wire[k] /\ Sent(k)' = Sent(k)
    BY DEF Sent
  <2>2. \A k \in Streams : state'[k] \in {"open", "closing"} =>
          UNCHANGED <<batch, stream>>
    OBVIOUS
  <2> QED BY <1>2, <2>1, <2>2 DEF RestIsBatch
<1> QED BY <1>3, <1>4, <1>5

\* The end of the connection breaks the streams that are in use.
LEMMA ConnectionBreaks ==
  ASSUME Types, SendInv,
         state' = [k \in Streams |-> IF state[k] = "free" THEN "free" ELSE "broken"],
         \A k \in Streams : \E n \in 0 .. Len(wire[k]) :
           wire'[k] = SubSeq(wire[k], 1, n)
  PROVE  \A k \in Streams :
           \/ wire'[k] = wire[k] /\ state'[k] = state[k]
           \/ /\ state'[k] \notin {"open", "closing", "free"}
              /\ \E n \in 0 .. Len(wire[k]) : wire'[k] = SubSeq(wire[k], 1, n)
<1> SUFFICES ASSUME NEW k \in Streams, state[k] = "free"
             PROVE  wire'[k] = wire[k]
  OBVIOUS
<1>1. wire[k] = <<>> BY DEF SendInv, RestIsBatch
<1>2. PICK n \in 0 .. Len(wire[k]) : wire'[k] = SubSeq(wire[k], 1, n) OBVIOUS
<1>3. n = 0 BY <1>1
<1> QED BY <1>1, <1>2, <1>3

\* A row is sent: it comes after what was sent, and nothing encodable between.
LEMMA SendStepKeeps ==
  ASSUME Types, SendInv, SendRow
  PROVE  SendInv'
<1> USE DEF SendInv
<1>1. /\ pc = "send" /\ batch # <<>> /\ Head(batch) \notin Unencodable
      /\ state[stream] = "open"
      /\ wire' = [wire EXCEPT ![stream] = Append(@, Head(batch))]
      /\ batch' = Tail(batch)
      /\ UNCHANGED <<stream, state, rows, handled>>
  BY DEF SendRow, SentRow
<1>2. stream \in Streams BY <1>1 DEF Types, StreamUse
<1>3. /\ batch \in Seq(Rows) /\ wire \in [Streams -> Seq(Rows)]
  BY DEF Types, TypeOK
<1> DEFINE r == Head(batch)
<1>4. /\ Tail(batch) \in Seq(Rows) /\ r \in Rows
      /\ RowsIn(batch) = {r} \cup RowsIn(Tail(batch))
      /\ InOrder(Tail(batch)) /\ \A s \in RowsIn(Tail(batch)) : r < s
  BY <1>1, <1>3, HeadTail DEF SendOrder
<1>5. \A s \in Sent(stream) : s < r BY <1>2, <1>4 DEF SendOrder
<1>6. /\ wire'[stream] = Append(wire[stream], r)
      /\ RowsIn(wire'[stream]) = RowsIn(wire[stream]) \cup {r}
      /\ InOrder(wire'[stream])
  <2>1. wire'[stream] = Append(wire[stream], r) BY <1>1, <1>2, <1>3
  <2>2. InOrder(wire[stream]) /\ \A s \in RowsIn(wire[stream]) : s < r
    BY <1>2, <1>5 DEF SendOrder, Sent
  <2>3. wire[stream] \in Seq(Rows) BY <1>2, <1>3
  <2> QED BY <1>4, <2>1, <2>2, <2>3, Appended
<1>7. /\ Sent(stream)' = Sent(stream) \cup {r}
      /\ \A k \in Streams : k # stream => wire'[k] = wire[k] /\ Sent(k)' = Sent(k)
  BY <1>1, <1>2, <1>3, <1>6 DEF Sent
<1> HIDE DEF r
<1>8. SendOrder'
  <2>1. \A k \in Streams : InOrder(handled[k]) /\ InOrder(wire'[k])
    BY <1>6, <1>7 DEF SendOrder
  <2>2. \A k \in Streams :
          \A s \in RowsIn(handled[k]), t \in RowsIn(wire'[k]) : s < t
    <3>1. \A s \in RowsIn(handled[stream]) : s < r BY <1>5 DEF Sent
    <3> QED BY <1>2, <1>6, <1>7, <3>1 DEF SendOrder
  <2>3. \A s \in Sent(stream)', t \in RowsIn(Tail(batch)) : s < t
    BY <1>2, <1>4, <1>7 DEF SendOrder
  <2> QED BY <1>1, <1>4, <2>1, <2>2, <2>3 DEF SendOrder
<1>9. SentRows'
  <2>1. r \in Encodable(rows[stream])
    BY <1>1, <1>2, <1>4 DEF RestIsBatch, Encodable, r
  <2>2. ASSUME NEW q \in Encodable(rows[stream]), q < r
        PROVE  q \in Sent(stream)
    <3>1. q \in Sent(stream) \/ q \in RowsIn(batch)
      BY <1>1, <1>2 DEF RestIsBatch
    <3>2. q \in RowsIn(batch) => q = r \/ r < q BY <1>4
    <3>3. q \in Nat /\ r \in Nat
      BY <1>2, <1>4, StreamerAssumption DEF Encodable, RowsIn, Types, TypeOK, Rows
    <3> QED BY <2>2, <3>1, <3>2, <3>3
  <2>3. \A k \in Streams :
          /\ Sent(k)' \subseteq Encodable(rows[k])
          /\ \A q \in Encodable(rows[k]), s \in Sent(k)' : q < s => q \in Sent(k)'
    <3> SUFFICES ASSUME NEW k \in Streams
                 PROVE  /\ Sent(k)' \subseteq Encodable(rows[k])
                        /\ \A q \in Encodable(rows[k]), s \in Sent(k)' :
                             q < s => q \in Sent(k)'
      OBVIOUS
    <3>1. CASE k = stream
      <4>1. Sent(k)' = Sent(k) \cup {r} BY <1>1, <1>7, <3>1 DEF Sent
      <4>2. Sent(k) \subseteq Encodable(rows[k]) BY DEF SentRows
      <4>3. ASSUME NEW q \in Encodable(rows[k]), NEW s \in Sent(k)', q < s
            PROVE  q \in Sent(k)
        <5>1. CASE s = r BY <2>2, <3>1, <4>3, <5>1
        <5>2. CASE s \in Sent(k) BY <4>3, <5>2 DEF SentRows
        <5> QED BY <4>1, <4>3, <5>1, <5>2
      <4> QED BY <2>1, <3>1, <4>1, <4>2, <4>3
    <3>2. CASE k # stream BY <1>7, <3>2 DEF SentRows
    <3> QED BY <3>1, <3>2
  <2> QED BY <1>1, <2>3 DEF SentRows
<1>10. RestIsBatch'
  <2>1. \A k \in Streams : stream = k => RowsIn(Tail(batch)) \subseteq RowsIn(rows[k])
    BY <1>4 DEF RestIsBatch
  <2>2. Encodable(rows[stream]) \subseteq Sent(stream)' \cup RowsIn(Tail(batch))
    BY <1>1, <1>2, <1>4, <1>7 DEF RestIsBatch
  <2>3. \A k \in Streams : k # stream /\ state[k] \in {"open", "closing"} =>
          Encodable(rows[k]) \subseteq Sent(k)'
    BY <1>7 DEF RestIsBatch
  <2>4. \A k \in Streams : state[k] = "free" => handled[k] = <<>> /\ wire'[k] = <<>>
    BY <1>1, <1>7 DEF RestIsBatch
  <2> QED BY <1>1, <1>2, <2>1, <2>2, <2>3, <2>4 DEF RestIsBatch
<1> QED BY <1>8, <1>9, <1>10

\* A row is handled: it is still one that was sent.
LEMMA HandleStep ==
  ASSUME Types, SendInv, NEW h \in Streams, Handle(h)
  PROVE  SendInv'
<1> USE DEF SendInv
<1>1. /\ wire[h] # <<>>
      /\ handled' = [handled EXCEPT ![h] = Append(@, Head(wire[h]))]
      /\ wire' = [wire EXCEPT ![h] = Tail(@)]
      /\ UNCHANGED <<batch, stream, state, rows>>
  BY DEF Handle, clientVars
<1>2. /\ handled \in [Streams -> Seq(Rows)] /\ wire \in [Streams -> Seq(Rows)]
  BY DEF Types, TypeOK
<1> DEFINE r == Head(wire[h])
<1>3. /\ wire'[h] = Tail(wire[h]) /\ r \in Rows
      /\ RowsIn(wire[h]) = {r} \cup RowsIn(wire'[h])
      /\ InOrder(wire'[h]) /\ \A s \in RowsIn(wire'[h]) : r < s
  BY <1>1, <1>2, HeadTail DEF SendOrder
<1>4. /\ RowsIn(handled'[h]) = RowsIn(handled[h]) \cup {r}
      /\ InOrder(handled'[h])
  <2>1. handled'[h] = Append(handled[h], r) BY <1>1, <1>2
  <2>2. \A s \in RowsIn(handled[h]) : s < r BY <1>3 DEF SendOrder
  <2>3. handled[h] \in Seq(Rows) /\ InOrder(handled[h]) BY <1>2 DEF SendOrder
  <2> QED BY <1>3, <2>1, <2>2, <2>3, Appended
<1>5. \A k \in Streams : k # h => handled'[k] = handled[k] /\ wire'[k] = wire[k]
  BY <1>1, <1>2
<1> HIDE DEF r
<1>6. \A k \in Streams : Sent(k)' = Sent(k)
  <2>1. Sent(h)' = Sent(h) BY <1>3, <1>4 DEF Sent
  <2> QED BY <1>5, <2>1 DEF Sent
<1>7. SendOrder'
  <2>1. \A k \in Streams : InOrder(handled'[k]) /\ InOrder(wire'[k])
    BY <1>3, <1>4, <1>5 DEF SendOrder
  <2>2. \A s \in RowsIn(handled'[h]), t \in RowsIn(wire'[h]) : s < t
    BY <1>3, <1>4 DEF SendOrder
  <2>3. \A k \in Streams :
          \A s \in RowsIn(handled'[k]), t \in RowsIn(wire'[k]) : s < t
    BY <1>5, <2>2 DEF SendOrder
  <2> QED BY <1>1, <1>6, <2>1, <2>3 DEF SendOrder
<1>8. SentRows' BY <1>1, <1>6 DEF SentRows
<1>9. RestIsBatch'
  <2>1. state[h] # "free" BY <1>1 DEF RestIsBatch
  <2> QED BY <1>1, <1>5, <1>6, <2>1 DEF RestIsBatch
<1> QED BY <1>7, <1>8, <1>9

\* A stream begins with nothing sent, or ends; the others are left alone.
LEMMA StreamStep ==
  ASSUME Types, SendInv, NEW h \in Streams, OpenStream(h) \/ Free(h)
  PROVE  SendInv'
<1> USE DEF SendInv
<1>1. /\ batch' = batch
      /\ \A k \in Streams \ {h} : /\ handled'[k] = handled[k]
                                  /\ wire'[k] = wire[k]
                                  /\ rows'[k] = rows[k]
                                  /\ state'[k] = state[k]
                                  /\ stream' = k => stream = k
      /\ handled'[h] = <<>> /\ wire'[h] = <<>>
      /\ \/ stream' = h /\ rows'[h] = batch /\ state'[h] = "open" /\ stream = 0
         \/ stream' = stream /\ stream # h /\ state'[h] = "free"
  <2>1. /\ state \in [Streams -> {"free", "open", "closing", "broken"}]
        /\ rows \in [Streams -> Seq(Rows)] /\ wire \in [Streams -> Seq(Rows)]
        /\ handled \in [Streams -> Seq(Rows)]
    BY DEF Types, TypeOK
  <2>2. CASE OpenStream(h)
    <3>1. state[h] = "free" /\ stream = 0
      BY <2>2 DEF OpenStream, Types, StreamUse
    <3> QED BY <2>1, <2>2, <3>1 DEF OpenStream, RestIsBatch
  <2>3. CASE Free(h)
    <3>1. stream # h
      BY <2>3, StreamerAssumption DEF Free, Types, StreamUse
    <3> QED BY <2>1, <2>3, <3>1 DEF Free, clientVars
  <2> QED BY <2>2, <2>3
<1>2. Sent(h)' = {} /\ \A k \in Streams \ {h} : Sent(k)' = Sent(k)
  BY <1>1, NoRows DEF Sent
<1>3. SendOrder'
  <2>1. ASSUME NEW k \in Streams
        PROVE  /\ InOrder(handled'[k]) /\ InOrder(wire'[k])
               /\ \A r \in RowsIn(handled'[k]), s \in RowsIn(wire'[k]) : r < s
               /\ stream' = k => \A r \in Sent(k)', s \in RowsIn(batch) : r < s
    <3>1. CASE k = h BY <1>1, <1>2, <3>1, NoRows
    <3>2. CASE k # h BY <1>1, <1>2, <3>2 DEF SendOrder
    <3> QED BY <3>1, <3>2
  <2> QED BY <1>1, <2>1 DEF SendOrder
<1>4. SentRows'
  <2>1. ASSUME NEW k \in Streams
        PROVE  /\ Sent(k)' \subseteq Encodable(rows'[k])
               /\ \A r \in Encodable(rows'[k]), s \in Sent(k)' :
                    r < s => r \in Sent(k)'
    <3>1. CASE k = h BY <1>2, <3>1
    <3>2. CASE k # h BY <1>1, <1>2, <3>2 DEF SentRows
    <3> QED BY <3>1, <3>2
  <2> QED BY <2>1 DEF SentRows
<1>5. RestIsBatch'
  <2>1. ASSUME NEW k \in Streams
        PROVE  /\ stream' = k => RowsIn(batch) \subseteq RowsIn(rows'[k])
               /\ state'[k] \in {"open", "closing"} =>
                    Encodable(rows'[k]) \subseteq
                      Sent(k)' \cup (IF stream' = k THEN RowsIn(batch) ELSE {})
               /\ state'[k] = "free" => handled'[k] = <<>> /\ wire'[k] = <<>>
    <3>1. CASE k = h BY <1>1, <3>1 DEF Encodable
    <3>2. CASE k # h
      <4>1. stream' = k <=> stream = k
        BY <1>1, <3>2, StreamerAssumption
      <4> QED BY <1>1, <1>2, <3>2, <4>1 DEF RestIsBatch
    <3> QED BY <3>1, <3>2
  <2> QED BY <1>1, <2>1 DEF RestIsBatch
<1> QED BY <1>3, <1>4, <1>5

\* So every step keeps what is known of the streams.
LEMMA SendInvStep ==
  ASSUME Types, SendInv, [Next]_vars
  PROVE  SendInv'
<1>1. InOrder(batch) BY DEF SendInv, SendOrder
<1>2. CASE TakeBatch
  <2>1. stream' = 0 /\ UNCHANGED <<rows, handled, wire, state, stream>>
    BY <1>2 DEF TakeBatch, streamVars, Types, StreamUse
  <2>2. InOrder(batch')
    <3>1. currentIdx \in 0 .. NumRows /\ NumRows \in Nat /\ BatchSize \in Nat
      BY StreamerAssumption DEF Types, TypeOK
    <3>2. StartIdx \in 0 .. NumRows /\ EndIdx(StartIdx) \in 0 .. NumRows
      BY <3>1 DEF StartIdx, EndIdx
    <3> QED BY <1>2, <3>2, Sliced DEF TakeBatch
  <2>3. \A k \in Streams : stream # k BY <2>1, StreamerAssumption
  <2> QED BY <2>1, <2>2, <2>3, BatchStep
<1>3. CASE LoadFails \/ Return \/ Stop \/ UNCHANGED vars
  <2>1. UNCHANGED <<rows, handled, wire, state, stream, batch>>
    BY <1>3 DEF LoadFails, Return, Stop, vars, clientVars, streamVars
  <2> QED BY <1>1, <2>1, BatchStep
<1>4. CASE OpenFails
  <2>1. /\ batch' = <<>> /\ stream = 0
        /\ UNCHANGED <<rows, handled, wire, state, stream>>
    BY <1>4 DEF OpenFails, streamVars, Types, StreamUse
  <2>2. \A k \in Streams : stream # k BY <2>1, StreamerAssumption
  <2> QED BY <2>1, <2>2, NoRows, BatchStep
<1>5. CASE SkipUnencodable \/ SendFails
  <2>1. /\ batch # <<>> /\ batch' = Tail(batch)
        /\ Head(batch) \in Unencodable \/ state[stream] = "broken"
        /\ UNCHANGED <<rows, handled, wire, state, stream>>
    BY <1>5 DEF SkipUnencodable, SendFails, SkipRow, LeaveOutRow, streamVars
  <2>2. batch \in Seq(Rows) BY DEF Types, TypeOK
  <2>3. InOrder(batch') /\ RowsIn(batch) = {Head(batch)} \cup RowsIn(batch')
    BY <1>1, <2>1, <2>2, HeadTail
  <2> QED BY <2>1, <2>3, BatchStep
<1>6. CASE CloseSend
  <2>1. /\ batch = <<>> /\ batch' = <<>> /\ stream' = 0 /\ stream \in Streams
        /\ state' = [state EXCEPT ![stream] = IF @ = "open" THEN "closing" ELSE @]
        /\ state[stream] \in {"open", "broken"}
        /\ UNCHANGED <<rows, handled, wire>>
    BY <1>6 DEF CloseSend, Types, StreamUse
  <2>2. \A k \in Streams :
          /\ state'[k] = "free" => state[k] = "free"
          /\ state'[k] \in {"open", "closing"} => state[k] \in {"open", "closing"}
    BY <2>1 DEF Types, TypeOK
  <2>3. RowsIn(batch) = {} /\ InOrder(batch') BY <2>1, NoRows
  <2>4. \A k \in Streams : stream' # k BY <2>1, StreamerAssumption
  <2> QED BY <2>1, <2>2, <2>3, <2>4, BatchStep
<1>7. CASE SendRow BY <1>7, SendStepKeeps
<1>8. CASE CloseConn
  <2>1. ConnectionEnds /\ UNCHANGED <<batch, stream>> BY <1>8 DEF CloseConn
  <2>2. /\ state' = [k \in Streams |-> IF state[k] = "free" THEN "free" ELSE "broken"]
        /\ \A k \in Streams : \E n \in 0 .. Len(wire[k]) :
             wire'[k] = SubSeq(wire[k], 1, n)
        /\ UNCHANGED <<rows, handled>>
    BY <2>1, ConnectionLeaves DEF Types
  <2> QED BY <2>1, <2>2, ConnectionBreaks, BreakStep
<1>9. ASSUME NEW k \in Streams, Break(k) PROVE SendInv'
  <2>1. /\ UNCHANGED <<batch, stream, rows, handled>>
        /\ \E n \in 0 .. Len(wire[k]) :
             wire' = [wire EXCEPT ![k] = SubSeq(wire[k], 1, n)]
        /\ state' = [state EXCEPT ![k] = "broken"]
    BY <1>9 DEF Break, clientVars
  <2>2. \A j \in Streams :
          \/ wire'[j] = wire[j] /\ state'[j] = state[j]
          \/ /\ state'[j] = "broken"
             /\ \E n \in 0 .. Len(wire[j]) : wire'[j] = SubSeq(wire[j], 1, n)
    BY <2>1 DEF Types, TypeOK
  <2> QED BY <2>1, <2>2, BreakStep
<1>10. ASSUME NEW k \in Streams, Handle(k) PROVE SendInv' BY <1>10, HandleStep
<1>11. ASSUME NEW k \in Streams, OpenStream(k) \/ Free(k) PROVE SendInv'
  BY <1>11, StreamStep
<1> QED
  BY <1>2, <1>3, <1>4, <1>5, <1>6, <1>7, <1>8, <1>9, <1>10, <1>11
  DEF Next, SendStep

\* To begin with nothing is on its way.
LEMMA SendInvInit == Init => SendInv
<1> SUFFICES ASSUME Init PROVE SendInv OBVIOUS
<1>1. /\ batch = <<>> /\ stream = 0
      /\ \A k \in Streams : handled[k] = <<>> /\ wire[k] = <<>> /\ state[k] = "free"
  BY DEF Init
<1>2. \A k \in Streams : stream # k BY <1>1, StreamerAssumption
<1>3. \A k \in Streams : Sent(k) = {} BY <1>1, NoRows DEF Sent
<1>4. SendOrder BY <1>1, <1>2, NoRows DEF SendOrder
<1>5. SentRows BY <1>3 DEF SentRows
<1>6. RestIsBatch BY <1>1, <1>2 DEF RestIsBatch
<1> QED BY <1>4, <1>5, <1>6 DEF SendInv

\* It holds at all times.
LEMMA SendCorrect == Spec => [](Types /\ SendInv)
BY TypesInit, TypeStep, SendInvInit, SendInvStep, PTL DEF Spec

\* In any state of the invariant, what a stream that did not break has carried and
\* what is left of its batch are the rows of the batch that can be encoded.
LEMMA CarriedByInv == Types /\ SendInv => BatchIsCarried
<1> SUFFICES ASSUME Types, SendInv, NEW k \in Streams,
                    state[k] \in {"open", "closing"}
             PROVE  LET all == handled[k] \o wire[k]
                                 \o (IF stream = k THEN batch ELSE <<>>)
                    IN  InOrder(all) /\ Encodable(all) = Encodable(rows[k])
  BY DEF BatchIsCarried
<1> DEFINE sent == handled[k] \o wire[k]
           left == IF stream = k THEN batch ELSE <<>>
<1>1. sent \in Seq(Rows) /\ RowsIn(sent) = Sent(k) /\ InOrder(sent)
  <2>1. handled[k] \in Seq(Rows) /\ wire[k] \in Seq(Rows) BY DEF Types, TypeOK
  <2> QED BY <2>1, EndToEnd DEF SendInv, SendOrder, Sent
<1>2. left \in Seq(Rows) /\ InOrder(left)
  BY NoRows DEF Types, TypeOK, SendInv, SendOrder
<1>3. \A r \in Sent(k), s \in RowsIn(left) : r < s
  BY NoRows DEF SendInv, SendOrder
<1>4. /\ RowsIn(left) \ Unencodable \subseteq Encodable(rows[k])
      /\ Encodable(rows[k]) \subseteq Sent(k) \cup RowsIn(left)
      /\ Sent(k) \subseteq Encodable(rows[k])
  BY NoRows DEF SendInv, RestIsBatch, SentRows, Encodable
<1> HIDE DEF sent, left
<1>5. InOrder(sent \o left) /\ RowsIn(sent \o left) = Sent(k) \cup RowsIn(left)
  BY <1>1, <1>2, <1>3, EndToEnd
<1>6. Encodable(sent \o left) = Encodable(rows[k])
  BY <1>4, <1>5 DEF Encodable
<1> QED BY <1>5, <1>6 DEF sent, left

\* What a stream that did not break has carried, and what is left of its batch,
\* are the encodable rows of the batch, each once and in order.
THEOREM BatchCarried == Spec => []BatchIsCarried
BY CarriedByInv, SendCorrect, PTL

\* In any state of the invariant, what was handled of a batch is a beginning.
LEMMA LossByInv == Types /\ SendInv => LossIsTail
<1> SUFFICES ASSUME Types, SendInv, NEW k \in Streams
             PROVE  /\ InOrder(handled[k])
                    /\ RowsIn(handled[k]) \subseteq Encodable(rows[k])
                    /\ \A r \in Encodable(rows[k]), h \in RowsIn(handled[k]) :
                         r < h => r \in RowsIn(handled[k])
  BY DEF LossIsTail
<1>1. InOrder(handled[k]) /\ RowsIn(handled[k]) \subseteq Encodable(rows[k])
  BY DEF SendInv, SendOrder, SentRows, Sent
<1>2. ASSUME NEW r \in Encodable(rows[k]), NEW h \in RowsIn(handled[k]), r < h
      PROVE  r \in RowsIn(handled[k])
  <2>1. r \in RowsIn(handled[k]) \cup RowsIn(wire[k])
    BY <1>2 DEF SendInv, SentRows, Sent
  <2>2. r \in RowsIn(wire[k]) => h < r BY <1>2 DEF SendInv, SendOrder
  <2>3. wire[k] \in Seq(Rows) /\ handled[k] \in Seq(Rows) BY DEF Types, TypeOK
  <2>4. h \in Nat /\ (r \in RowsIn(wire[k]) => r \in Nat)
    BY <1>2, <2>3, RowsAreNumbers
  <2> QED BY <1>2, <2>1, <2>2, <2>4
<1> QED BY <1>1, <1>2

\* A stream that breaks loses the end of its batch and nothing before it.
THEOREM LossOfTail == Spec => []LossIsTail
BY LossByInv, SendCorrect, PTL

-----------------------------------------------------------------------------
(* Streamer and handler do not wait for each other. *)

\* What a stream has been given of a batch.
Given(k) == Len(handled[k]) + Len(wire[k])

\* An answer for every row handled, no more on the way than there is room for, and
\* no stream is given more than a batch.
CountOK(k) ==
  /\ answers[k] = Len(handled[k])
  /\ Len(wire[k]) <= RequestWindow
  /\ Given(k) <= BatchSize
  /\ stream = k => Given(k) + Len(batch) <= BatchSize

\* So it is with every stream.
CountInv ==
  /\ Len(batch) <= BatchSize
  /\ \A k \in Streams : CountOK(k)

\* The streamer waits for room for a request, the handler for room for an answer,
\* which nobody reads: neither goes on before the connection breaks.
Standoff(k) ==
  /\ pc = "send" /\ stream = k /\ state[k] = "open"
  /\ batch # <<>> /\ Head(batch) \notin Unencodable
  /\ Len(wire[k]) >= RequestWindow
  /\ answers[k] > AnswerWindow

NoStandoff == \A k \in Streams : ~Standoff(k)

\* The numbers the counts are of.
LEMMA Counted ==
  ASSUME Types
  PROVE  /\ Len(batch) \in Nat
         /\ \A k \in Streams : Len(handled[k]) \in Nat /\ Len(wire[k]) \in Nat
         /\ handled \in [Streams -> Seq(Rows)] /\ wire \in [Streams -> Seq(Rows)]
         /\ BatchSize \in Nat /\ RequestWindow \in Nat /\ AnswerWindow \in Nat
BY StreamerAssumption DEF Types, TypeOK

\* A tick takes no more than a batch.
LEMMA CountTake ==
  ASSUME Types, CountInv, TakeBatch
  PROVE  CountInv'
<1>1. /\ batch' = Slice(StartIdx, EndIdx(StartIdx)) /\ stream = 0 /\ stream' = 0
      /\ UNCHANGED <<handled, wire, answers>>
  BY DEF TakeBatch, streamVars, Types, StreamUse
<1>2. currentIdx \in 0 .. NumRows /\ NumRows \in Nat /\ BatchSize \in Nat
  BY StreamerAssumption DEF Types, TypeOK
<1>3. /\ StartIdx \in 0 .. NumRows /\ EndIdx(StartIdx) \in 0 .. NumRows
      /\ EndIdx(StartIdx) - StartIdx \in 0 .. BatchSize
  BY <1>2 DEF StartIdx, EndIdx
<1>4. Len(batch') = EndIdx(StartIdx) - StartIdx
  <2>1. EndIdx(StartIdx) - StartIdx \in Nat BY <1>3
  <2> QED BY <1>1, <2>1 DEF Slice
<1>5. \A k \in Streams : stream # k BY <1>1, StreamerAssumption
<1>6. \A k \in Streams : CountOK(k)' BY <1>1, <1>5 DEF CountInv, CountOK, Given
<1> QED BY <1>2, <1>3, <1>4, <1>6 DEF CountInv

\* A row goes from the batch to the stream, or is left out.
LEMMA CountSend ==
  ASSUME Types, CountInv, SendRow \/ SkipUnencodable \/ SendFails
  PROVE  CountInv'
<1>1. Len(batch') = Len(batch) - 1 /\ stream' = stream /\ UNCHANGED <<handled, answers>>
  <2>1. batch # <<>> /\ batch' = Tail(batch) /\ UNCHANGED <<stream, handled, answers>>
    BY DEF SendRow, SkipUnencodable, SendFails, SentRow, SkipRow, LeaveOutRow, streamVars
  <2>2. batch \in Seq(Rows) BY DEF Types, TypeOK
  <2> QED BY <2>1, <2>2
<1>2. CASE SkipUnencodable \/ SendFails
  <2>1. wire' = wire BY <1>2 DEF SkipUnencodable, SendFails, streamVars
  <2>2. ASSUME NEW k \in Streams PROVE CountOK(k)'
    <3>1. Given(k)' = Given(k) /\ Given(k) \in Nat BY <1>1, <2>1, Counted DEF Given
    <3>2. CountOK(k) BY DEF CountInv
    <3> QED BY <1>1, <2>1, <3>1, <3>2, Counted DEF CountOK
  <2> QED BY <1>1, <2>2, Counted DEF CountInv
<1>3. CASE SendRow
  <2>1. /\ stream \in Streams /\ Len(wire[stream]) < RequestWindow
        /\ wire' = [wire EXCEPT ![stream] = Append(@, Head(batch))]
    BY <1>3 DEF SendRow, Types, StreamUse
  <2>2. /\ wire'[stream] = Append(wire[stream], Head(batch))
        /\ \A k \in Streams : k # stream => wire'[k] = wire[k]
    BY <2>1 DEF Types, TypeOK
  <2>3. Len(wire'[stream]) = Len(wire[stream]) + 1
    <3>1. wire[stream] \in Seq(Rows) BY <2>1 DEF Types, TypeOK
    <3> QED BY <2>2, <3>1
  <2>4. CountOK(stream)'
    <3>1. Given(stream)' = Given(stream) + 1 /\ Given(stream) \in Nat
      BY <1>1, <2>1, <2>3, Counted DEF Given
    <3>2. CountOK(stream) BY <2>1 DEF CountInv
    <3>3. Len(batch) \in Nat /\ Len(wire[stream]) \in Nat BY <2>1, Counted
    <3>4. BatchSize \in Nat /\ RequestWindow \in Nat BY Counted
    <3> QED BY <1>1, <2>1, <2>3, <3>1, <3>2, <3>3, <3>4 DEF CountOK
  <2>5. ASSUME NEW k \in Streams, k # stream PROVE CountOK(k)'
    BY <1>1, <2>2, <2>5 DEF CountInv, CountOK, Given
  <2> QED BY <1>1, <2>4, <2>5, Counted DEF CountInv
<1> QED BY <1>2, <1>3

\* A row goes from the stream to the handler.
LEMMA CountHandle ==
  ASSUME Types, CountInv, NEW h \in Streams, Handle(h)
  PROVE  CountInv'
<1>1. /\ wire[h] # <<>> /\ UNCHANGED <<batch, stream>>
      /\ handled'[h] = Append(handled[h], Head(wire[h]))
      /\ wire'[h] = Tail(wire[h]) /\ answers'[h] = answers[h] + 1
      /\ \A k \in Streams : k # h =>
           handled'[k] = handled[k] /\ wire'[k] = wire[k] /\ answers'[k] = answers[k]
  BY DEF Handle, clientVars, Types, TypeOK
<1>2. Len(handled'[h]) = Len(handled[h]) + 1 /\ Len(wire'[h]) = Len(wire[h]) - 1
  <2>1. handled[h] \in Seq(Rows) /\ wire[h] \in Seq(Rows) BY DEF Types, TypeOK
  <2> QED BY <1>1, <2>1
<1>3. CountOK(h)'
  <2>1. Given(h)' = Given(h) BY <1>2, Counted DEF Given
  <2>2. CountOK(h) BY DEF CountInv
  <2>3. Len(wire[h]) \in Nat /\ RequestWindow \in Nat BY Counted
  <2> QED BY <1>1, <1>2, <2>1, <2>2, <2>3 DEF CountOK
<1>4. ASSUME NEW k \in Streams, k # h PROVE CountOK(k)'
  BY <1>1, <1>4 DEF CountInv, CountOK, Given
<1> QED BY <1>1, <1>3, <1>4 DEF CountInv

\* A stream begins with the batch and nothing else, or ends.
LEMMA CountStream ==
  ASSUME Types, SendInv, CountInv, NEW h \in Streams, OpenStream(h) \/ Free(h)
  PROVE  CountInv'
<1>1. 0 <= RequestWindow /\ 0 <= BatchSize BY StreamerAssumption
<1>2. CASE OpenStream(h)
  <2>1. /\ stream = 0 /\ stream' = h /\ UNCHANGED <<batch, wire, handled, answers>>
        /\ handled[h] = <<>> /\ wire[h] = <<>>
    BY <1>2 DEF OpenStream, Types, StreamUse, SendInv, RestIsBatch
  <2>2. ASSUME NEW k \in Streams PROVE CountOK(k)'
    <3>1. CASE k = h
      <4>1. Given(k)' = 0 /\ Given(k) = 0 BY <2>1, <3>1, Counted DEF Given
      <4>2. Len(batch) \in Nat /\ Len(batch) <= BatchSize BY Counted DEF CountInv
      <4> QED BY <1>1, <2>1, <3>1, <4>1, <4>2 DEF CountInv, CountOK
    <3>2. CASE k # h BY <2>1, <3>2 DEF CountInv, CountOK, Given
    <3> QED BY <3>1, <3>2
  <2> QED BY <2>1, <2>2 DEF CountInv
<1>3. CASE Free(h)
  <2>1. /\ UNCHANGED <<batch, stream>> /\ stream # h
        /\ handled'[h] = <<>> /\ wire'[h] = <<>> /\ answers'[h] = 0
        /\ \A k \in Streams : k # h =>
             handled'[k] = handled[k] /\ wire'[k] = wire[k] /\ answers'[k] = answers[k]
    BY <1>3, StreamerAssumption DEF Free, clientVars, Types, TypeOK, StreamUse
  <2>2. CountOK(h)'
    <3>1. Given(h)' = 0 /\ Len(wire'[h]) = 0 /\ Len(handled'[h]) = 0
      BY <2>1 DEF Given
    <3> QED BY <1>1, <2>1, <3>1 DEF CountOK
  <2>3. ASSUME NEW k \in Streams, k # h PROVE CountOK(k)'
    BY <2>1, <2>3 DEF CountInv, CountOK, Given
  <2> QED BY <2>1, <2>2, <2>3 DEF CountInv
<1> QED BY <1>2, <1>3

\* A stream, or all of them, loses requests; the streamer may end with them.
LEMMA CountBreak ==
  ASSUME Types, CountInv, UNCHANGED <<handled, answers>>,
         UNCHANGED <<batch, stream>> \/ (batch' = <<>> /\ stream' = 0),
         \A k \in Streams : \/ wire'[k] = wire[k]
                            \/ \E n \in 0 .. Len(wire[k]) :
                                 wire'[k] = SubSeq(wire[k], 1, n)
  PROVE  CountInv'
<1>1. ASSUME NEW k \in Streams
      PROVE  Len(wire'[k]) \in Nat /\ Len(wire'[k]) <= Len(wire[k])
  <2>1. wire[k] \in Seq(Rows) BY DEF Types, TypeOK
  <2> QED BY <2>1
<1>2. Len(batch') <= BatchSize
  <2>1. Len(<<>>) <= BatchSize BY StreamerAssumption
  <2> QED BY <2>1 DEF CountInv
<1>3. ASSUME NEW k \in Streams PROVE CountOK(k)'
  <2>1. CountOK(k) BY DEF CountInv
  <2>2. /\ Len(wire[k]) \in Nat /\ Len(handled[k]) \in Nat /\ Len(batch) \in Nat
        /\ BatchSize \in Nat /\ RequestWindow \in Nat
    BY Counted
  <2> DEFINE w == Len(wire[k])
             v == Len(wire'[k])
             h == Len(handled[k])
  <2>3. w \in Nat /\ v \in Nat /\ h \in Nat /\ v <= w BY <1>1, <2>2
  <2>4. Given(k) = h + w /\ Given(k)' = h + v BY DEF Given
  <2> HIDE DEF w, v, h
  <2>5. Given(k) \in Nat /\ Given(k)' \in Nat /\ Given(k)' <= Given(k)
    BY <2>3, <2>4
  <2>6. stream' = k => stream = k /\ batch' = batch BY StreamerAssumption
  <2> QED BY <1>1, <2>1, <2>2, <2>5, <2>6 DEF CountOK
<1> QED BY <1>2, <1>3 DEF CountInv

\* So every step keeps the counts.
LEMMA CountStep ==
  ASSUME Types, SendInv, CountInv, [Next]_vars
  PROVE  CountInv'
<1>1. CASE TakeBatch BY <1>1, CountTake
<1>2. CASE SendRow \/ SkipUnencodable \/ SendFails BY <1>2, CountSend
<1>3. ASSUME NEW k \in Streams, Handle(k) PROVE CountInv' BY <1>3, CountHandle
<1>4. ASSUME NEW k \in Streams, OpenStream(k) \/ Free(k) PROVE CountInv'
  BY <1>4, CountStream
<1>5. CASE LoadFails \/ Return \/ Stop \/ UNCHANGED vars
  BY <1>5
  DEF LoadFails, Return, Stop, vars, clientVars, streamVars, CountInv, CountOK, Given
<1>6. CASE OpenFails \/ CloseSend
  <2>1. batch' = <<>> /\ stream' = 0 /\ UNCHANGED <<wire, handled, answers>>
    BY <1>6 DEF OpenFails, CloseSend, streamVars, Types, StreamUse
  <2> QED BY <2>1, CountBreak
<1>7. CASE CloseConn
  <2>1. /\ UNCHANGED <<batch, stream, handled, answers>>
        /\ \A k \in Streams : \E n \in 0 .. Len(wire[k]) :
             wire'[k] = SubSeq(wire[k], 1, n)
    BY <1>7, ConnectionLeaves DEF CloseConn, Types
  <2> QED BY <2>1, CountBreak
<1>8. ASSUME NEW k \in Streams, Break(k) PROVE CountInv'
  <2>1. PICK n \in 0 .. Len(wire[k]) :
          wire' = [wire EXCEPT ![k] = SubSeq(wire[k], 1, n)]
    BY <1>8 DEF Break
  <2>2. \A j \in Streams : wire'[j] = IF j = k THEN SubSeq(wire[k], 1, n) ELSE wire[j]
    BY <2>1 DEF Types, TypeOK
  <2>3. UNCHANGED <<batch, stream, handled, answers>> BY <1>8 DEF Break, clientVars
  <2> QED BY <2>2, <2>3, CountBreak
<1> QED
  BY <1>1, <1>2, <1>3, <1>4, <1>5, <1>6, <1>7, <1>8 DEF Next, SendStep

\* To begin with nothing is carried.
LEMMA CountInit == Init => CountInv
<1> SUFFICES ASSUME Init PROVE CountInv OBVIOUS
<1>1. 0 <= RequestWindow /\ 0 <= BatchSize BY StreamerAssumption
<1>2. /\ batch = <<>> /\ stream = 0
      /\ \A k \in Streams : handled[k] = <<>> /\ wire[k] = <<>> /\ answers[k] = 0
  BY DEF Init
<1>3. \A k \in Streams : stream # k BY <1>2, StreamerAssumption
<1>4. \A k \in Streams : Given(k) = 0
  <2>1. handled \in [Streams -> Seq(Rows)] /\ wire \in [Streams -> Seq(Rows)]
    BY TypesInit DEF Types, TypeOK
  <2> QED BY <1>2, <2>1 DEF Given
<1> QED BY <1>1, <1>2, <1>3, <1>4 DEF CountInv, CountOK

\* When both are stuck there are more rows than both windows hold.
LEMMA StandoffNeedsMore ==
  ASSUME Types, CountInv, NEW k \in Streams, Standoff(k)
  PROVE  BatchSize > RequestWindow + AnswerWindow + 1
<1>1. RequestWindow \in Nat /\ AnswerWindow \in Nat /\ BatchSize \in Nat
  BY StreamerAssumption
<1>2. Len(batch) >= 1
  <2>1. batch \in Seq(Rows) /\ batch # <<>> BY DEF Types, TypeOK, Standoff
  <2> QED BY <2>1
<1>3. Len(wire[k]) \in Nat /\ Len(handled[k]) \in Nat /\ Len(batch) \in Nat
      /\ handled \in [Streams -> Seq(Rows)] /\ wire \in [Streams -> Seq(Rows)]
  BY Counted
<1>4. CountOK(k) BY DEF CountInv
<1>5. Len(handled[k]) >= AnswerWindow + 1 /\ Len(wire[k]) >= RequestWindow
  BY <1>1, <1>3, <1>4 DEF CountOK, Standoff
<1>6. Len(handled[k]) + Len(wire[k]) + Len(batch) <= BatchSize
  BY <1>4 DEF CountOK, Given, Standoff
<1> QED BY <1>1, <1>2, <1>3, <1>5, <1>6

\* The streamer reads no answer, so that answers pile up; but a batch that the two
\* windows and the hands of the handler hold is never stuck with the streamer
\* waiting for the handler and the handler for the streamer.
THEOREM BatchThatFitsIsNotStuck ==
  ASSUME BatchSize <= RequestWindow + AnswerWindow + 1
  PROVE  Spec => []NoStandoff
<1>1. Types /\ CountInv => NoStandoff
  <2>1. RequestWindow \in Nat /\ AnswerWindow \in Nat /\ BatchSize \in Nat
    BY StreamerAssumption
  <2> QED BY <2>1, StandoffNeedsMore DEF NoStandoff
<1>2. CountInv /\ Types /\ SendInv /\ [Next]_vars => CountInv' BY CountStep
<1> QED BY <1>1, <1>2, CountInit, SendCorrect, PTL DEF Spec

=============================================================================
