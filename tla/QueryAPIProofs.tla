--------------------------- MODULE QueryAPIProofs ---------------------------
(***************************************************************************)
(* Theorems about QueryAPI, for any gpus, clock, number of points and of   *)
(* clients: the maps of the storage agree, a gpu that was listed has       *)
(* points, and a repeated query shows no less.                             *)
(***************************************************************************)
EXTENDS QueryAPI, FiniteSetTheorems, SequenceTheorems, WellFoundedInduction,
        TLAPS

-----------------------------------------------------------------------------
(* Sequences. *)

\* Two sequences end to end: the first is a beginning, the last entry that of the
\* second unless there is none.
LEMMA EndToEnd ==
  ASSUME NEW S, NEW p \in Seq(S), NEW q \in Seq(S)
  PROVE  /\ p \o q \in Seq(S)
         /\ Len(p \o q) = Len(p) + Len(q) /\ Len(p) \in Nat /\ Len(q) \in Nat
         /\ DOMAIN p \subseteq DOMAIN (p \o q)
         /\ \A i \in DOMAIN p : (p \o q)[i] = p[i]
         /\ \A i \in DOMAIN q : (p \o q)[Len(p) + i] = q[i]
         /\ q # <<>> => p \o q # <<>> /\ Len(q) \in DOMAIN q
         /\ q = <<>> => p \o q = p
OBVIOUS

\* An entry of a sequence is one of its values.
LEMMA EntryOf == ASSUME NEW S, NEW q \in Seq(S), NEW n \in DOMAIN q PROVE q[n] \in S
OBVIOUS

\* A sequence over a set is one over any larger set.
LEMMA SeqWiden ==
  ASSUME NEW S, NEW T, S \subseteq T, NEW q \in Seq(S)
  PROVE  q \in Seq(T)
OBVIOUS

-----------------------------------------------------------------------------
(* Sets of numbers in turn. *)

\* A set of natural numbers that has any has a least.
LEMMA LeastNat ==
  ASSUME NEW T \in SUBSET Nat, T # {}
  PROVE  \E n \in T : \A m \in T : n <= m
<1> DEFINE R == OpToRel(<, Nat)
<1>1. IsWellFoundedOn(R, Nat) BY NatLessThanWellFounded
<1>2. \A x, y \in Nat : x < y => <<x, y>> \in R BY DEF OpToRel
<1> HIDE DEF R
<1>3. \E x \in T : \A y \in T : ~ (<<y, x>> \in R) BY <1>1, WFMin
<1>4. PICK x \in T : \A y \in T : ~ (<<y, x>> \in R) BY <1>3
<1>5. ASSUME NEW m \in T PROVE x <= m
  <2>1. x \in Nat /\ m \in Nat OBVIOUS
  <2>2. ~ (m < x) BY <1>2, <1>4, <2>1
  <2> QED BY <2>1, <2>2
<1> QED BY <1>5

Ascends(s) == \A i, j \in DOMAIN s : i < j => s[i] < s[j]
Ascending(set) == {s \in [1 .. Cardinality(set) -> set] : Ascends(s)}

\* What ascends to below k still does with k put behind it.
LEMMA AscendOn ==
  ASSUME NEW k \in Nat \ {0}, NEW S \in SUBSET (1 .. k - 1), NEW s \in Ascending(S)
  PROVE  Ascending(S \cup {k}) # {}
<1> DEFINE c == Cardinality(S)
           t == [i \in 1 .. c + 1 |-> IF i = c + 1 THEN k ELSE s[i]]
<1>1. IsFiniteSet(S)
  <2>1. IsFiniteSet(1 .. k - 1) BY FS_Interval
  <2> QED BY <2>1, FS_Subset
<1>2. c \in Nat /\ Cardinality(S \cup {k}) = c + 1
  <2>1. k \notin S OBVIOUS
  <2> QED BY <1>1, <2>1, FS_CardinalityType, FS_AddElement
<1>3. s \in [1 .. c -> S] /\ Ascends(s) BY DEF Ascending
<1> HIDE DEF c
<1>4. \A i \in 1 .. c : s[i] \in S /\ s[i] \in Int /\ s[i] < k
  <2>1. \A m \in S : m \in Int /\ m < k OBVIOUS
  <2>2. \A i \in 1 .. c : s[i] \in S BY <1>3
  <2> QED BY <2>1, <2>2
<1>5. t \in [1 .. c + 1 -> S \cup {k}] BY <1>2, <1>4
<1>6. Ascends(t)
  <2> SUFFICES ASSUME NEW i \in 1 .. c + 1, NEW j \in 1 .. c + 1, i < j
               PROVE  t[i] < t[j]
    BY <1>5 DEF Ascends
  <2>1. i \in 1 .. c /\ t[i] = s[i] BY <1>2
  <2>2. CASE j = c + 1 BY <1>4, <2>1, <2>2
  <2>3. CASE j # c + 1
    <3>1. j \in 1 .. c /\ t[j] = s[j] BY <1>2, <2>3
    <3>2. DOMAIN s = 1 .. c BY <1>3
    <3> QED BY <1>3, <2>1, <3>1, <3>2 DEF Ascends
  <2> QED BY <2>2, <2>3
<1> HIDE DEF t
<1> QED BY <1>2, <1>5, <1>6 DEF Ascending

\* Every set of positive numbers up to some k can be put in turn: the least k of
\* which this were not so could not be, its members below k being in turn.
LEMMA AscendingExists ==
  ASSUME NEW k \in Nat, NEW S \in SUBSET (1 .. k)
  PROVE  Ascending(S) # {}
<1> DEFINE Bad == {n \in Nat : \E T \in SUBSET (1 .. n) : Ascending(T) = {}}
<1>1. ASSUME Bad # {} PROVE FALSE
  <2>1. Bad \in SUBSET Nat OBVIOUS
  <2> HIDE DEF Bad
  <2>2. PICK n \in Bad : \A m \in Bad : n <= m BY <1>1, <2>1, LeastNat
  <2> USE DEF Bad
  <2>3. PICK T \in SUBSET (1 .. n) : Ascending(T) = {} BY <2>2
  <2>4. n \in Nat BY <2>2
  <2>5. CASE n = 0
    <3>1. T = {} BY <2>5
    <3>2. Cardinality(T) = 0 BY <3>1, FS_EmptySet
    <3>3. <<>> \in [1 .. 0 -> T] OBVIOUS
    <3>4. Ascends(<<>>) BY DEF Ascends
    <3> QED BY <2>3, <3>2, <3>3, <3>4 DEF Ascending
  <2>6. CASE n # 0
    <3>1. n - 1 \in Nat /\ ~(n <= n - 1) BY <2>4, <2>6
    <3>2. n - 1 \notin Bad BY <2>2, <3>1
    <3>3. \A U \in SUBSET (1 .. n - 1) : Ascending(U) # {} BY <3>1, <3>2
    <3>4. T \ {n} \in SUBSET (1 .. n - 1) BY <2>4
    <3>5. PICK s : s \in Ascending(T \ {n}) BY <3>3, <3>4
    <3>6. n \in T
      <4>1. ASSUME n \notin T PROVE FALSE
        <5>1. T \ {n} = T BY <4>1
        <5> QED BY <2>3, <3>3, <3>4, <5>1
      <4> QED BY <4>1
    <3>7. (T \ {n}) \cup {n} = T BY <3>6
    <3>8. Ascending((T \ {n}) \cup {n}) # {} BY <2>4, <2>6, <3>4, <3>5, AscendOn
    <3> QED BY <2>3, <3>7, <3>8
  <2> QED BY <2>5, <2>6
<1> QED BY <1>1

\* InTurn lists exactly the members of such a set, the greatest at the end.
LEMMA InTurnLists ==
  ASSUME NEW k \in Nat, NEW S \in SUBSET (1 .. k)
  PROVE  /\ InTurn(S) \in Seq(S)
         /\ S = {} => InTurn(S) = <<>>
         /\ S # {} => /\ InTurn(S) # <<>>
                      /\ InTurn(S)[Len(InTurn(S))] \in S
                      /\ \A m \in S : m <= InTurn(S)[Len(InTurn(S))]
<1> DEFINE c == Cardinality(S)
           s == InTurn(S)
<1>1. IsFiniteSet(S)
  <2>1. IsFiniteSet(1 .. k) BY FS_Interval
  <2> QED BY <2>1, FS_Subset
<1>2. c \in Nat BY <1>1, FS_CardinalityType
<1>3. s \in [1 .. c -> S] /\ \A i, j \in DOMAIN s : i < j => s[i] < s[j]
  BY AscendingExists DEF Ascending, Ascends, InTurn
<1> HIDE DEF s, c
<1>4. s \in Seq(S) /\ Len(s) = c /\ DOMAIN s = 1 .. c BY <1>2, <1>3, SeqDef
<1>5. \A i \in 1 .. c : s[i] \in S /\ s[i] \in Int
  <2>1. \A m \in S : m \in Int OBVIOUS
  <2>2. \A i \in 1 .. c : s[i] \in S BY <1>3
  <2> QED BY <2>1, <2>2
<1>6. s \in Surjection(1 .. c, S)
  <2>1. \A i, j \in 1 .. c : s[i] = s[j] => i = j
    <3> SUFFICES ASSUME NEW i \in 1 .. c, NEW j \in 1 .. c, s[i] = s[j]
                 PROVE  i = j
      OBVIOUS
    <3>1. i < j \/ j < i \/ i = j BY <1>2
    <3> QED BY <1>3, <1>4, <1>5, <3>1
  <2>2. s \in Injection(1 .. c, S) BY <1>3, <2>1 DEF Injection, IsInjective
  <2>3. IsFiniteSet(1 .. c) /\ Cardinality(1 .. c) = Cardinality(S)
    BY <1>2, FS_Interval DEF c
  <2> QED BY <1>1, <2>2, <2>3, FS_Injection
<1>7. CASE S = {}
  <2>1. c = 0 BY <1>7, FS_EmptySet DEF c
  <2> QED BY <1>4, <1>7, <2>1 DEF s
<1>8. CASE S # {}
  <2>1. \A m \in S : \E i \in 1 .. c : s[i] = m BY <1>6 DEF Surjection
  <2>2. c >= 1
    <3>1. PICK m : m \in S BY <1>8
    <3>2. PICK i \in 1 .. c : s[i] = m BY <2>1, <3>1
    <3> QED BY <1>2, <3>2
  <2>3. c \in 1 .. c BY <1>2, <2>2
  <2>4. ASSUME NEW m \in S PROVE m <= s[c]
    <3>1. PICK i \in 1 .. c : s[i] = m BY <2>1
    <3>2. i = c \/ i < c BY <1>2
    <3> QED BY <1>3, <1>4, <1>5, <2>3, <3>1, <3>2
  <2>5. s # <<>> BY <1>4, <2>2
  <2> QED BY <1>4, <1>5, <1>8, <2>3, <2>4, <2>5 DEF s
<1> QED BY <1>7, <1>8

-----------------------------------------------------------------------------
(* A batch. *)

\* A batch is a sequence of points.
LEMMA BatchIs ==
  ASSUME NEW batch \in Batches
  PROVE  /\ batch \in Seq(Point)
         /\ Len(batch) \in Nat /\ DOMAIN batch = 1 .. Len(batch)
<1>1. PICK n \in 1 .. MaxPoints : batch \in [1 .. n -> Point] BY DEF Batches
<1>2. n \in Nat BY QueryAssumption
<1> QED BY <1>1, <1>2, SeqDef

\* The arrival numbers of the points of a gpu are new, and the last of them is
\* the one of its last point.
LEMMA ArrivalsOf ==
  ASSUME NEW batch \in Batches, NEW g \in GPUs, points \in Seq(Point)
  PROVE  /\ Arrivals(batch, g) \in Seq(Len(points) + 1 .. Len(points) + Len(batch))
         /\ Mine(batch, g) = {} => Arrivals(batch, g) = <<>>
         /\ Mine(batch, g) # {} =>
              /\ Newest(batch, g) \in DOMAIN batch
              /\ Arrivals(batch, g) # <<>>
              /\ Arrivals(batch, g)[Len(Arrivals(batch, g))]
                   = Len(points) + Newest(batch, g)
<1> DEFINE M == Mine(batch, g)
           N == Len(points)
           L == Len(batch)
           S == {N + n : n \in M}
           a == Arrivals(batch, g)
           last == a[Len(a)]
<1>1. N \in Nat OBVIOUS
<1>2. L \in Nat /\ DOMAIN batch = 1 .. L BY BatchIs
<1>3. M \subseteq 1 .. L BY <1>2 DEF Mine
<1>4. a = InTurn(S) BY DEF Arrivals
<1>5. Newest(batch, g) = CHOOSE n \in M : \A m \in M : m <= n BY DEF Newest
<1> HIDE DEF M, N, L, a
<1>6. S \subseteq N + 1 .. N + L /\ S \in SUBSET (1 .. N + L) /\ N + L \in Nat
  <2>1. N + L \in Nat BY <1>1, <1>2
  <2>2. \A n \in M : n \in Int /\ 1 <= n /\ n <= L BY <1>2, <1>3
  <2>3. \A n \in M : N + n \in N + 1 .. N + L /\ N + n \in 1 .. N + L
    BY <1>1, <1>2, <2>2
  <2> QED BY <2>1, <2>3
<1>7. (S = {}) <=> (M = {}) OBVIOUS
<1> HIDE DEF S
<1>8. /\ a \in Seq(S)
      /\ S = {} => a = <<>>
      /\ S # {} => a # <<>> /\ last \in S /\ \A m \in S : m <= last
  BY <1>4, <1>6, InTurnLists
<1>9. a \in Seq(N + 1 .. N + L) BY <1>6, <1>8, SeqWiden
<1> HIDE DEF last
<1>10. ASSUME M # {}
       PROVE  last = N + Newest(batch, g) /\ Newest(batch, g) \in 1 .. L
  <2>1. PICK n \in M : last = N + n BY <1>7, <1>8, <1>10 DEF S
  <2>2. \A m \in M : m \in Int /\ m \in 1 .. L BY <1>2, <1>3
  <2>3. ASSUME NEW m \in M PROVE m <= n
    <3>1. N + m \in S BY DEF S
    <3>2. N + m <= N + n BY <1>7, <1>8, <1>10, <2>1, <3>1
    <3> QED BY <1>1, <2>2, <3>2
  <2>4. \A o \in M : (\A m \in M : m <= o) => o = n BY <2>2, <2>3
  <2>5. Newest(batch, g) = n BY <1>5, <2>3, <2>4
  <2> QED BY <2>1, <2>2, <2>5
<1> QED BY <1>2, <1>7, <1>8, <1>9, <1>10 DEF M, N, L, a, last

-----------------------------------------------------------------------------
(* The invariant. *)

\* A request that was made is about a gpu, as is one with an answer.
Asked ==
  \A r \in Clients : reqPc[r] # "idle" \/ fresh[r] => query[r].gpu \in GPUs

Types == TypeOK /\ Asked

\* The ends of the range of a query are what was given; those that were not are
\* of the time it was parsed, which is past.
RangeInv ==
  \A r \in Clients : reqPc[r] = "parsed" =>
    /\ IF query[r].start = Absent THEN range[r].from <= now - Hour
                                  ELSE range[r].from = query[r].start
    /\ IF query[r].end = Absent THEN range[r].to <= now
                                ELSE range[r].to = query[r].end

\* The numbers of a list.
ListedIn(list) == {list[n] : n \in DOMAIN list}

\* The latest time of a point shown: what was given, or the time of parsing,
\* which is not after that of the next.
Latest(r) ==
  IF query[r].end # Absent THEN query[r].end
  ELSE IF reqPc[r] = "parsed" THEN range[r].to ELSE now

\* What was shown is still there and still in the range that was asked for,
\* unless the storage was closed.
AnswerInv ==
  \A r \in Clients : fresh[r] =>
    \A p \in ListedIn(answer[r]) :
      /\ p \in ListedIn(telemetry[query[r].gpu])
      /\ query[r].start # Absent => points[p].time >= query[r].start
      /\ points[p].time <= Latest(r)

\* What was listed has points.
ListInv == \A g \in listed : telemetry[g] # <<>>

-----------------------------------------------------------------------------
(* Type correctness. *)

\* What a batch adds to the storage.
LEMMA Stored ==
  ASSUME TypeOK, NEW batch \in Batches, Store(batch)
  PROVE  /\ points' \in Seq(Point) /\ DOMAIN points \subseteq DOMAIN points'
         /\ \A p \in DOMAIN points : points'[p] = points[p]
         /\ \A n \in DOMAIN batch : points'[Len(points) + n] = batch[n]
         /\ telemetry' \in [GPUs -> Seq(DOMAIN points')]
         /\ \A g \in GPUs : telemetry'[g] = telemetry[g] \o Arrivals(batch, g)
<1>1. /\ points \in Seq(Point) /\ batch \in Seq(Point)
      /\ points' = points \o batch
      /\ telemetry' = [g \in GPUs |-> telemetry[g] \o Arrivals(batch, g)]
  BY BatchIs DEF TypeOK, Store, Extend
<1>2. /\ points' \in Seq(Point) /\ DOMAIN points \subseteq DOMAIN points'
      /\ \A p \in DOMAIN points : points'[p] = points[p]
      /\ \A n \in DOMAIN batch : points'[Len(points) + n] = batch[n]
      /\ Len(points') = Len(points) + Len(batch)
      /\ Len(points) \in Nat /\ Len(batch) \in Nat
  BY <1>1, EndToEnd
<1>3. DOMAIN points' = 1 .. Len(points) + Len(batch) /\ DOMAIN points = 1 .. Len(points)
  BY <1>1, <1>2
<1>4. ASSUME NEW g \in GPUs
      PROVE  telemetry[g] \o Arrivals(batch, g) \in Seq(DOMAIN points')
  <2>1. Len(points) + 1 .. Len(points) + Len(batch) \subseteq DOMAIN points'
    BY <1>2, <1>3
  <2>2. Arrivals(batch, g) \in Seq(Len(points) + 1 .. Len(points) + Len(batch))
    BY <1>1, ArrivalsOf
  <2>3. Arrivals(batch, g) \in Seq(DOMAIN points') BY <2>1, <2>2, SeqWiden
  <2>4. telemetry[g] \in Seq(DOMAIN points) BY DEF TypeOK
  <2>5. telemetry[g] \in Seq(DOMAIN points') BY <1>2, <2>4, SeqWiden
  <2> QED BY <2>3, <2>5, EndToEnd
<1> QED BY <1>1, <1>2, <1>4

\* The points in a range are finitely many, and those of an answer are they.
LEMMA AnswerIs ==
  ASSUME TypeOK, NEW g \in GPUs, NEW from, NEW to,
         NEW s \in Sorted(InRange(g, from, to))
  PROVE  /\ s \in Seq(DOMAIN points)
         /\ {s[n] : n \in DOMAIN s} = InRange(g, from, to)
<1> DEFINE T == InRange(g, from, to)
<1>1. T \subseteq DOMAIN points
  <2>1. telemetry[g] \in Seq(DOMAIN points) BY DEF TypeOK
  <2>2. \A n \in DOMAIN telemetry[g] : telemetry[g][n] \in DOMAIN points
    BY <2>1, EntryOf
  <2> QED BY <2>2 DEF InRange
<1>2. DOMAIN points = 1 .. Len(points) /\ Len(points) \in Nat BY DEF TypeOK
<1>3. IsFiniteSet(T)
  <2> HIDE DEF T
  <2>1. IsFiniteSet(1 .. Len(points)) BY <1>2, FS_Interval
  <2> QED BY <1>1, <1>2, <2>1, FS_Subset
<1>4. s \in [1 .. Cardinality(T) -> T] /\ \A i, j \in DOMAIN s : i < j => s[i] # s[j]
  BY DEF Sorted
<1> HIDE DEF T
<1>5. Cardinality(T) \in Nat BY <1>3, FS_CardinalityType
<1>6. s \in Seq(T) BY <1>4, <1>5, SeqDef
<1>7. s \in Seq(DOMAIN points) BY <1>1, <1>6, SeqWiden
<1>8. s \in Injection(1 .. Cardinality(T), T)
  <2>1. \A i, j \in 1 .. Cardinality(T) : s[i] = s[j] => i = j
    BY <1>4, <1>5
  <2> QED BY <1>4, <2>1 DEF Injection, IsInjective
<1>9. IsFiniteSet(1 .. Cardinality(T)) /\ Cardinality(1 .. Cardinality(T)) = Cardinality(T)
  BY <1>5, FS_Interval
<1>10. s \in Surjection(1 .. Cardinality(T), T) BY <1>3, <1>8, <1>9, FS_Injection
<1>11. \A t \in T : \E n \in 1 .. Cardinality(T) : s[n] = t
  BY <1>10 DEF Surjection
<1>12. DOMAIN s = 1 .. Cardinality(T) /\ \A n \in DOMAIN s : s[n] \in T BY <1>4
<1>13. {s[n] : n \in DOMAIN s} = T BY <1>11, <1>12
<1> QED BY <1>7, <1>13 DEF T

\* Every step keeps every variable in its type.
LEMMA TypeStep ==
  ASSUME Types, [Next]_vars
  PROVE  Types'
<1>1. CASE Tick
  <2>1. now' \in Times
    BY <1>1, QueryAssumption DEF Tick, Types, TypeOK, Times
  <2> QED BY <1>1, <2>1 DEF Tick, Types, TypeOK, Asked, storageVars, requestVars
<1>2. ASSUME NEW batch \in Batches, Store(batch) PROVE Types'
  <2>1. /\ points' \in Seq(Point) /\ DOMAIN points \subseteq DOMAIN points'
        /\ telemetry' \in [GPUs -> Seq(DOMAIN points')]
    BY <1>2, Stored DEF Types
  <2>2. answer' \in [Clients -> Seq(DOMAIN points')]
    <3>1. \A r \in Clients : answer[r] \in Seq(DOMAIN points')
      BY <2>1, SeqWiden DEF Types, TypeOK
    <3>2. answer \in [Clients -> Seq(DOMAIN points)] BY DEF Types, TypeOK
    <3> QED BY <1>2, <3>1, <3>2 DEF Store, requestVars
  <2>3. gpus' \in [GPUs -> Hosts \cup {NoHost}]
    <3>1. \A g \in GPUs : Mine(batch, g) # {} => batch[Newest(batch, g)].host \in Hosts
      <4> SUFFICES ASSUME NEW g \in GPUs, Mine(batch, g) # {}
                   PROVE  batch[Newest(batch, g)].host \in Hosts
        OBVIOUS
      <4>1. batch \in Seq(Point) /\ Newest(batch, g) \in DOMAIN batch
        BY BatchIs, ArrivalsOf DEF Types, TypeOK
      <4>2. batch[Newest(batch, g)] \in Point BY <4>1, EntryOf
      <4> QED BY <4>2 DEF Point
    <3> QED BY <1>2, <3>1 DEF Store, Types, TypeOK
  <2> QED
    BY <1>2, <2>1, <2>2, <2>3 DEF Store, Types, TypeOK, Asked, requestVars
<1>3. CASE Close
  <2>1. telemetry' \in [GPUs -> Seq(DOMAIN points')]
    <3>1. \A g \in GPUs : <<>> \in Seq(DOMAIN points') OBVIOUS
    <3> QED BY <1>3, <3>1 DEF Close
  <2> QED BY <1>3, <2>1 DEF Close, ClearedGPUs, Types, TypeOK, Asked
<1>4. ASSUME NEW r \in Clients, NEW g \in GPUs, Ask(r, g) PROVE Types'
  <2>1. PICK start \in Params, end \in Params :
          query' = [query EXCEPT ![r] = [gpu |-> g, start |-> start, end |-> end]]
    BY <1>4 DEF Ask
  <2>2. query' \in [Clients -> [gpu : GPUs \cup {NoGPU}, start : Params, end : Params]]
    BY <2>1 DEF Types, TypeOK
  <2>3. query'[r].gpu = g /\ \A c \in Clients : c # r => query'[c] = query[c]
    BY <2>1 DEF Types, TypeOK
  <2>4. answer' \in [Clients -> Seq(DOMAIN points)]
    <3>1. <<>> \in Seq(DOMAIN points) OBVIOUS
    <3> QED BY <1>4, <3>1 DEF Ask, Types, TypeOK
  <2>5. /\ reqPc' = [reqPc EXCEPT ![r] = "asked"] /\ code' = [code EXCEPT ![r] = 0]
        /\ UNCHANGED <<points, telemetry, gpus, now, listed, range, fresh>>
    BY <1>4 DEF Ask, storageVars
  <2>6. TypeOK' BY <2>2, <2>4, <2>5 DEF Types, TypeOK
  <2>7. Asked' BY <2>3, <2>5 DEF Types, TypeOK, Asked
  <2> QED BY <2>6, <2>7 DEF Types
<1>5. ASSUME NEW r \in Clients, Repeat(r) PROVE Types'
  BY <1>5 DEF Repeat, Types, TypeOK, Asked, storageVars
<1>6. ASSUME NEW r \in Clients, Parse(r) PROVE Types'
  <2>1. /\ reqPc[r] = "asked"
        /\ \/ /\ reqPc' = [reqPc EXCEPT ![r] = "answered"]
              /\ code' = [code EXCEPT ![r] = 400] /\ range' = range
           \/ /\ reqPc' = [reqPc EXCEPT ![r] = "parsed"]
              /\ range' = [range EXCEPT ![r] =
                             [from |-> From(query[r]), to |-> To(query[r])]]
              /\ code' = code
        /\ UNCHANGED <<points, telemetry, gpus, now, listed, query, answer, fresh>>
    BY <1>6 DEF Parse, storageVars
  <2>2. /\ reqPc' \in [Clients -> {"idle", "asked", "parsed", "answered"}]
        /\ code' \in [Clients -> {0, 200, 400}]
    <3>1. /\ reqPc \in [Clients -> {"idle", "asked", "parsed", "answered"}]
          /\ code \in [Clients -> {0, 200, 400}]
      BY DEF Types, TypeOK
    <3>2. code' \in [Clients -> {0, 200, 400}] BY <2>1, <3>1
    <3>3. reqPc' \in [Clients -> {"idle", "asked", "parsed", "answered"}]
      BY <2>1, <3>1
    <3> QED BY <3>2, <3>3
  <2>3. \A c \in Clients : reqPc'[c] # "idle" => reqPc[c] # "idle"
    BY <2>1 DEF Types, TypeOK
  <2>4. range' \in [Clients -> [from : Int, to : Int]]
    <3>1. query[r].start \in Params /\ query[r].end \in Params
      BY DEF Types, TypeOK
    <3>2. Params \subseteq Int
      BY QueryAssumption DEF Params, Times, Absent, Malformed
    <3>3. now \in Int /\ Hour \in Int
      <4>1. now \in Times BY DEF Types, TypeOK
      <4> QED BY <4>1, QueryAssumption DEF Times
    <3>4. From(query[r]) \in Int /\ To(query[r]) \in Int
      <4>1. now - Hour \in Int BY <3>3
      <4>2. query[r].start \in Int /\ query[r].end \in Int BY <3>1, <3>2
      <4>3. From(query[r]) \in Int BY <4>1, <4>2 DEF From
      <4>4. To(query[r]) \in Int BY <3>3, <4>2 DEF To
      <4> QED BY <4>3, <4>4
    <3>5. range \in [Clients -> [from : Int, to : Int]] BY DEF Types, TypeOK
    <3> QED BY <2>1, <3>4, <3>5
  <2>5. TypeOK' BY <2>1, <2>2, <2>4 DEF Types, TypeOK
  <2>6. Asked' BY <2>1, <2>3 DEF Types, Asked
  <2> QED BY <2>5, <2>6 DEF Types
<1>7. ASSUME NEW r \in Clients, Read(r) PROVE Types'
  <2>1. PICK s \in Sorted(InRange(query[r].gpu, range[r].from, range[r].to)) :
          answer' = [answer EXCEPT ![r] = s]
    BY <1>7 DEF Read
  <2>2. query[r].gpu \in GPUs BY <1>7 DEF Read, Types, Asked
  <2>3. s \in Seq(DOMAIN points) BY <2>2, AnswerIs DEF Types
  <2>4. answer' \in [Clients -> Seq(DOMAIN points)]
    BY <2>1, <2>3 DEF Types, TypeOK
  <2> QED BY <1>7, <2>2, <2>4 DEF Read, Types, TypeOK, Asked, storageVars
<1>8. CASE List
  BY <1>8 DEF List, Types, TypeOK, Asked, storageVars, requestVars
<1>9. CASE UNCHANGED vars
  BY <1>9 DEF vars, storageVars, requestVars, Types, TypeOK, Asked
<1> QED BY <1>1, <1>2, <1>3, <1>4, <1>5, <1>6, <1>7, <1>8, <1>9 DEF Next

\* To begin with too.
LEMMA TypesInit == Init => Types
<1> SUFFICES ASSUME Init PROVE Types OBVIOUS
<1>1. /\ points \in Seq(Point) /\ telemetry \in [GPUs -> Seq(DOMAIN points)]
      /\ answer \in [Clients -> Seq(DOMAIN points)]
  <2>1. \A S : <<>> \in Seq(S) OBVIOUS
  <2> QED BY <2>1 DEF Init
<1>2. now \in Times BY QueryAssumption DEF Init, Times
<1>3. NoQuery \in [gpu : GPUs \cup {NoGPU}, start : Params, end : Params]
  BY DEF NoQuery, Params
<1>4. query \in [Clients -> [gpu : GPUs \cup {NoGPU}, start : Params, end : Params]]
  BY <1>3 DEF Init
<1>5. range \in [Clients -> [from : Int, to : Int]] BY DEF Init
<1>6. TypeOK BY <1>1, <1>2, <1>4, <1>5 DEF Init, TypeOK
<1>7. Asked BY DEF Init, Asked
<1> QED BY <1>6, <1>7 DEF Types

\* The types hold at all times.
LEMMA TypesCorrect == Spec => []Types
BY TypesInit, TypeStep, PTL DEF Spec

\* The values the variables range over, for every gpu, clock and client.
THEOREM TypeCorrect == Spec => []TypeOK
<1>1. Types => TypeOK BY DEF Types
<1> QED BY <1>1, TypesCorrect, PTL

-----------------------------------------------------------------------------
(* The two maps. *)

\* A batch that has points of a gpu gives it a last point and its description at
\* once, and any other changes neither.
LEMMA MapsAfterStore ==
  ASSUME TypeOK, MapsAgree, NEW batch \in Batches, Store(batch)
  PROVE  MapsAgree'
<1>1. /\ \A p \in DOMAIN points : points'[p] = points[p]
      /\ \A n \in DOMAIN batch : points'[Len(points) + n] = batch[n]
      /\ telemetry' \in [GPUs -> Seq(DOMAIN points')]
      /\ \A g \in GPUs : telemetry'[g] = telemetry[g] \o Arrivals(batch, g)
  BY Stored
<1>2. gpus' = [g \in GPUs |-> IF Mine(batch, g) = {} THEN gpus[g]
                            ELSE batch[Newest(batch, g)].host]
  BY DEF Store
<1>3. points \in Seq(Point) BY DEF TypeOK
<1> SUFFICES ASSUME NEW g \in GPUs
             PROVE  gpus'[g] = IF telemetry'[g] = <<>> THEN NoHost
                               ELSE points'[telemetry'[g][Len(telemetry'[g])]].host
  BY DEF MapsAgree
<1>4. /\ telemetry[g] \in Seq(DOMAIN points)
      /\ Arrivals(batch, g) \in Seq(Len(points) + 1 .. Len(points) + Len(batch))
  BY <1>3, ArrivalsOf DEF TypeOK
<1> DEFINE t == telemetry[g]
           a == Arrivals(batch, g)
<1>5. CASE Mine(batch, g) = {}
  <2>1. a = <<>> BY <1>3, <1>5, ArrivalsOf
  <2>2. telemetry'[g] = t BY <1>1, <1>4, <2>1
  <2>3. t # <<>> => t[Len(t)] \in DOMAIN points BY <1>4
  <2>4. gpus[g] = IF t = <<>> THEN NoHost ELSE points[t[Len(t)]].host
    BY DEF MapsAgree
  <2> QED BY <1>1, <1>2, <1>5, <2>2, <2>3, <2>4
<1>6. CASE Mine(batch, g) # {}
  <2>1. /\ Newest(batch, g) \in DOMAIN batch
        /\ a # <<>> /\ a[Len(a)] = Len(points) + Newest(batch, g)
    BY <1>3, <1>6, ArrivalsOf
  <2> HIDE DEF t, a
  <2>2. t \o a # <<>> /\ (t \o a)[Len(t \o a)] = a[Len(a)]
    <3>1. t \in Seq(Nat) /\ a \in Seq(Nat)
      <4>1. DOMAIN points \subseteq Nat /\ Len(points) \in Nat BY <1>3
      <4>2. Len(points) + 1 .. Len(points) + Len(batch) \subseteq Nat BY <4>1, BatchIs
      <4> QED BY <1>4, <4>1, <4>2, SeqWiden DEF t, a
    <3> QED BY <2>1, <3>1, EndToEnd
  <2>3. telemetry'[g] = t \o a BY <1>1 DEF t, a
  <2>4. gpus'[g] = batch[Newest(batch, g)].host BY <1>2, <1>6
  <2>5. points'[telemetry'[g][Len(telemetry'[g])]] = batch[Newest(batch, g)]
    BY <1>1, <2>1, <2>2, <2>3
  <2> QED BY <2>2, <2>3, <2>4, <2>5
<1> QED BY <1>5, <1>6

\* A gpu is listed exactly when it has points, as its last point describes it.
THEOREM MapsCorrect == Spec => []MapsAgree
<1>1. Init => MapsAgree BY DEF Init, MapsAgree
<1>2. ASSUME Types, MapsAgree, [Next]_vars PROVE MapsAgree'
  <2>1. ASSUME NEW batch \in Batches, Store(batch) PROVE MapsAgree'
    BY <1>2, <2>1, MapsAfterStore DEF Types
  <2>2. CASE Close BY <2>2 DEF Close, ClearedGPUs, MapsAgree
  <2>3. CASE UNCHANGED storageVars BY <1>2, <2>3 DEF storageVars, MapsAgree
  <2> QED
    BY <1>2, <2>1, <2>2, <2>3
    DEF Next, Tick, List, Ask, Repeat, Parse, Read, vars
<1> QED BY <1>1, <1>2, TypesCorrect, PTL DEF Spec

-----------------------------------------------------------------------------
(* What was listed, and a repeated query. *)

\* A batch takes no number out of any list, and changes no point.
LEMMA StoreKeeps ==
  ASSUME TypeOK, NEW batch \in Batches, Store(batch), NEW g \in GPUs
  PROVE  /\ ListedIn(telemetry[g]) \subseteq ListedIn(telemetry'[g])
         /\ \A p \in ListedIn(telemetry[g]) : points'[p] = points[p]
         /\ telemetry[g] # <<>> => telemetry'[g] # <<>>
<1>1. /\ \A p \in DOMAIN points : points'[p] = points[p]
      /\ telemetry'[g] = telemetry[g] \o Arrivals(batch, g)
  BY Stored
<1>2. /\ points \in Seq(Point) /\ telemetry[g] \in Seq(DOMAIN points)
      /\ Arrivals(batch, g) \in Seq(Len(points) + 1 .. Len(points) + Len(batch))
  BY ArrivalsOf DEF TypeOK
<1> DEFINE t == telemetry[g]
           a == Arrivals(batch, g)
<1>3. t \in Seq(Nat) /\ a \in Seq(Nat)
  <2>1. DOMAIN points \subseteq Nat /\ Len(points) \in Nat BY <1>2
  <2>2. Len(points) + 1 .. Len(points) + Len(batch) \subseteq Nat BY <2>1, BatchIs
  <2> QED BY <1>2, <2>1, <2>2, SeqWiden
<1>4. \A n \in DOMAIN t : t[n] \in DOMAIN points BY <1>2, EntryOf
<1> HIDE DEF t, a
<1>5. /\ DOMAIN t \subseteq DOMAIN (t \o a)
      /\ \A n \in DOMAIN t : (t \o a)[n] = t[n]
      /\ t # <<>> => t \o a # <<>>
  <2>1. t # <<>> => t \o a # <<>> BY <1>3
  <2> QED BY <1>3, <2>1, EndToEnd
<1>6. ListedIn(t) \subseteq ListedIn(t \o a) BY <1>5 DEF ListedIn
<1>7. \A p \in ListedIn(t) : points'[p] = points[p] BY <1>1, <1>4 DEF ListedIn
<1> QED BY <1>1, <1>5, <1>6, <1>7 DEF t, a

\* An answer is all there is in the range of the query.
LEMMA ReadShows ==
  ASSUME Types, NEW r \in Clients, Read(r)
  PROVE  \A p : p \in ListedIn(answer'[r]) <=>
           /\ p \in ListedIn(telemetry[query[r].gpu])
           /\ points[p].time >= range[r].from /\ points[p].time <= range[r].to
<1> DEFINE g == query[r].gpu
           T == InRange(g, range[r].from, range[r].to)
<1>1. PICK s \in Sorted(T) : answer' = [answer EXCEPT ![r] = s] BY DEF Read
<1>2. answer'[r] = s BY <1>1 DEF Types, TypeOK
<1>3. g \in GPUs BY DEF Read, Types, Asked
<1>4. {s[n] : n \in DOMAIN s} = T BY <1>3, AnswerIs DEF Types
<1>5. ListedIn(answer'[r]) = T BY <1>2, <1>4 DEF ListedIn
<1> QED BY <1>5 DEF InRange, ListedIn

\* The times of a query, of a range and of the clock are numbers.
LEMMA Numbers ==
  ASSUME Types, NEW r \in Clients
  PROVE  /\ now \in Int /\ Hour \in Int /\ now >= 0 /\ now <= MaxTime
         /\ query[r].start \in Int /\ query[r].end \in Int
         /\ range[r].from \in Int /\ range[r].to \in Int
<1>1. now \in Times BY DEF Types, TypeOK
<1>2. query[r].start \in Params /\ query[r].end \in Params BY DEF Types, TypeOK
<1>3. Params \subseteq Int
  BY QueryAssumption DEF Params, Times, Absent, Malformed
<1>4. range[r] \in [from : Int, to : Int] BY DEF Types, TypeOK
<1>5. query[r].start \in Int /\ query[r].end \in Int BY <1>2, <1>3
<1>6. now \in Int /\ Hour \in Int /\ now >= 0 /\ now <= MaxTime
  BY <1>1, QueryAssumption DEF Times
<1>7. range[r].from \in Int /\ range[r].to \in Int BY <1>4
<1> QED BY <1>5, <1>6, <1>7

\* The numbers in the list of a gpu are those of points, whose times are numbers,
\* none after the last.
LEMMA ListedTimes ==
  ASSUME Types, NEW g \in GPUs, NEW p \in ListedIn(telemetry[g])
  PROVE  /\ p \in DOMAIN points /\ points[p].time \in Int
         /\ points[p].time >= 0 /\ points[p].time <= MaxTime
<1>1. telemetry[g] \in Seq(DOMAIN points) /\ points \in Seq(Point)
  BY DEF Types, TypeOK
<1>2. p \in DOMAIN points
  <2>1. PICK n \in DOMAIN telemetry[g] : p = telemetry[g][n] BY DEF ListedIn
  <2> QED BY <1>1, <2>1, EntryOf
<1>3. points[p] \in Point BY <1>1, <1>2, EntryOf
<1> QED BY <1>2, <1>3, QueryAssumption DEF Point, Times

\* The range of a query is set by Parse and stays while the clock goes on.
LEMMA RangeStep ==
  ASSUME Types, RangeInv, [Next]_vars
  PROVE  RangeInv'
<1>1. ASSUME UNCHANGED <<now, reqPc, query, range>> PROVE RangeInv'
  BY <1>1 DEF RangeInv
<1>2. CASE Tick
  <2> SUFFICES ASSUME NEW r \in Clients, reqPc[r] = "parsed"
               PROVE  /\ range[r].from <= now - Hour => range[r].from <= now' - Hour
                      /\ range[r].to <= now => range[r].to <= now'
    BY <1>2 DEF Tick, requestVars, RangeInv
  <2> QED BY <1>2, Numbers DEF Tick
<1>3. ASSUME NEW r \in Clients, NEW g \in GPUs, Ask(r, g) PROVE RangeInv'
  <2>1. /\ reqPc'[r] # "parsed"
        /\ \A c \in Clients : c # r => reqPc'[c] = reqPc[c] /\ query'[c] = query[c]
        /\ UNCHANGED <<now, range>>
    BY <1>3 DEF Ask, Types, TypeOK
  <2> QED BY <2>1 DEF RangeInv
<1>4. ASSUME NEW r \in Clients, Repeat(r) PROVE RangeInv'
  <2>1. /\ reqPc'[r] # "parsed"
        /\ \A c \in Clients : c # r => reqPc'[c] = reqPc[c]
        /\ UNCHANGED <<now, query, range>>
    BY <1>4 DEF Repeat, Types, TypeOK
  <2> QED BY <2>1 DEF RangeInv
<1>5. ASSUME NEW r \in Clients, Parse(r) PROVE RangeInv'
  <2>1. \/ reqPc'[r] # "parsed"
        \/ range'[r] = [from |-> From(query[r]), to |-> To(query[r])]
    BY <1>5 DEF Parse, Types, TypeOK
  <2>2. /\ \A c \in Clients : c # r => reqPc'[c] = reqPc[c] /\ range'[c] = range[c]
        /\ UNCHANGED <<now, query>>
    BY <1>5 DEF Parse, Types, TypeOK
  <2>3. now - Hour <= now - Hour /\ now <= now BY Numbers
  <2>4. reqPc'[r] = "parsed" =>
          range'[r].from = From(query[r]) /\ range'[r].to = To(query[r])
    BY <2>1
  <2>5. reqPc'[r] = "parsed" =>
          /\ IF query[r].start = Absent THEN range'[r].from <= now - Hour
                                        ELSE range'[r].from = query[r].start
          /\ IF query[r].end = Absent THEN range'[r].to <= now
                                      ELSE range'[r].to = query[r].end
    BY <2>3, <2>4 DEF From, To
  <2> QED BY <2>2, <2>5 DEF RangeInv
<1>6. ASSUME NEW r \in Clients, Read(r) PROVE RangeInv'
  <2>1. /\ reqPc'[r] # "parsed"
        /\ \A c \in Clients : c # r => reqPc'[c] = reqPc[c]
        /\ UNCHANGED <<now, query, range>>
    BY <1>6 DEF Read, Types, TypeOK
  <2> QED BY <2>1 DEF RangeInv
<1> QED
  BY <1>1, <1>2, <1>3, <1>4, <1>5, <1>6
  DEF Next, Store, Close, List, requestVars, vars

\* What was shown is found again after any step but Close, which makes it count
\* no more.
LEMMA AnswerStep ==
  ASSUME Types, RangeInv, AnswerInv, [Next]_vars
  PROVE  AnswerInv'
<1>1. ASSUME UNCHANGED <<points, telemetry, now, requestVars>> PROVE AnswerInv'
  BY <1>1 DEF requestVars, AnswerInv, Latest
<1>2. CASE Tick
  <2>1. UNCHANGED <<points, telemetry, requestVars>>
    BY <1>2 DEF Tick, storageVars
  <2> SUFFICES ASSUME NEW r \in Clients, fresh[r], NEW p \in ListedIn(answer[r])
               PROVE  points[p].time <= Latest(r)'
    BY <2>1 DEF requestVars, AnswerInv
  <2>2. /\ points[p].time <= Latest(r) /\ points[p].time \in Int
        /\ now \in Int /\ now' = now + 1
    BY <1>2, Numbers, ListedTimes DEF AnswerInv, Types, Asked, Tick
  <2>3. CASE Latest(r)' = Latest(r) BY <2>2, <2>3
  <2>4. CASE Latest(r) = now /\ Latest(r)' = now' BY <2>2, <2>4
  <2> QED BY <2>1, <2>3, <2>4 DEF Latest, requestVars
<1>3. ASSUME NEW batch \in Batches, Store(batch) PROVE AnswerInv'
  <2>1. UNCHANGED <<now, requestVars>> BY <1>3 DEF Store
  <2>2. \A r \in Clients : Latest(r)' = Latest(r) BY <2>1 DEF Latest, requestVars
  <2>3. ASSUME NEW g \in GPUs
        PROVE  /\ ListedIn(telemetry[g]) \subseteq ListedIn(telemetry'[g])
               /\ \A p \in ListedIn(telemetry[g]) : points'[p] = points[p]
    BY <1>3, StoreKeeps DEF Types
  <2>4. \A r \in Clients : fresh[r] => query[r].gpu \in GPUs BY DEF Types, Asked
  <2> QED BY <2>1, <2>2, <2>3, <2>4 DEF AnswerInv, requestVars
<1>4. CASE Close BY <1>4 DEF Close, AnswerInv
<1>5. ASSUME NEW r \in Clients, NEW g \in GPUs, Ask(r, g) PROVE AnswerInv'
  <2>1. /\ answer'[r] = <<>>
        /\ \A c \in Clients : c # r => /\ reqPc'[c] = reqPc[c]
                                       /\ query'[c] = query[c]
                                       /\ answer'[c] = answer[c]
        /\ UNCHANGED <<points, telemetry, now, range, fresh>>
    BY <1>5 DEF Ask, storageVars, Types, TypeOK
  <2>2. \A c \in Clients : c # r => Latest(c)' = Latest(c) BY <2>1 DEF Latest
  <2>3. ListedIn(<<>>) = {} BY DEF ListedIn
  <2> QED BY <2>1, <2>2, <2>3 DEF AnswerInv
<1>6. ASSUME NEW r \in Clients, Repeat(r) PROVE AnswerInv'
  <2>1. /\ reqPc[r] # "parsed" /\ reqPc'[r] # "parsed"
        /\ \A c \in Clients : c # r => reqPc'[c] = reqPc[c]
        /\ UNCHANGED <<points, telemetry, now, query, range, answer, fresh>>
    BY <1>6 DEF Repeat, storageVars, Types, TypeOK
  <2>2. \A c \in Clients : Latest(c)' = Latest(c) BY <2>1 DEF Latest
  <2> QED BY <2>1, <2>2 DEF AnswerInv
<1>7. ASSUME NEW r \in Clients, Parse(r) PROVE AnswerInv'
  <2>1. /\ UNCHANGED <<points, telemetry, now, query, answer, fresh>>
        /\ \A c \in Clients : c # r => reqPc'[c] = reqPc[c] /\ range'[c] = range[c]
        /\ reqPc[r] # "parsed"
        /\ \/ reqPc'[r] # "parsed"
           \/ range'[r] = [from |-> From(query[r]), to |-> To(query[r])]
    BY <1>7 DEF Parse, storageVars, Types, TypeOK
  <2>2. ASSUME NEW c \in Clients PROVE Latest(c)' = Latest(c)
    <3>1. CASE c # r BY <2>1, <3>1 DEF Latest
    <3>2. CASE c = r BY <2>1, <3>2 DEF Latest, To
    <3> QED BY <3>1, <3>2
  <2> QED BY <2>1, <2>2 DEF AnswerInv
<1>8. ASSUME NEW r \in Clients, Read(r) PROVE AnswerInv'
  <2>1. /\ reqPc[r] = "parsed" /\ reqPc'[r] # "parsed"
        /\ \A c \in Clients : c # r => /\ reqPc'[c] = reqPc[c]
                                       /\ answer'[c] = answer[c]
                                       /\ fresh'[c] = fresh[c]
        /\ UNCHANGED <<points, telemetry, now, query, range>>
    BY <1>8 DEF Read, storageVars, Types, TypeOK
  <2>2. \A c \in Clients : c # r => Latest(c)' = Latest(c) BY <2>1 DEF Latest
  <2>3. ASSUME NEW p \in ListedIn(answer'[r])
        PROVE  /\ p \in ListedIn(telemetry[query[r].gpu])
               /\ query[r].start # Absent => points[p].time >= query[r].start
               /\ points[p].time <= Latest(r)'
    <3>1. /\ p \in ListedIn(telemetry[query[r].gpu])
          /\ points[p].time >= range[r].from /\ points[p].time <= range[r].to
      BY <1>8, ReadShows
    <3>2. query[r].gpu \in GPUs BY <2>1 DEF Types, Asked
    <3>3. points[p].time \in Int BY <3>1, <3>2, ListedTimes
    <3>4. query[r].start # Absent => range[r].from = query[r].start
      BY <2>1 DEF RangeInv
    <3>5. range[r].to <= Latest(r)'
      <4>1. CASE query[r].end # Absent
        <5>1. Latest(r)' = range[r].to BY <2>1, <4>1 DEF Latest, RangeInv
        <5> QED BY <5>1, Numbers
      <4>2. CASE query[r].end = Absent
        BY <2>1, <4>2 DEF Latest, RangeInv
      <4> QED BY <4>1, <4>2
    <3>6. Latest(r)' \in Int BY <2>1, Numbers DEF Latest
    <3>7. points[p].time <= Latest(r)' BY <3>1, <3>3, <3>5, <3>6, Numbers
    <3> QED BY <3>1, <3>4, <3>7
  <2> QED BY <2>1, <2>2, <2>3 DEF AnswerInv
<1> QED
  BY <1>1, <1>2, <1>3, <1>4, <1>5, <1>6, <1>7, <1>8
  DEF Next, List, vars, storageVars, requestVars

\* Only a request that reads the storage goes from parsed to answered.
LEMMA OnlyReadAnswers ==
  ASSUME Types, Next, NEW r \in Clients, reqPc[r] = "parsed", reqPc'[r] = "answered"
  PROVE  Read(r)
<1>1. reqPc \in [Clients -> {"idle", "asked", "parsed", "answered"}]
  BY DEF Types, TypeOK
<1>2. CASE UNCHANGED reqPc BY <1>2
<1>3. ASSUME NEW c \in Clients, NEW g \in GPUs, Ask(c, g) PROVE Read(r)
  BY <1>1, <1>3 DEF Ask
<1>4. ASSUME NEW c \in Clients, Repeat(c) PROVE Read(r)
  BY <1>1, <1>4 DEF Repeat
<1>5. ASSUME NEW c \in Clients, Parse(c) PROVE Read(r)
  BY <1>1, <1>5 DEF Parse
<1>6. ASSUME NEW c \in Clients, Read(c) PROVE Read(r)
  <2>1. reqPc' = [reqPc EXCEPT ![c] = "answered"] BY <1>6 DEF Read
  <2>2. c = r BY <1>1, <2>1
  <2> QED BY <1>6, <2>2
<1> QED
  BY <1>2, <1>3, <1>4, <1>5, <1>6 DEF Next, Tick, Store, Close, List, requestVars

\* Who asks the same again is shown everything that the last answer showed, but
\* what has left the last hour when that is what was asked for.
THEOREM RepeatShows == Spec => RepeatShowsAll
<1>1. Init => RangeInv /\ AnswerInv BY DEF Init, RangeInv, AnswerInv
<1>2. ASSUME Types, RangeInv, AnswerInv, [Next]_vars
      PROVE  [\A r \in Clients :
                /\ reqPc[r] = "parsed" /\ reqPc'[r] = "answered"
                /\ fresh[r]
                => StillAsked(r) \subseteq Shown(r)']_vars
  <2> SUFFICES ASSUME Next, NEW r \in Clients,
                      reqPc[r] = "parsed", reqPc'[r] = "answered", fresh[r],
                      NEW p \in StillAsked(r)
               PROVE  p \in Shown(r)'
    BY <1>2
  <2>1. Read(r) BY <1>2, OnlyReadAnswers
  <2>2. /\ p \in ListedIn(answer[r])
        /\ query[r].start = Absent => points[p].time >= now - Hour
    BY DEF StillAsked, Shown, ListedIn
  <2>3. /\ p \in ListedIn(telemetry[query[r].gpu])
        /\ query[r].start # Absent => points[p].time >= query[r].start
        /\ points[p].time <= Latest(r)
    BY <1>2, <2>2 DEF AnswerInv
  <2>4. query[r].gpu \in GPUs /\ points[p].time \in Int
    BY <1>2, <2>3, ListedTimes DEF Types, Asked
  <2>5. points[p].time >= range[r].from
    <3>1. CASE query[r].start # Absent BY <1>2, <2>3, <3>1 DEF RangeInv
    <3>2. CASE query[r].start = Absent
      <4>1. range[r].from <= now - Hour BY <1>2, <3>2 DEF RangeInv
      <4> QED BY <1>2, <2>2, <2>4, <3>2, <4>1, Numbers
    <3> QED BY <3>1, <3>2
  <2>6. points[p].time <= range[r].to BY <1>2, <2>3 DEF Latest, RangeInv
  <2>7. p \in ListedIn(answer'[r]) BY <1>2, <2>1, <2>3, <2>5, <2>6, ReadShows
  <2> QED BY <2>7 DEF Shown, ListedIn
<1> QED
  BY <1>1, <1>2, RangeStep, AnswerStep, TypesCorrect, PTL DEF Spec, RepeatShowsAll

\* A query of a listed gpu that spans all times is answered with something.
THEOREM ListedHasPoints == Spec => ListedIsAnswered
<1>1. Init => RangeInv /\ ListInv BY DEF Init, RangeInv, ListInv
<1>2. ASSUME Types, MapsAgree, ListInv, [Next]_vars PROVE ListInv'
  <2>1. ASSUME NEW batch \in Batches, Store(batch) PROVE ListInv'
    <3>1. listed' = listed /\ listed \subseteq GPUs
      BY <1>2, <2>1 DEF Store, Types, TypeOK
    <3>2. \A g \in GPUs : telemetry[g] # <<>> => telemetry'[g] # <<>>
      BY <1>2, <2>1, StoreKeeps DEF Types
    <3> QED BY <1>2, <3>1, <3>2 DEF ListInv
  <2>2. CASE Close BY <2>2 DEF Close, ListInv
  <2>3. CASE List BY <1>2, <2>3 DEF List, storageVars, ListInv, MapsAgree
  <2>4. CASE UNCHANGED <<telemetry, listed>> BY <1>2, <2>4 DEF ListInv
  <2> QED
    BY <1>2, <2>1, <2>2, <2>3, <2>4
    DEF Next, Tick, Ask, Repeat, Parse, Read, vars, storageVars
<1>3. ASSUME Types, RangeInv, ListInv, [Next]_vars
      PROVE  [\A r \in Clients :
                /\ reqPc[r] = "parsed" /\ reqPc'[r] = "answered"
                /\ query[r].gpu \in listed
                /\ query[r].start = 0 /\ query[r].end = MaxTime
                => answer'[r] # <<>>]_vars
  <2> SUFFICES ASSUME Next, NEW r \in Clients,
                      reqPc[r] = "parsed", reqPc'[r] = "answered",
                      query[r].gpu \in listed,
                      query[r].start = 0, query[r].end = MaxTime
               PROVE  answer'[r] # <<>>
    BY <1>3
  <2> DEFINE g == query[r].gpu
             p == telemetry[g][1]
  <2>1. Read(r) BY <1>3, OnlyReadAnswers
  <2>2. g \in GPUs /\ telemetry[g] # <<>> BY <1>3 DEF ListInv, Types, TypeOK
  <2>3. p \in ListedIn(telemetry[g])
    <3>1. telemetry[g] \in Seq(DOMAIN points) BY <1>3, <2>2 DEF Types, TypeOK
    <3>2. 1 \in DOMAIN telemetry[g] BY <2>2, <3>1
    <3> QED BY <3>2 DEF ListedIn
  <2>4. points[p].time >= 0 /\ points[p].time <= MaxTime
    BY <1>3, <2>2, <2>3, ListedTimes
  <2>5. range[r].from = 0 /\ range[r].to = MaxTime
    BY <1>3, QueryAssumption DEF RangeInv, Absent
  <2>6. p \in ListedIn(answer'[r]) BY <1>3, <2>1, <2>3, <2>4, <2>5, ReadShows
  <2> QED BY <2>6 DEF ListedIn
<1> QED
  BY <1>1, <1>2, <1>3, RangeStep, TypesCorrect, MapsCorrect, PTL
  DEF Spec, ListedIsAnswered

=============================================================================
