------------------------------ MODULE QueryAPI ------------------------------
(***************************************************************************)
(* What the sink keeps and answers from: MemoryStorage                     *)
(* (internal/telemetry/memory_storage.go) and the two query handlers of    *)
(* the REST API (internal/api/handlers.go) over it.                        *)
(*                                                                         *)
(* The collector stores batches while handlers run.  The handler of a      *)
(* gpu's telemetry first turns its parameters into a time range, by the    *)
(* clock if one is absent, and then reads the storage under its lock: two  *)
(* steps, with batches between.  The one that lists the gpus only reads.   *)
(***************************************************************************)
EXTENDS Integers, Sequences, FiniteSets

CONSTANTS
  GPUs,      \* uuids
  NoGPU,     \* the gpu of a request that was never made
  Hosts,     \* what the gpus map keeps of a point: index, device and hostname
  NoHost,    \* "no entry" in the gpus map
  MaxTime,   \* bound: the clock
  Hour,      \* the default window, in ticks of the clock
  MaxPoints, \* bound: points stored in a behaviour
  Clients    \* requests at a time

ASSUME QueryAssumption ==
  /\ NoGPU \notin GPUs
  /\ NoHost \notin Hosts
  /\ MaxTime \in Nat
  /\ Hour \in Nat
  /\ MaxPoints \in Nat

Times == 0 .. MaxTime
Point == [gpu : GPUs, host : Hosts, time : Times]

\* A time parameter: not in the query string, not in RFC3339, or a time.
Absent == -1
Malformed == -2
Params == Times \cup {Absent, Malformed}

VARIABLES
  points,    \* every point ever stored, in order of arrival
  telemetry, \* gpu -> arrival numbers, in that order
  gpus,      \* gpu -> what its last point said of it
  now,       \* the clock of the sink
  listed,    \* history: gpus in a list since the storage was last closed
  reqPc,     \* of a request: "idle", "asked", "parsed", "answered"
  query,     \* its gpu and the parameters that count
  range,     \* from and to
  code,      \* HTTP status of the answer, 0 before
  answer,    \* arrival numbers of the points in the last answer to this query
  fresh      \* history: whether the storage was not closed since then

storageVars == <<points, telemetry, gpus>>
requestVars == <<reqPc, query, range, code, answer, fresh>>
vars == <<storageVars, now, listed, requestVars>>

NoQuery == [gpu |-> NoGPU, start |-> Absent, end |-> Absent]

Init ==
  /\ points = <<>>
  /\ telemetry = [g \in GPUs |-> <<>>]
  /\ gpus = [g \in GPUs |-> NoHost]
  /\ now = 0
  /\ listed = {}
  /\ reqPc = [r \in Clients |-> "idle"]
  /\ query = [r \in Clients |-> NoQuery]
  /\ range = [r \in Clients |-> [from |-> 0, to |-> 0]]
  /\ code = [r \in Clients |-> 0]
  /\ answer = [r \in Clients |-> <<>>]
  /\ fresh = [r \in Clients |-> FALSE]

Tick ==
  /\ now < MaxTime
  /\ now' = now + 1
  /\ UNCHANGED <<storageVars, listed, requestVars>>

-----------------------------------------------------------------------------
(* MemoryStorage. *)

Mine(batch, g) == {n \in DOMAIN batch : batch[n].gpu = g}
Newest(batch, g) == CHOOSE n \in Mine(batch, g) : \A m \in Mine(batch, g) : m <= n

\* The members of a set of numbers, from the least on.
InTurn(set) ==
  CHOOSE s \in [1 .. Cardinality(set) -> set] :
    \A i, j \in DOMAIN s : i < j => s[i] < s[j]

\* Faulty variant: arrivals are counted from the point after.
ArrivalsLate(batch, g) == InTurn({Len(points) + n + 1 : n \in Mine(batch, g)})

\* The arrival numbers of the points of a batch that belong to g.
Arrivals(batch, g) == InTurn({Len(points) + n : n \in Mine(batch, g)})

\* Faulty variant: a batch takes the place of what its gpu had.
Replace(g, new) == IF new = <<>> THEN telemetry[g] ELSE new

Extend(g, new) == telemetry[g] \o new

\* The timestamp of a point is the streamer's, whose clock is not the sink's.
Store(batch) ==
  /\ Len(points) + Len(batch) <= MaxPoints
  /\ points' = points \o batch
  /\ telemetry' = [g \in GPUs |-> Extend(g, Arrivals(batch, g))]
  /\ gpus' = [g \in GPUs |-> IF Mine(batch, g) = {} THEN gpus[g]
                           ELSE batch[Newest(batch, g)].host]
  /\ UNCHANGED <<now, listed, requestVars>>

\* Faulty variant: Close forgets the gpus map.
ClearedTelemetryOnly == gpus

ClearedGPUs == [g \in GPUs |-> NoHost]

Close ==
  /\ telemetry' = [g \in GPUs |-> <<>>]
  /\ gpus' = ClearedGPUs
  /\ listed' = {}
  /\ fresh' = [r \in Clients |-> FALSE]
  /\ UNCHANGED <<points, now, reqPc, query, range, code, answer>>

InRange(g, from, to) ==
  {p \in {telemetry[g][n] : n \in DOMAIN telemetry[g]} :
     points[p].time >= from /\ points[p].time <= to}

\* sort.Slice is not stable: points of one time come in any order.
Sorted(set) ==
  {s \in [1 .. Cardinality(set) -> set] :
     \A i, j \in DOMAIN s :
       i < j => s[i] # s[j] /\ points[s[i]].time <= points[s[j]].time}

-----------------------------------------------------------------------------
(* The handlers. *)

\* listGPUs: some client is shown every gpu of the map.
List ==
  /\ listed' = listed \cup {g \in GPUs : gpus[g] # NoHost}
  /\ UNCHANGED <<storageVars, now, requestVars>>

\* A client asks something new.  start is the parameter start_time or, when it
\* is empty, the older name; so is end.
Ask(r, g) ==
  /\ reqPc[r] \in {"idle", "answered"}
  /\ \E start, end \in Params :
       query' = [query EXCEPT ![r] = [gpu |-> g, start |-> start, end |-> end]]
  /\ reqPc' = [reqPc EXCEPT ![r] = "asked"]
  /\ code' = [code EXCEPT ![r] = 0]
  /\ answer' = [answer EXCEPT ![r] = <<>>]
  /\ UNCHANGED <<storageVars, now, listed, range, fresh>>

\* A client asks the same again.
Repeat(r) ==
  /\ reqPc[r] = "answered"
  /\ reqPc' = [reqPc EXCEPT ![r] = "asked"]
  /\ UNCHANGED <<storageVars, now, listed, query, range, code, answer, fresh>>

\* Faulty variant: the default range begins where it ends.
FromNow(q) == IF q.start = Absent THEN now ELSE q.start

From(q) == IF q.start = Absent THEN now - Hour ELSE q.start
To(q) == IF q.end = Absent THEN now ELSE q.end

Refused(q) ==
  \/ q.start = Malformed
  \/ q.end = Malformed
  \/ To(q) < From(q)

\* parseTimeRange.
Parse(r) ==
  /\ reqPc[r] = "asked"
  /\ \/ /\ Refused(query[r])
        /\ reqPc' = [reqPc EXCEPT ![r] = "answered"]
        /\ code' = [code EXCEPT ![r] = 400]
        /\ UNCHANGED range
     \/ /\ ~Refused(query[r])
        /\ reqPc' = [reqPc EXCEPT ![r] = "parsed"]
        /\ range' = [range EXCEPT ![r] =
                       [from |-> From(query[r]), to |-> To(query[r])]]
        /\ UNCHANGED code
  /\ UNCHANGED <<storageVars, now, listed, query, answer, fresh>>

\* GetGPUTelemetry; a gpu that is not known has no points.
Read(r) ==
  /\ reqPc[r] = "parsed"
  /\ \E s \in Sorted(InRange(query[r].gpu, range[r].from, range[r].to)) :
       answer' = [answer EXCEPT ![r] = s]
  /\ reqPc' = [reqPc EXCEPT ![r] = "answered"]
  /\ code' = [code EXCEPT ![r] = 200]
  /\ fresh' = [fresh EXCEPT ![r] = TRUE]
  /\ UNCHANGED <<storageVars, now, listed, query, range>>

-----------------------------------------------------------------------------

Batches == UNION {[1 .. n -> Point] : n \in 1 .. MaxPoints}

Next ==
  \/ Tick
  \/ \E batch \in Batches : Store(batch)
  \/ Close
  \/ List
  \/ \E r \in Clients :
       (\E g \in GPUs : Ask(r, g)) \/ Repeat(r) \/ Parse(r) \/ Read(r)

Spec == Init /\ [][Next]_vars

-----------------------------------------------------------------------------
(* Properties. *)

\* The values the variables range over.
TypeOK ==
  /\ points \in Seq(Point)
  /\ telemetry \in [GPUs -> Seq(DOMAIN points)]
  /\ gpus \in [GPUs -> Hosts \cup {NoHost}]
  /\ now \in Times
  /\ listed \in SUBSET GPUs
  /\ reqPc \in [Clients -> {"idle", "asked", "parsed", "answered"}]
  /\ query \in [Clients -> [gpu : GPUs \cup {NoGPU}, start : Params,
                         end : Params]]
  /\ range \in [Clients -> [from : Int, to : Int]]
  /\ code \in [Clients -> {0, 200, 400}]
  /\ answer \in [Clients -> Seq(DOMAIN points)]
  /\ fresh \in [Clients -> BOOLEAN]

\* The two maps of the storage speak of the same gpus, whatever batches came and
\* whenever the storage was closed: a gpu is listed exactly when it has points,
\* as its last point describes it.
MapsAgree ==
  \A g \in GPUs :
    gpus[g] = IF telemetry[g] = <<>> THEN NoHost
              ELSE points[telemetry[g][Len(telemetry[g])]].host

\* A gpu that a list has shown has points to show: until the storage is closed,
\* a query of it that spans all times is never answered with nothing.
ListedIsAnswered ==
  [][\A r \in Clients :
       /\ reqPc[r] = "parsed" /\ reqPc'[r] = "answered"
       /\ query[r].gpu \in listed
       /\ query[r].start = 0 /\ query[r].end = MaxTime
       => answer'[r] # <<>>]_vars

Shown(r) == {answer[r][n] : n \in DOMAIN answer[r]}

\* The points that the start of a query, or the last hour, does not leave out.
StillAsked(r) ==
  {p \in Shown(r) : query[r].start = Absent => points[p].time >= now - Hour}

\* Who asks the same again is shown, unless the storage was closed in between,
\* everything that the last answer showed but what has left the last hour when
\* that is what was asked for: whatever the clock and the batches did between the
\* times that a query is parsed and the storage read.
RepeatShowsAll ==
  [][\A r \in Clients :
       /\ reqPc[r] = "parsed" /\ reqPc'[r] = "answered"
       /\ fresh[r]
       => StillAsked(r) \subseteq Shown(r)']_vars

=============================================================================
