----------------------------- MODULE Broadcast -----------------------------
(***************************************************************************)
(* What the queue promises a subscriber, with everything about buffers,    *)
(* locks, goroutines and maps left out.                                    *)
(*                                                                         *)
(* There is one log of published messages.  A subscription joins at the    *)
(* end of the log and is shown messages of its own topic in log order,     *)
(* each at most once and each published between its joining and its        *)
(* leaving.  It may be shown only some of them: the queue is lossy.  What  *)
(* it still holds when it leaves may be shown to it afterwards.            *)
(***************************************************************************)
EXTENDS Naturals, Sequences

CONSTANTS
  Topics,   \* the topics messages are published on
  Subs,     \* the subscriptions that may be made
  Message,  \* the messages, records with at least a field "topic"
  NoTopic   \* the topic of a subscription that has not joined

VARIABLES
  log,      \* every message published, oldest first
  status,   \* "idle" before a subscription joins, then "live", then "gone"
  topicOf,  \* the topic a subscription joined
  from,     \* end of the log when a subscription joined
  shown,    \* log positions of the messages shown to a subscription
  limit     \* end of the log when a subscription left

vars == <<log, status, topicOf, from, shown, limit>>

Init ==
  /\ log = <<>>
  /\ status = [s \in Subs |-> "idle"]
  /\ topicOf = [s \in Subs |-> NoTopic]
  /\ from = [s \in Subs |-> 0]
  /\ shown = [s \in Subs |-> <<>>]
  /\ limit = [s \in Subs |-> 0]

Publish(m) ==
  /\ log' = Append(log, m)
  /\ UNCHANGED <<status, topicOf, from, shown, limit>>

Join(s, t) ==
  /\ status[s] = "idle"
  /\ status' = [status EXCEPT ![s] = "live"]
  /\ topicOf' = [topicOf EXCEPT ![s] = t]
  /\ from' = [from EXCEPT ![s] = Len(log)]
  /\ UNCHANGED <<log, shown, limit>>

\* The log position a subscription has come to.
Last(s) == IF shown[s] = <<>> THEN from[s] ELSE shown[s][Len(shown[s])]

\* The last log position a subscription may still be shown.
Horizon(s) == IF status[s] = "live" THEN Len(log) ELSE limit[s]

Show(s) ==
  /\ status[s] # "idle"
  /\ \E i \in (Last(s) + 1) .. Horizon(s) :
       /\ log[i].topic = topicOf[s]
       /\ shown' = [shown EXCEPT ![s] = Append(@, i)]
  /\ UNCHANGED <<log, status, topicOf, from, limit>>

\* Subscriptions leave one by one, or all at once when the queue is closed.
Leave(gone) ==
  /\ gone # {}
  /\ \A s \in gone : status[s] = "live"
  /\ status' = [s \in Subs |-> IF s \in gone THEN "gone" ELSE status[s]]
  /\ limit' = [s \in Subs |-> IF s \in gone THEN Len(log) ELSE limit[s]]
  /\ UNCHANGED <<log, topicOf, from, shown>>

Next ==
  \/ \E m \in Message : Publish(m)
  \/ \E s \in Subs, t \in Topics : Join(s, t)
  \/ \E s \in Subs : Show(s)
  \/ \E gone \in SUBSET Subs : Leave(gone)

Spec == Init /\ [][Next]_vars

=============================================================================
