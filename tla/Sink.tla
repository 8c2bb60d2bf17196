-------------------------------- MODULE Sink --------------------------------
(***************************************************************************)
(* The sink process, cmd/sink/main.go: it starts the API server            *)
(* (internal/api/server.go) in a goroutine and, five seconds later, the    *)
(* collector, whose context ends with an interrupt signal; after that it   *)
(* shuts both down.                                                        *)
(*                                                                         *)
(* Collector.Start returns with an error in every case: the loop ends only *)
(* with the error of its context, and the other branch of Start's select   *)
(* returns that error too.  main takes it for a failed start and exits, so *)
(* what main.go has after it is here but is never reached.                 *)
(***************************************************************************)
EXTENDS Collector

VARIABLES
  main,     \* "sleep"; "collecting" in Collector.Start; "waiting" for a signal;
            \* "stopping" in Collector.Stop; and how the process ended: "returned",
            \* "fatal" in main, "killed" by the goroutine of the API server
  listener, \* the API server
  apiStart

A == INSTANCE APIServer

sinkVars == <<main, listener, apiStart>>
processVars == <<vars, sinkVars>>

SinkInit ==
  /\ Init
  /\ main = "sleep"
  /\ A!APIInit

-----------------------------------------------------------------------------
(* The API server's goroutine.  An error of Start is fatal. *)

APIServerStep ==
  /\ A!Start \/ A!Listen \/ A!StartReturns
  /\ main' = IF apiStart' = "error" THEN "killed" ELSE main
  /\ UNCHANGED vars

-----------------------------------------------------------------------------
(* main. *)

StartCollector ==
  /\ main = "sleep"
  /\ main' = "collecting"
  /\ UNCHANGED <<vars, listener, apiStart>>

\* What Collector.Start returns: the result of the loop, which is the error of its
\* context, or that error itself.
StartResult == "error"

CollectorStartReturns ==
  /\ main = "collecting"
  /\ pc = "ended" \/ ctxDone
  /\ main' = IF StartResult = "error" THEN "fatal" ELSE "waiting"
  /\ UNCHANGED <<vars, listener, apiStart>>

\* The wait for the signal is over: the API server is shut down, if it listens, and
\* Collector.Stop is called.
StopAll ==
  /\ main = "waiting"
  /\ ctxDone
  /\ main' = "stopping"
  /\ \/ A!Shutdown
     \/ listener \notin {"pending", "serving"} /\ UNCHANGED <<listener, apiStart>>
  /\ Stop

\* Collector.Stop goes on, and main returns after it.
FinishStop ==
  /\ main = "stopping"
  /\ CloseStorage
  /\ main' = "returned"
  /\ UNCHANGED <<listener, apiStart>>

\* A signal ends the context.
Signal ==
  /\ Cancel
  /\ UNCHANGED sinkVars

\* What the collector does once it was started, and the queue at any time.
CollectorStep ==
  /\ main \in {"collecting", "waiting", "stopping"} /\ LoopStep
  /\ UNCHANGED sinkVars

QueueStep ==
  /\ \/ Publish \/ Break
     \/ \E k \in Subs : Join(k) \/ Deliver(k) \/ Leave(k)
     \/ \E p \in late : LateAck(p)
  /\ UNCHANGED sinkVars

SinkNext ==
  /\ main \notin {"returned", "fatal", "killed"}
  /\ \/ APIServerStep
     \/ StartCollector \/ CollectorStartReturns \/ StopAll \/ FinishStop \/ Signal
     \/ CollectorStep \/ QueueStep

SinkSpec == SinkInit /\ [][SinkNext]_processVars

-----------------------------------------------------------------------------
(* Properties. *)

\* cmd/sink/main.go:80: "Wait for interrupt signal", followed by the shutdown of
\* the API server and the collector.  When main ends the process after a signal,
\* it should have stopped the collector.  (An API server that cannot listen ends it
\* from its own goroutine, which is not counted.)
StoppedBeforeExit ==
  [][main' \in {"returned", "fatal"} /\ ctxDone => stop' = "closed"]_processVars

=============================================================================
