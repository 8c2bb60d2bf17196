----------------------------- MODULE APIServer -----------------------------
(***************************************************************************)
(* The life of the REST API's server, internal/api/server.go: Start, which *)
(* leaves ListenAndServe to a goroutine and does not wait for it, and      *)
(* Shutdown.  What the routes answer while it serves is in QueryAPI and    *)
(* DocsPage.                                                               *)
(***************************************************************************)

VARIABLES
  listener, \* ListenAndServe: "off" before Start, "pending", "serving",
            \* "failed", "closed" after Shutdown
  apiStart  \* Start: "off", "select", then what it returned: "nil", "error"

apiVars == <<listener, apiStart>>

APIInit == listener = "off" /\ apiStart = "off"

Start ==
  /\ apiStart = "off"
  /\ listener' = "pending"
  /\ apiStart' = "select"

\* ListenAndServe binds its port or returns an error, as when it is taken.
Listen ==
  /\ listener = "pending"
  /\ listener' \in {"serving", "failed"}
  /\ UNCHANGED apiStart

\* The select has a default branch: an error counts only if it is there already.
StartReturns ==
  /\ apiStart = "select"
  /\ apiStart' = IF listener = "failed" THEN "error" ELSE "nil"
  /\ UNCHANGED listener

\* The listener is closed first of all, so whether requests are still waited for
\* or the context ends before them, no new one is taken.  A ListenAndServe that
\* comes later returns ErrServerClosed.
Shutdown ==
  /\ listener \in {"pending", "serving"}
  /\ listener' = "closed"
  /\ UNCHANGED apiStart

Serving == listener = "serving"

=============================================================================
