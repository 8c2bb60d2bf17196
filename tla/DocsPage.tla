------------------------------ MODULE DocsPage ------------------------------
(***************************************************************************)
(* The interactive documentation: swagger/index.html and the scripts it    *)
(* loads, in a browser, from the routes of internal/api/server.go, while   *)
(* the sink's process ends and starts again.                               *)
(*                                                                         *)
(* A visit is a chain of requests: the page, perhaps after a redirect, its *)
(* scripts in their order, and the description of the API that the page's  *)
(* initializer names.  Each is answered by the server as it is by then.    *)
(* The scripts of the Swagger UI distribution are left out but for the     *)
(* globals they define and, of SwaggerUIBundle, the request it makes.      *)
(***************************************************************************)
EXTENDS APIServer, Naturals, Sequences

CONSTANTS Tabs  \* browser tabs

Bundle == "swagger-ui-bundle.js"
Preset == "swagger-ui-standalone-preset.js"
Globals == {"SwaggerUIBundle", "SwaggerUIStandalonePreset"}

\* The description of this API, at its own server, and the one of an example at
\* the distribution's.
ThisAPI == "openapi.yaml"
Petstore == "petstore"
None == "none"

VARIABLES
  installed, \* whether the files are in /app, where the routes look for them:
             \* the image has them there, a build that runs elsewhere does not
  phase,     \* of a tab: "closed", "page", "scripts", "description", and then
             \* "shown", "blank", "error" or "unreachable"
  url,       \* what it asks for, and once the page is there its base
  todo,      \* scripts of the page still to be run
  defined,   \* globals its scripts have defined
  onload,    \* initializer assigned to window.onload, or NoInitializer
  shown      \* the description it shows

tabVars == <<phase, url, todo, defined, onload, shown>>
vars == <<apiVars, installed, tabVars>>

-----------------------------------------------------------------------------
(* The page. *)

NoInitializer == [url |-> None, needs |-> {}]

\* The script in the page, which assigns window.onload.
PageInitializer == [url |-> "/swagger.json", needs |-> Globals]

\* swagger-initializer.js, which assigns it too and is served beside the page, as
\* it came with the distribution.
SwaggerInitializer ==
  [url |-> "https://petstore.swagger.io/v2/swagger.json", needs |-> Globals]

\* Faulty variant: the distribution's initializer beside the one of this page.
BothScripts == <<Bundle, Preset, "swagger-initializer.js", "inline">>

PageScripts == <<Bundle, Preset, "inline">>

\* What running a script does.
Defines(script) ==
  CASE script = Bundle -> {"SwaggerUIBundle"}
    [] script = Preset -> {"SwaggerUIStandalonePreset"}
    [] OTHER           -> {}

Assigns(script, current) ==
  CASE script = "inline"                 -> PageInitializer
    [] script = "swagger-initializer.js" -> SwaggerInitializer
    [] OTHER                             -> current

-----------------------------------------------------------------------------
(* The routes. *)

\* Faulty variants: the page is served under both paths; the path with a slash
\* is redirected, as the other one is.
RedirectNone(path) == path
RedirectBoth(path) == IF path = "/swagger" THEN "/swagger/" ELSE "/swagger"

\* Where a path is redirected to; itself if it is not.
RedirectedTo(path) == IF path = "/swagger" THEN "/swagger/" ELSE path

\* A script is named relative to the page: it is found beside it only when the
\* path of the page ends with a slash.
ScriptFound(base, script) ==
  script = "inline" \/ (Serving /\ installed /\ base = "/swagger/")

\* The description a url leads to.
Described(u) ==
  CASE u = "/swagger.json" /\ Serving /\ installed -> ThisAPI
    [] u = SwaggerInitializer.url                  -> Petstore
    [] OTHER                                       -> None

-----------------------------------------------------------------------------
(* The server's process. *)

Init ==
  /\ APIInit
  /\ installed \in BOOLEAN
  /\ phase = [t \in Tabs |-> "closed"]
  /\ url = [t \in Tabs |-> None]
  /\ todo = [t \in Tabs |-> <<>>]
  /\ defined = [t \in Tabs |-> {}]
  /\ onload = [t \in Tabs |-> NoInitializer]
  /\ shown = [t \in Tabs |-> None]

\* An error of Start is fatal; a signal or a crash ends the process too.
ProcessEnds ==
  /\ listener # "off"
  /\ listener' = "off"
  /\ apiStart' = "off"

Process ==
  /\ \/ Start \/ Listen \/ Shutdown \/ ProcessEnds
     \/ StartReturns /\ apiStart' # "error"
  /\ UNCHANGED <<installed, tabVars>>

-----------------------------------------------------------------------------
(* A tab. *)

Settled(t) == phase[t] \in {"shown", "blank", "error", "unreachable"}

\* Somebody enters one of the paths, or loads the page again once it has settled:
\* before that it would only begin the same visit anew.
Visit(t, path) ==
  /\ phase[t] = "closed" \/ Settled(t)
  /\ phase' = [phase EXCEPT ![t] = "page"]
  /\ url' = [url EXCEPT ![t] = path]
  /\ todo' = [todo EXCEPT ![t] = <<>>]
  /\ defined' = [defined EXCEPT ![t] = {}]
  /\ onload' = [onload EXCEPT ![t] = NoInitializer]
  /\ shown' = [shown EXCEPT ![t] = None]
  /\ UNCHANGED <<apiVars, installed>>

GetPage(t) ==
  /\ phase[t] = "page"
  /\ \/ /\ ~Serving
        /\ phase' = [phase EXCEPT ![t] = "unreachable"]
        /\ UNCHANGED <<url, todo>>
     \/ /\ Serving
        /\ RedirectedTo(url[t]) # url[t]
        /\ url' = [url EXCEPT ![t] = RedirectedTo(url[t])]
        /\ UNCHANGED <<phase, todo>>
     \/ /\ Serving
        /\ RedirectedTo(url[t]) = url[t]
        /\ phase' = [phase EXCEPT ![t] = IF installed THEN "scripts" ELSE "error"]
        /\ todo' = [todo EXCEPT ![t] = IF installed THEN PageScripts ELSE <<>>]
        /\ UNCHANGED url
  /\ UNCHANGED <<apiVars, installed, defined, onload, shown>>

\* A script that cannot be loaded is passed over.
RunScript(t) ==
  /\ phase[t] = "scripts"
  /\ todo[t] # <<>>
  /\ todo' = [todo EXCEPT ![t] = Tail(@)]
  /\ \/ /\ ScriptFound(url[t], Head(todo[t]))
        /\ defined' = [defined EXCEPT ![t] = @ \cup Defines(Head(todo[t]))]
        /\ onload' = [onload EXCEPT ![t] = Assigns(Head(todo[t]), @)]
     \/ /\ ~ScriptFound(url[t], Head(todo[t]))
        /\ UNCHANGED <<defined, onload>>
  /\ UNCHANGED <<apiVars, installed, phase, url, shown>>

\* The load event.  An initializer that names an undefined global throws, which
\* leaves the page blank, as one that was never assigned does.
Load(t) ==
  /\ phase[t] = "scripts"
  /\ todo[t] = <<>>
  /\ phase' = [phase EXCEPT ![t] =
                 IF onload[t] # NoInitializer /\ onload[t].needs \subseteq defined[t]
                 THEN "description" ELSE "blank"]
  /\ UNCHANGED <<apiVars, installed, url, todo, defined, onload, shown>>

GetDescription(t) ==
  /\ phase[t] = "description"
  /\ shown' = [shown EXCEPT ![t] = Described(onload[t].url)]
  /\ phase' = [phase EXCEPT ![t] =
                 IF Described(onload[t].url) = None THEN "error" ELSE "shown"]
  /\ UNCHANGED <<apiVars, installed, url, todo, defined, onload>>

TabStep(t) == GetPage(t) \/ RunScript(t) \/ Load(t) \/ GetDescription(t)

-----------------------------------------------------------------------------

Next ==
  \/ Process
  \/ \E t \in Tabs :
       (\E path \in {"/swagger", "/swagger/"} : Visit(t, path)) \/ TabStep(t)

\* A browser goes on with a visit; the server need not come up, or stay.
Fairness(t) == WF_vars(TabStep(t))

Spec == Init /\ [][Next]_vars /\ \A t \in Tabs : Fairness(t)

-----------------------------------------------------------------------------
(* Properties. *)

\* The values the variables range over.
TypeOK ==
  /\ listener \in {"off", "pending", "serving", "failed", "closed"}
  /\ apiStart \in {"off", "select", "nil", "error"}
  /\ installed \in BOOLEAN
  /\ phase \in [Tabs -> {"closed", "page", "scripts", "description",
                         "shown", "blank", "error", "unreachable"}]
  /\ url \in [Tabs -> {None, "/swagger", "/swagger/"}]
  /\ \A t \in Tabs : Len(todo[t]) <= 3
  /\ defined \in [Tabs -> SUBSET Globals]
  /\ \A t \in Tabs :
       onload[t] \in {NoInitializer, PageInitializer, SwaggerInitializer}
  /\ shown \in [Tabs -> {None, ThisAPI, Petstore}]

\* A visit comes to an end, in success or not: the redirects do not lead back to
\* where they began.
VisitEnds == \A t \in Tabs : phase[t] = "page" ~> Settled(t)

\* Whoever enters either path, at a server that has the files and stays up until
\* the visit is over, is shown the description of this API.
UndisturbedVisitShows ==
  \A t \in Tabs :
    [](phase[t] = "page" /\ [](Serving /\ installed) =>
         <>(phase[t] = "shown" /\ shown[t] = ThisAPI))

=============================================================================
