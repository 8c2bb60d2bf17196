--------------------------- MODULE DocsPageProofs ---------------------------
(***************************************************************************)
(* Theorems about DocsPage, for any number of tabs and visits, wherever    *)
(* the server's process ends and starts: that each step of a visit brings  *)
(* it nearer to its end, and what becomes of a visit that nothing          *)
(* disturbs.                                                               *)
(***************************************************************************)
EXTENDS DocsPage, TLAPS

\* The scripts of the page that are yet to run.
Rest == {<<>>, PageScripts, <<Preset, "inline">>, <<"inline">>}

\* The initializer a tab comes to is the one of the page, and only with it does
\* it ask for a description.
VisitInv ==
  /\ phase \in [Tabs -> {"closed", "page", "scripts", "description",
                         "shown", "blank", "error", "unreachable"}]
  /\ url \in [Tabs -> {None, "/swagger", "/swagger/"}]
  /\ todo \in [Tabs -> Rest]
  /\ defined \in [Tabs -> SUBSET Globals]
  /\ onload \in [Tabs -> {NoInitializer, PageInitializer}]
  /\ shown \in [Tabs -> {None, ThisAPI}]
  /\ \A t \in Tabs : phase[t] = "description" => onload[t] = PageInitializer

ServerTypes ==
  /\ listener \in {"off", "pending", "serving", "failed", "closed"}
  /\ apiStart \in {"off", "select", "nil", "error"}
  /\ installed \in BOOLEAN

\* Running a script leaves the ones after it, and none of them is the
\* distribution's initializer.
LEMMA ScriptRun ==
  ASSUME NEW q \in Rest, q # <<>>
  PROVE  /\ Tail(q) \in Rest
         /\ Head(q) \in {Bundle, Preset, "inline"}
         /\ Defines(Head(q)) \in SUBSET Globals
         /\ \A i \in {NoInitializer, PageInitializer} :
              Assigns(Head(q), i) \in {NoInitializer, PageInitializer}
<1>1. Tail(q) \in Rest /\ Head(q) \in {Bundle, Preset, "inline"}
  <2>1. CASE q = PageScripts
    <3>1. Tail(q) = <<Preset, "inline">> /\ Head(q) = Bundle
      BY <2>1 DEF PageScripts
    <3> QED BY <3>1 DEF Rest
  <2>2. CASE q = <<Preset, "inline">>
    <3>1. Tail(q) = <<"inline">> /\ Head(q) = Preset BY <2>2
    <3> QED BY <3>1 DEF Rest
  <2>3. CASE q = <<"inline">>
    <3>1. Tail(q) = <<>> /\ Head(q) = "inline" BY <2>3
    <3> QED BY <3>1 DEF Rest
  <2> QED BY <2>1, <2>2, <2>3 DEF Rest
<1>2. Defines(Head(q)) \in SUBSET Globals
  BY <1>1 DEF Defines, Globals, Bundle, Preset
<1>3. \A i \in {NoInitializer, PageInitializer} :
        Assigns(Head(q), i) \in {NoInitializer, PageInitializer}
  BY <1>1 DEF Assigns, Bundle, Preset
<1> QED BY <1>1, <1>2, <1>3

\* Every step of a tab keeps what is known of it; the server's leave it alone.
LEMMA VisitStep ==
  ASSUME VisitInv, ServerTypes, [Next]_vars
  PROVE  VisitInv' /\ ServerTypes'
<1> USE DEF VisitInv, ServerTypes
<1>1. CASE Process
  <2>1. ServerTypes'
    BY <1>1 DEF Process, Start, Listen, Shutdown, ProcessEnds, StartReturns
  <2> QED BY <1>1, <2>1 DEF Process, tabVars
<1>2. CASE UNCHANGED vars BY <1>2 DEF vars, tabVars, apiVars
<1>3. ASSUME NEW t \in Tabs, NEW path \in {"/swagger", "/swagger/"}, Visit(t, path)
      PROVE  VisitInv' /\ ServerTypes'
  <2>1. <<>> \in Rest BY DEF Rest
  <2> QED BY <1>3, <2>1 DEF Visit, apiVars
<1>4. ASSUME NEW t \in Tabs, GetPage(t) PROVE VisitInv' /\ ServerTypes'
  <2>1. <<>> \in Rest /\ PageScripts \in Rest BY DEF Rest
  <2>2. RedirectedTo(url[t]) # url[t] => RedirectedTo(url[t]) = "/swagger/"
    BY DEF RedirectedTo
  <2>3. url' \in [Tabs -> {None, "/swagger", "/swagger/"}]
    BY <1>4, <2>2 DEF GetPage
  <2>4. todo' \in [Tabs -> Rest] BY <1>4, <2>1 DEF GetPage
  <2> QED BY <1>4, <2>3, <2>4 DEF GetPage, apiVars
<1>5. ASSUME NEW t \in Tabs, RunScript(t) PROVE VisitInv' /\ ServerTypes'
  <2>1. /\ phase[t] = "scripts" /\ todo[t] # <<>>
        /\ todo' = [todo EXCEPT ![t] = Tail(@)]
        /\ \/ /\ defined' = [defined EXCEPT ![t] = @ \cup Defines(Head(todo[t]))]
              /\ onload' = [onload EXCEPT ![t] = Assigns(Head(todo[t]), @)]
           \/ UNCHANGED <<defined, onload>>
        /\ UNCHANGED <<apiVars, installed, phase, url, shown>>
    BY <1>5 DEF RunScript
  <2>2. /\ Tail(todo[t]) \in Rest
        /\ Defines(Head(todo[t])) \in SUBSET Globals
        /\ Assigns(Head(todo[t]), onload[t]) \in {NoInitializer, PageInitializer}
    BY <2>1, ScriptRun
  <2>3. todo' \in [Tabs -> Rest] BY <2>1, <2>2
  <2>4. defined' \in [Tabs -> SUBSET Globals] BY <2>1, <2>2
  <2>5. onload' \in [Tabs -> {NoInitializer, PageInitializer}] BY <2>1, <2>2
  <2>6. \A u \in Tabs : phase[u] = "description" => onload'[u] = onload[u]
    BY <2>1
  <2> QED BY <2>1, <2>3, <2>4, <2>5, <2>6 DEF apiVars
<1>6. ASSUME NEW t \in Tabs, Load(t) PROVE VisitInv' /\ ServerTypes'
  BY <1>6 DEF Load, apiVars
<1>7. ASSUME NEW t \in Tabs, GetDescription(t) PROVE VisitInv' /\ ServerTypes'
  <2>1. onload[t].url = "/swagger.json"
    BY <1>7 DEF GetDescription, PageInitializer
  <2>2. Described(onload[t].url) \in {None, ThisAPI}
    BY <2>1 DEF Described, SwaggerInitializer
  <2> QED BY <1>7, <2>2 DEF GetDescription, apiVars
<1> QED
  BY <1>1, <1>2, <1>3, <1>4, <1>5, <1>6, <1>7 DEF Next, TabStep

\* It holds at all times.
LEMMA VisitCorrect == Spec => [](VisitInv /\ ServerTypes)
<1>1. Init => VisitInv /\ ServerTypes
  BY DEF Init, APIInit, VisitInv, ServerTypes, Rest
<1> QED BY <1>1, VisitStep, PTL DEF Spec

\* The values the variables range over, for any number of tabs.
THEOREM TypeCorrect == Spec => []TypeOK
<1>1. VisitInv /\ ServerTypes => TypeOK
  <2>1. Len(<<>>) <= 3 OBVIOUS
  <2>2. Len(PageScripts) <= 3 BY DEF PageScripts
  <2>3. Len(<<Preset, "inline">>) <= 3 OBVIOUS
  <2>4. Len(<<"inline">>) <= 3 OBVIOUS
  <2>5. \A q \in Rest : Len(q) <= 3 BY <2>1, <2>2, <2>3, <2>4 DEF Rest
  <2> QED BY <2>5 DEF VisitInv, ServerTypes, TypeOK
<1> QED BY <1>1, VisitCorrect, PTL

-----------------------------------------------------------------------------
(* Every visit ends. *)

InVisit(t) == phase[t] \in {"page", "scripts", "description"}

\* How many steps a visit takes at most from here on: a redirect, the page, its
\* scripts, the load event, and the description.
StepsLeft(t) ==
  CASE phase[t] = "page"        -> IF url[t] = "/swagger/" THEN 6 ELSE 7
    [] phase[t] = "scripts"     -> Len(todo[t]) + 2
    [] phase[t] = "description" -> 1
    [] OTHER                    -> 0

\* A visit has at most seven steps before it, and none only when it is over.
LEMMA StepsLeftIs ==
  ASSUME VisitInv, NEW t \in Tabs
  PROVE  StepsLeft(t) \in 0 .. 7 /\ (StepsLeft(t) = 0 <=> ~InVisit(t))
<1>1. todo[t] \in Rest BY DEF VisitInv
<1>2. Len(todo[t]) \in 0 .. 3
  <2>1. Len(PageScripts) = 3 BY DEF PageScripts
  <2>2. Len(<<>>) = 0 /\ Len(<<Preset, "inline">>) = 2 /\ Len(<<"inline">>) = 1
    OBVIOUS
  <2> QED BY <1>1, <2>1, <2>2 DEF Rest
<1> DEFINE n == Len(todo[t])
<1> HIDE DEF n
<1>3. CASE phase[t] = "page"
  <2>1. StepsLeft(t) \in {6, 7} BY <1>3 DEF StepsLeft
  <2> QED BY <1>3, <2>1 DEF InVisit
<1>4. CASE phase[t] = "scripts"
  <2>1. StepsLeft(t) = n + 2 BY <1>4 DEF StepsLeft, n
  <2>2. n \in 0 .. 3 BY <1>2 DEF n
  <2> QED BY <1>4, <2>1, <2>2 DEF InVisit
<1>5. CASE phase[t] = "description"
  <2>1. StepsLeft(t) = 1 BY <1>5 DEF StepsLeft
  <2> QED BY <1>5, <2>1 DEF InVisit
<1>6. CASE ~InVisit(t)
  <2>1. StepsLeft(t) = 0 BY <1>6 DEF StepsLeft, InVisit
  <2> QED BY <1>6, <2>1
<1> QED BY <1>3, <1>4, <1>5, <1>6 DEF InVisit

\* A step of a tab takes one of them.
LEMMA StepTaken ==
  ASSUME VisitInv, NEW t \in Tabs, TabStep(t)
  PROVE  StepsLeft(t)' < StepsLeft(t) /\ StepsLeft(t)' \in Nat /\ InVisit(t)
<1> USE DEF VisitInv
<1>1. CASE GetPage(t)
  <2>1. InVisit(t) /\ StepsLeft(t) \in {6, 7}
    BY <1>1 DEF GetPage, InVisit, StepsLeft
  <2>2. CASE phase' = [phase EXCEPT ![t] = "unreachable"]
    <3>1. StepsLeft(t)' = 0 BY <2>2 DEF StepsLeft
    <3> QED BY <2>1, <3>1
  <2>3. CASE /\ RedirectedTo(url[t]) # url[t]
             /\ url' = [url EXCEPT ![t] = RedirectedTo(url[t])]
             /\ UNCHANGED <<phase, todo>>
    <3>1. url[t] = "/swagger" /\ url'[t] = "/swagger/" BY <2>3 DEF RedirectedTo
    <3>2. phase[t] = "page" /\ phase'[t] = "page" BY <1>1, <2>3 DEF GetPage
    <3> QED BY <3>1, <3>2 DEF StepsLeft, InVisit
  <2>4. CASE /\ phase' = [phase EXCEPT ![t] = IF installed THEN "scripts" ELSE "error"]
             /\ todo' = [todo EXCEPT ![t] = IF installed THEN PageScripts ELSE <<>>]
    <3>1. \/ phase'[t] = "error"
          \/ phase'[t] = "scripts" /\ todo'[t] = PageScripts
      BY <2>4
    <3>2. Len(PageScripts) = 3 BY DEF PageScripts
    <3>3. phase'[t] = "error" => StepsLeft(t)' = 0 BY DEF StepsLeft
    <3>4. phase'[t] = "scripts" => StepsLeft(t)' = Len(todo'[t]) + 2
      BY DEF StepsLeft
    <3>5. StepsLeft(t)' \in {0, 5}
      <4>1. CASE phase'[t] = "error" BY <3>3, <4>1
      <4>2. CASE phase'[t] = "scripts" /\ todo'[t] = PageScripts
        <5>1. Len(todo'[t]) = 3 BY <3>2, <4>2
        <5>2. StepsLeft(t)' = 3 + 2 BY <3>4, <4>2, <5>1
        <5> QED BY <5>2
      <4> QED BY <3>1, <4>1, <4>2
    <3> QED BY <2>1, <3>5
  <2> QED BY <1>1, <2>2, <2>3, <2>4 DEF GetPage
<1>2. CASE RunScript(t)
  <2>1. /\ phase[t] = "scripts" /\ phase'[t] = "scripts"
        /\ todo[t] # <<>> /\ todo'[t] = Tail(todo[t])
    BY <1>2 DEF RunScript
  <2>2. \A q \in Rest : q # <<>> => Len(Tail(q)) < Len(q)
    <3>1. Len(Tail(PageScripts)) < Len(PageScripts) BY DEF PageScripts
    <3>2. Len(Tail(<<Preset, "inline">>)) < Len(<<Preset, "inline">>) OBVIOUS
    <3>3. Len(Tail(<<"inline">>)) < Len(<<"inline">>) OBVIOUS
    <3> QED BY <3>1, <3>2, <3>3 DEF Rest
  <2>3. /\ Len(todo'[t]) < Len(todo[t])
        /\ Len(todo'[t]) \in Nat /\ Len(todo[t]) \in Nat
    <3>1. todo[t] \in Rest BY DEF VisitInv
    <3>2. Tail(todo[t]) \in Rest BY <2>1, <3>1, ScriptRun
    <3>3. \A q \in Rest : Len(q) \in Nat
      <4>1. Len(PageScripts) = 3 BY DEF PageScripts
      <4> QED BY <4>1 DEF Rest
    <3> QED BY <2>1, <2>2, <3>1, <3>2, <3>3
  <2> QED BY <2>1, <2>3 DEF StepsLeft, InVisit
<1>3. CASE Load(t)
  <2>1. /\ phase[t] = "scripts" /\ todo[t] = <<>>
        /\ phase'[t] \in {"description", "blank"}
    BY <1>3 DEF Load
  <2>2. StepsLeft(t)' \in {0, 1} /\ StepsLeft(t) = 2 BY <2>1 DEF StepsLeft
  <2> QED BY <2>1, <2>2 DEF InVisit
<1>4. CASE GetDescription(t)
  <2>1. phase[t] = "description" /\ phase'[t] \in {"error", "shown"}
    BY <1>4 DEF GetDescription
  <2>2. StepsLeft(t)' = 0 /\ StepsLeft(t) = 1 BY <2>1 DEF StepsLeft
  <2> QED BY <2>1, <2>2 DEF InVisit
<1> QED BY <1>1, <1>2, <1>3, <1>4 DEF TabStep

\* No other step has a part in a visit that is going on.
LEMMA StepsOfOthers ==
  ASSUME VisitInv, NEW t \in Tabs, InVisit(t), [Next]_vars, ~TabStep(t)
  PROVE  UNCHANGED <<phase[t], url[t], todo[t], defined[t], onload[t], shown[t]>>
<1> USE DEF VisitInv
<1>1. CASE UNCHANGED tabVars BY <1>1 DEF tabVars
<1>2. ASSUME NEW u \in Tabs, NEW path, Visit(u, path)
      PROVE  UNCHANGED <<phase[t], url[t], todo[t], defined[t], onload[t], shown[t]>>
  <2>1. u # t BY <1>2 DEF Visit, Settled, InVisit
  <2> QED BY <1>2, <2>1 DEF Visit
<1>3. ASSUME NEW u \in Tabs, TabStep(u)
      PROVE  UNCHANGED <<phase[t], url[t], todo[t], defined[t], onload[t], shown[t]>>
  <2>1. u # t BY <1>3
  <2>2. /\ \/ GetPage(u) /\ UNCHANGED <<defined, onload, shown>>
           \/ RunScript(u) /\ UNCHANGED <<phase, url, shown>>
           \/ Load(u) /\ UNCHANGED <<url, todo, defined, onload, shown>>
           \/ GetDescription(u) /\ UNCHANGED <<url, todo, defined, onload>>
    BY <1>3 DEF TabStep, GetPage, RunScript, Load, GetDescription
  <2>3. CASE GetPage(u) BY <2>1, <2>3 DEF GetPage
  <2>4. CASE RunScript(u) BY <2>1, <2>4 DEF RunScript
  <2>5. CASE Load(u) BY <2>1, <2>5 DEF Load
  <2>6. CASE GetDescription(u) BY <2>1, <2>6 DEF GetDescription
  <2> QED BY <2>2, <2>3, <2>4, <2>5, <2>6
<1> QED BY <1>1, <1>2, <1>3 DEF Next, Process, vars

VisitsShrink ==
  [][\A t \in Tabs :
       InVisit(t) =>
         \/ StepsLeft(t)' < StepsLeft(t)
         \/ UNCHANGED <<phase[t], url[t], todo[t], defined[t], onload[t], shown[t]>>]_vars

\* Whatever happens to a tab during a visit brings the visit nearer to its end,
\* which is at most seven steps away: no redirect leads back to where it began, no
\* script is run twice.
THEOREM VisitsAreFinite ==
  Spec => [](\A t \in Tabs : StepsLeft(t) \in 0 .. 7) /\ VisitsShrink
<1>1. VisitInv => \A t \in Tabs : StepsLeft(t) \in 0 .. 7 BY StepsLeftIs
<1>2. VisitInv /\ [Next]_vars =>
        [\A t \in Tabs :
           InVisit(t) =>
             \/ StepsLeft(t)' < StepsLeft(t)
             \/ UNCHANGED <<phase[t], url[t], todo[t], defined[t], onload[t],
                            shown[t]>>]_vars
  BY StepTaken, StepsOfOthers
<1> QED BY <1>1, <1>2, VisitCorrect, PTL DEF Spec, VisitsShrink

-----------------------------------------------------------------------------
(* Visits come to an end. *)

\* What the prover has no rules for: that a tab in a visit has a step to take.
CanGoOn == \A t \in Tabs : InVisit(t) => ENABLED <<TabStep(t)>>_vars

\* A tab in a visit takes a step again and again, for as long as there is one to
\* take.
Moves(t) == []<>~InVisit(t) \/ []<><<TabStep(t)>>_vars

\* So the fairness of the specification has it.
LEMMA FairMoves ==
  ASSUME NEW t \in Tabs
  PROVE  Spec /\ []CanGoOn => Moves(t)
<1>1. CanGoOn => (InVisit(t) => ENABLED <<TabStep(t)>>_vars) BY DEF CanGoOn
<1>2. Spec => Fairness(t) BY DEF Spec
<1> QED BY <1>1, <1>2, PTL DEF Moves, Fairness

\* From k steps on there are fewer after the next one of the tab, and not more
\* after any other.
LEMMA OneLess ==
  ASSUME VisitInv, NEW t \in Tabs, NEW k \in 1 .. 7, StepsLeft(t) <= k, [Next]_vars
  PROVE  /\ StepsLeft(t)' <= k \/ StepsLeft(t) <= k - 1
         /\ TabStep(t) => StepsLeft(t)' <= k - 1
<1>1. StepsLeft(t) \in 0 .. 7 /\ (StepsLeft(t) = 0 <=> ~InVisit(t))
  BY StepsLeftIs
<1>2. CASE TabStep(t)
  <2>1. StepsLeft(t)' < StepsLeft(t) /\ StepsLeft(t)' \in Nat BY <1>2, StepTaken
  <2> QED BY <1>1, <2>1
<1>3. CASE ~InVisit(t) /\ ~TabStep(t) BY <1>1, <1>3
<1>4. CASE InVisit(t) /\ ~TabStep(t)
  <2>1. UNCHANGED <<phase[t], url[t], todo[t], defined[t], onload[t], shown[t]>>
    BY <1>4, StepsOfOthers
  <2>2. StepsLeft(t)' = StepsLeft(t) BY <2>1 DEF StepsLeft
  <2> QED BY <1>4, <2>2
<1> QED BY <1>2, <1>3, <1>4

\* A visit comes to an end, in success or not, wherever the server's process ended
\* and started again during it.
THEOREM VisitsComeToAnEnd == Spec /\ []CanGoOn => VisitEnds
<1> SUFFICES ASSUME NEW t \in Tabs
             PROVE  Spec /\ []CanGoOn => (phase[t] = "page" ~> Settled(t))
  BY DEF VisitEnds
<1>1. VisitInv => StepsLeft(t) <= 7
  <2> SUFFICES ASSUME VisitInv PROVE StepsLeft(t) <= 7 OBVIOUS
  <2>1. StepsLeft(t) \in 0 .. 7 BY StepsLeftIs
  <2> QED BY <2>1
<1>2. VisitInv /\ StepsLeft(t) <= 0 => ~InVisit(t)
  <2> SUFFICES ASSUME VisitInv, StepsLeft(t) <= 0 PROVE ~InVisit(t) OBVIOUS
  <2>1. StepsLeft(t) \in 0 .. 7 /\ (StepsLeft(t) = 0 <=> ~InVisit(t))
    BY StepsLeftIs
  <2> QED BY <2>1
<1>3. VisitInv /\ ~InVisit(t) /\ phase[t] # "closed" => Settled(t)
  BY DEF VisitInv, InVisit, Settled
<1>4. VisitInv /\ phase[t] # "closed" /\ [Next]_vars => (phase[t] # "closed")'
  <2> SUFFICES ASSUME VisitInv, phase[t] # "closed", [Next]_vars
               PROVE  phase'[t] # "closed"
    OBVIOUS
  <2> USE DEF VisitInv
  <2>1. CASE UNCHANGED tabVars BY <2>1 DEF tabVars
  <2>2. ASSUME NEW u \in Tabs, NEW path, Visit(u, path) PROVE phase'[t] # "closed"
    BY <2>2 DEF Visit
  <2>3. ASSUME NEW u \in Tabs, TabStep(u) PROVE phase'[t] # "closed"
    BY <2>3 DEF TabStep, GetPage, RunScript, Load, GetDescription
  <2> QED BY <2>1, <2>2, <2>3 DEF Next, Process, vars
<1>5. phase[t] = "page" => phase[t] # "closed" OBVIOUS
<1>6. Spec => [](VisitInv /\ ServerTypes) BY VisitCorrect
<1> DEFINE L(k) == StepsLeft(t) <= k
<1>7. VisitInv /\ [Next]_vars =>
        /\ L(7) => L(7)' \/ L(6)
        /\ L(6) => L(6)' \/ L(5)
        /\ L(5) => L(5)' \/ L(4)
        /\ L(4) => L(4)' \/ L(3)
        /\ L(3) => L(3)' \/ L(2)
        /\ L(2) => L(2)' \/ L(1)
        /\ L(1) => L(1)' \/ L(0)
  <2> SUFFICES ASSUME VisitInv, [Next]_vars
               PROVE  \A k \in 1 .. 7 : L(k) => L(k)' \/ L(k - 1)
    OBVIOUS
  <2> QED BY OneLess
<1>8. VisitInv /\ <<TabStep(t)>>_vars =>
        /\ L(7) => L(6)'
        /\ L(6) => L(5)'
        /\ L(5) => L(4)'
        /\ L(4) => L(3)'
        /\ L(3) => L(2)'
        /\ L(2) => L(1)'
        /\ L(1) => L(0)'
  <2> SUFFICES ASSUME VisitInv, TabStep(t)
               PROVE  \A k \in 1 .. 7 : L(k) => L(k - 1)'
    OBVIOUS
  <2>1. Next BY DEF Next
  <2> QED BY <2>1, OneLess
<1>9. Spec /\ []CanGoOn => Moves(t) BY FairMoves
<1> QED
  BY <1>1, <1>2, <1>3, <1>4, <1>5, <1>6, <1>7, <1>8, <1>9, PTL DEF Spec, Moves

-----------------------------------------------------------------------------
(* Visits that nothing disturbs. *)

\* What a visit has by the time it gets the page, and what it has after every one
\* of its steps when the server has the files and stays up.
AtPage(t) ==
  /\ phase[t] = "page"
  /\ url[t] \in {"/swagger", "/swagger/"}
  /\ defined[t] = {} /\ onload[t] = NoInitializer

InScripts(t) ==
  /\ phase[t] = "scripts"
  /\ url[t] = "/swagger/"
  /\ \/ todo[t] = PageScripts /\ defined[t] = {}
     \/ todo[t] = <<Preset, "inline">> /\ defined[t] = {"SwaggerUIBundle"}
     \/ todo[t] = <<"inline">> /\ defined[t] = Globals
     \/ todo[t] = <<>> /\ defined[t] = Globals /\ onload[t] = PageInitializer

OnTrack(t) ==
  \/ AtPage(t)
  \/ InScripts(t)
  \/ phase[t] = "description" /\ onload[t] = PageInitializer
  \/ phase[t] = "shown" /\ shown[t] = ThisAPI

\* A visit begins with nothing of an earlier one.
LEMMA PageStep ==
  ASSUME VisitInv, NEW t \in Tabs, phase[t] = "page" => AtPage(t), [Next]_vars
  PROVE  (phase[t] = "page" => AtPage(t))'
<1> USE DEF VisitInv
<1>1. ASSUME phase'[t] = "page", InVisit(t), ~TabStep(t)
      PROVE  phase[t] = "page" /\ AtPage(t)'
  <2>1. UNCHANGED <<phase[t], url[t], todo[t], defined[t], onload[t], shown[t]>>
    BY <1>1, StepsOfOthers
  <2> QED BY <1>1, <2>1 DEF AtPage
<1>2. CASE TabStep(t)
  <2>1. CASE GetPage(t)
    <3>1. RedirectedTo(url[t]) # url[t] => RedirectedTo(url[t]) = "/swagger/"
      BY DEF RedirectedTo
    <3>2. UNCHANGED <<defined, onload>> BY <2>1 DEF GetPage
    <3>3. phase'[t] = "page" => url'[t] = RedirectedTo(url[t]) /\ RedirectedTo(url[t]) # url[t]
      BY <2>1 DEF GetPage
    <3> QED BY <2>1, <3>1, <3>2, <3>3 DEF GetPage, AtPage
  <2>2. CASE RunScript(t) BY <2>2 DEF RunScript
  <2>3. CASE Load(t) BY <2>3 DEF Load
  <2>4. CASE GetDescription(t) BY <2>4 DEF GetDescription
  <2> QED BY <1>2, <2>1, <2>2, <2>3, <2>4 DEF TabStep
<1>3. CASE ~InVisit(t) /\ ~TabStep(t)
  <2>1. CASE UNCHANGED tabVars BY <1>3, <2>1 DEF tabVars, InVisit
  <2>2. ASSUME NEW u \in Tabs, NEW path \in {"/swagger", "/swagger/"}, Visit(u, path)
        PROVE  phase'[t] = "page" => AtPage(t)'
    BY <1>3, <2>2 DEF Visit, InVisit, AtPage
  <2>3. ASSUME NEW u \in Tabs, TabStep(u) PROVE phase'[t] = phase[t]
    BY <1>3, <2>3 DEF TabStep, GetPage, RunScript, Load, GetDescription
  <2> QED BY <1>3, <2>1, <2>2, <2>3 DEF Next, Process, vars, InVisit
<1> QED BY <1>1, <1>2, <1>3

\* At a server that is up and has the files, each step of a visit goes well.
LEMMA TrackStep ==
  ASSUME VisitInv, NEW t \in Tabs, OnTrack(t), Serving, installed, [Next]_vars
  PROVE  OnTrack(t)'
<1> USE DEF VisitInv
<1>1. CASE InVisit(t) /\ ~TabStep(t)
  <2>1. UNCHANGED <<phase[t], url[t], todo[t], defined[t], onload[t], shown[t]>>
    BY <1>1, StepsOfOthers
  <2> QED BY <2>1 DEF OnTrack, AtPage, InScripts
<1>2. CASE GetPage(t)
  <2>1. AtPage(t) /\ UNCHANGED <<defined, onload>>
    BY <1>2 DEF GetPage, OnTrack, InScripts
  <2>2. CASE url[t] = "/swagger"
    <3>1. RedirectedTo(url[t]) = "/swagger/" BY <2>2 DEF RedirectedTo
    <3>2. url'[t] = "/swagger/" /\ phase'[t] = "page"
      BY <1>2, <2>1, <2>2, <3>1 DEF GetPage, AtPage
    <3> QED BY <2>1, <3>2 DEF AtPage, OnTrack
  <2>3. CASE url[t] = "/swagger/"
    <3>1. RedirectedTo(url[t]) = url[t] BY <2>3 DEF RedirectedTo
    <3>2. url'[t] = "/swagger/" /\ phase'[t] = "scripts" /\ todo'[t] = PageScripts
      BY <1>2, <2>3, <3>1 DEF GetPage
    <3> QED BY <2>1, <3>2 DEF AtPage, InScripts, OnTrack
  <2> QED BY <2>1, <2>2, <2>3 DEF AtPage
<1>3. CASE RunScript(t)
  <2>1. /\ InScripts(t) /\ todo[t] # <<>> /\ phase'[t] = "scripts"
        /\ url'[t] = "/swagger/" /\ todo'[t] = Tail(todo[t])
    BY <1>3 DEF RunScript, OnTrack, AtPage, InScripts
  <2>2. ScriptFound(url[t], Head(todo[t])) BY <2>1 DEF ScriptFound, InScripts
  <2>3. /\ defined'[t] = defined[t] \cup Defines(Head(todo[t]))
        /\ onload'[t] = Assigns(Head(todo[t]), onload[t])
    BY <1>3, <2>2 DEF RunScript
  <2>4. CASE todo[t] = PageScripts /\ defined[t] = {}
    <3>1. Head(PageScripts) = Bundle /\ Tail(PageScripts) = <<Preset, "inline">>
      BY DEF PageScripts
    <3>2. Defines(Bundle) = {"SwaggerUIBundle"} BY DEF Defines, Bundle, Preset
    <3> QED BY <2>1, <2>3, <2>4, <3>1, <3>2 DEF OnTrack, InScripts
  <2>5. CASE todo[t] = <<Preset, "inline">> /\ defined[t] = {"SwaggerUIBundle"}
    <3>1. Head(todo[t]) = Preset /\ Tail(todo[t]) = <<"inline">> BY <2>5
    <3>2. Defines(Preset) = {"SwaggerUIStandalonePreset"}
      BY DEF Defines, Preset, Bundle
    <3>3. defined'[t] = Globals BY <2>3, <2>5, <3>1, <3>2 DEF Globals
    <3> QED BY <2>1, <3>1, <3>3 DEF OnTrack, InScripts
  <2>6. CASE todo[t] = <<"inline">> /\ defined[t] = Globals
    <3>1. Head(todo[t]) = "inline" /\ Tail(todo[t]) = <<>> BY <2>6
    <3>2. Defines("inline") = {} /\ Assigns("inline", onload[t]) = PageInitializer
      BY DEF Defines, Assigns, Preset, Bundle
    <3> QED BY <2>1, <2>3, <2>6, <3>1, <3>2 DEF OnTrack, InScripts
  <2> QED BY <2>1, <2>4, <2>5, <2>6 DEF InScripts
<1>4. CASE Load(t)
  <2>1. phase[t] = "scripts" /\ todo[t] = <<>> BY <1>4 DEF Load
  <2>2. InScripts(t) BY <2>1 DEF OnTrack, AtPage
  <2>3. PageScripts # <<>> BY DEF PageScripts
  <2>4. defined[t] = Globals /\ onload[t] = PageInitializer
    BY <2>1, <2>2, <2>3 DEF InScripts
  <2>5. PageInitializer # NoInitializer /\ PageInitializer.needs \subseteq Globals
    <3>1. PageInitializer.url # NoInitializer.url
      BY DEF PageInitializer, NoInitializer, None
    <3> QED BY <3>1 DEF PageInitializer
  <2>6. phase'[t] = "description" /\ onload'[t] = PageInitializer
    BY <1>4, <2>4, <2>5 DEF Load
  <2> QED BY <2>6 DEF OnTrack
<1>5. CASE GetDescription(t)
  <2>1. onload[t] = PageInitializer
    BY <1>5 DEF GetDescription, OnTrack, AtPage, InScripts
  <2>2. Described(onload[t].url) = ThisAPI
    <3>1. onload[t].url = "/swagger.json" BY <2>1 DEF PageInitializer
    <3> QED BY <3>1 DEF Described, SwaggerInitializer
  <2>3. phase'[t] = "shown" /\ shown'[t] = ThisAPI
    BY <1>5, <2>2 DEF GetDescription, ThisAPI, None
  <2> QED BY <2>3 DEF OnTrack
<1>6. CASE ~InVisit(t) /\ ~TabStep(t)
  <2>1. phase[t] = "shown" /\ shown[t] = ThisAPI
    BY <1>6 DEF OnTrack, InVisit, AtPage, InScripts
  <2>2. CASE UNCHANGED tabVars BY <2>1, <2>2 DEF tabVars, OnTrack
  <2>3. ASSUME NEW u \in Tabs, NEW path \in {"/swagger", "/swagger/"}, Visit(u, path)
        PROVE  OnTrack(t)'
    <3>1. CASE u = t BY <2>3, <3>1 DEF Visit, OnTrack, AtPage
    <3>2. CASE u # t BY <2>1, <2>3, <3>2 DEF Visit, OnTrack
    <3> QED BY <3>1, <3>2
  <2>4. ASSUME NEW u \in Tabs, TabStep(u) PROVE OnTrack(t)'
    <3>1. u # t BY <1>6, <2>4
    <3>2. phase'[t] = phase[t] /\ shown'[t] = shown[t]
      BY <2>4, <3>1 DEF TabStep, GetPage, RunScript, Load, GetDescription
    <3> QED BY <2>1, <3>2 DEF OnTrack
  <2> QED BY <2>2, <2>3, <2>4 DEF Next, Process, vars
<1> QED BY <1>1, <1>2, <1>3, <1>4, <1>5, <1>6 DEF TabStep

\* A visit to a server that has the files and stays up never goes wrong: there is
\* no blank page, no error, and what is shown is this API.
THEOREM UndisturbedNeverFails ==
  ASSUME NEW t \in Tabs
  PROVE  Spec =>
           [](phase[t] = "page" /\ [](Serving /\ installed) =>
                [](/\ phase[t] \in {"page", "scripts", "description", "shown"}
                   /\ phase[t] = "shown" => shown[t] = ThisAPI))
<1>1. Init => (phase[t] = "page" => AtPage(t)) BY DEF Init
<1>2. /\ VisitInv /\ (phase[t] = "page" => AtPage(t)) /\ [Next]_vars
      => (phase[t] = "page" => AtPage(t))'
  BY PageStep
<1>3. /\ VisitInv /\ OnTrack(t) /\ Serving /\ installed /\ [Next]_vars
      => OnTrack(t)'
  BY TrackStep
<1>4. AtPage(t) => OnTrack(t) BY DEF OnTrack
<1>5. OnTrack(t) => /\ phase[t] \in {"page", "scripts", "description", "shown"}
                    /\ phase[t] = "shown" => shown[t] = ThisAPI
  BY DEF OnTrack, AtPage, InScripts
<1> QED BY <1>1, <1>2, <1>3, <1>4, <1>5, VisitCorrect, PTL DEF Spec

\* Whoever enters either path, at a server that has the files and stays up until
\* the visit is over, is shown the description of this API.
THEOREM UndisturbedIsShown == Spec /\ []CanGoOn => UndisturbedVisitShows
<1> SUFFICES ASSUME NEW t \in Tabs
             PROVE  Spec /\ []CanGoOn =>
                      [](phase[t] = "page" /\ [](Serving /\ installed) =>
                           <>(phase[t] = "shown" /\ shown[t] = ThisAPI))
  BY DEF UndisturbedVisitShows
<1>1. VisitEnds => (phase[t] = "page" ~> Settled(t)) BY DEF VisitEnds
<1>2. Spec =>
        [](phase[t] = "page" /\ [](Serving /\ installed) =>
             [](/\ phase[t] \in {"page", "scripts", "description", "shown"}
                /\ phase[t] = "shown" => shown[t] = ThisAPI))
  BY UndisturbedNeverFails
<1>3. /\ Settled(t)
      /\ /\ phase[t] \in {"page", "scripts", "description", "shown"}
         /\ phase[t] = "shown" => shown[t] = ThisAPI
      => phase[t] = "shown" /\ shown[t] = ThisAPI
  BY DEF Settled
<1> QED BY <1>1, <1>2, <1>3, VisitsComeToAnEnd, PTL

=============================================================================
