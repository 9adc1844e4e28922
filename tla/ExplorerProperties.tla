------------------------- MODULE ExplorerProperties -------------------------
(***************************************************************************)
(* What the page shows its user, whatever the service does meanwhile.      *)
(***************************************************************************)
EXTENDS Explorer, FiniteSets

Calls ==
  [kind : {"load", "run", "replay", "compare"}, scenario : Names \cup {Nothing},
   other : Names \cup {Nothing}, held : Results \cup {NoRun}, worker : Workers \cup {NoWorker}]

\* The type of every variable of the page.
PageTypeOK ==
  /\ body \in [Workers -> Results \cup {NoRun}]
  /\ scenarios \subseteq Names
  /\ selected \in scenarios \cup {Nothing}
  /\ pair \in [Sides -> scenarios \cup {Nothing}]
  /\ result \in Results \cup {NoRun}
  /\ resultScenarioId \in Names \cup {Nothing}
  /\ status \in {"loading", "success", "warning", "error"}
  /\ busy \in BOOLEAN
  /\ disabled \in [Controls -> BOOLEAN]
  /\ operations \subseteq Calls

\* One call at a time, and the page is busy exactly while it lasts: an answer never
\* enables the controls under another call that still waits.
OneOperation ==
  /\ Cardinality(operations) <= 1
  /\ busy <=> operations # {}

\* The page is in one state at a time, of the right type.
OneState == PageTypeOK /\ OneOperation

\* A result is shown as one of the scenario it was computed for, although its scenario is
\* read from the selection after the answer.
ResultIsOfItsScenario ==
  result # NoRun => result.scenario.scenario_id = resultScenarioId

\* Replay and verify says mismatch only when the fixture or the engine changed between
\* two runs of one scenario: it never compares runs of two scenarios, nor with a result
\* that came after the click.
MismatchMeansChange ==
  [][status # "warning" /\ status' = "warning"
       => /\ result.scenario.scenario_id = result'.scenario.scenario_id
          /\ result' # result]_explorerVars

\* The attributes that five places set by hand: what is enabled does something when it is
\* used, and nothing that would be accepted is left disabled.
ControlsAreCurrent ==
  /\ ~ disabled["run"]     <=> MayRun(FALSE)
  /\ ~ disabled["replay"]  <=> MayRun(TRUE) /\ result # NoRun
  /\ ~ disabled["compare"] <=> ~ busy /\ \A x \in Sides : pair[x] \in scenarios
  /\ ~ disabled["select"]  <=> ~ busy /\ scenarios # {}

\* What the page shows is in PostgreSQL: a run is saved before it is answered, and no
\* timeout, retry, restart or deployment takes it back.
ShownRunsAreKept ==
  Durable => \A r \in ({result} \cup {op.held : op \in operations}) \ {NoRun} : Retained(r)

\* The page becomes usable again after every click.
PageRecovers == busy ~> ~ busy
=============================================================================
