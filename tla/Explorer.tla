------------------------------ MODULE Explorer ------------------------------
(***************************************************************************)
(* The page of the web explorer (web/app.js) as a client of RunService:    *)
(* its state, the controls it enables and disables, and the asynchronous   *)
(* functions that the clicks start.  Between two awaits a function is one  *)
(* step; while it waits, the user may use whatever is enabled.             *)
(*                                                                         *)
(* Faults besides those of the service: a request is delivered late or     *)
(* not at all, its response is lost, and the page gives up after           *)
(* REQUEST_TIMEOUT_MS while the handler goes on.  Rendering is abstracted  *)
(* to which result the page holds and the kind of its status panel.        *)
(***************************************************************************)
EXTENDS RunService

Nothing   == ""        \* the value of a select without an option, or of its placeholder
NoWorker  == "none"

\* The contract asks for identifiers of at least one character.
ASSUME ExplorerAssumption ==
  /\ NoWorker \notin Workers
  /\ Nothing \notin Names

VARIABLES
  body,              \* body[w]: the run in the last response of w
  scenarios,         \* state.scenarios, as a set
  selected,          \* scenarioSelect.value
  pair,              \* pair[x]: the value of the select of scenario x of a comparison
  result,            \* state.result, and state.normalizedResult
  resultScenarioId,  \* state.resultScenarioId
  status,            \* the kind of the status panel
  busy,              \* state.busy
  disabled,          \* disabled[c]: the attribute of control c
  operations         \* the calls of an asynchronous function that have not returned

pageVars ==
  <<scenarios, selected, pair, result, resultScenarioId, status, busy, disabled>>

explorerVars == <<vars, body, pageVars, operations>>

Sides == {"a", "b"}

Controls == {"select", "run", "replay", "refresh", "pair", "compare"}

\* The first option of a select: the catalog lists its scenarios in one order.
FirstOf(ids) == CHOOSE id \in ids : TRUE

\* Mutant: the selection stays enabled while an answer is awaited.
SetBusySelectable(b) ==
  /\ busy' = b
  /\ disabled' = [select  |-> scenarios' = {},
                  run     |-> b \/ selected' = Nothing,
                  replay  |-> b \/ result' = NoRun \/ resultScenarioId' # selected',
                  refresh |-> b,
                  pair    |-> b \/ scenarios' = {},
                  compare |-> b \/ \E x \in Sides : pair'[x] = Nothing]

\* Mutant: a refresh is possible at any time.
SetBusyRefreshable(b) ==
  /\ busy' = b
  /\ disabled' = [select  |-> b \/ scenarios' = {},
                  run     |-> b \/ selected' = Nothing,
                  replay  |-> b \/ result' = NoRun \/ resultScenarioId' # selected',
                  refresh |-> FALSE,
                  pair    |-> b \/ scenarios' = {},
                  compare |-> b \/ \E x \in Sides : pair'[x] = Nothing]

SetBusy(b) ==
  /\ busy' = b
  /\ disabled' = [select  |-> b \/ scenarios' = {},
                  run     |-> b \/ scenarios' = {} \/ selected' = Nothing,
                  replay  |-> b \/ result' = NoRun \/ resultScenarioId' # selected',
                  refresh |-> b,
                  pair    |-> b \/ scenarios' = {},
                  compare |-> b \/ \E x \in Sides : pair'[x] = Nothing]

\* The call of function kind for a scenario.
Call(kind, id) ==
  [kind     |-> kind,
   scenario |-> id,
   other    |-> Nothing,   \* scenario B of a comparison
   held     |-> NoRun,     \* the baseline of a replay, or the first result of a comparison
   worker   |-> NoWorker]

\* The script has run, up to the first await of its loadScenarios.
PageInit ==
  /\ body = [w \in Workers |-> NoRun]
  /\ scenarios = {}
  /\ selected = Nothing
  /\ pair = [x \in Sides |-> Nothing]
  /\ result = NoRun
  /\ resultScenarioId = Nothing
  /\ status = "loading"
  /\ busy = TRUE
  /\ disabled = [c \in Controls |-> TRUE]
  /\ operations = {Call("load", Nothing)}

ExplorerInit == Init /\ PageInit
-----------------------------------------------------------------------------
(* The service works on, and the answer of w carries the run it saved.  A response that *)
(* no call waits for any more is dropped.                                               *)

ServiceStep(w) ==
  /\ Handle(w)
  /\ body' = IF /\ pc[w] = "save" /\ reply'[w] = "ok"
                /\ \E op \in operations : op.worker = w
             THEN [body EXCEPT ![w] = run[w]] ELSE body
  /\ UNCHANGED <<pageVars, operations>>

OperatorStep ==
  /\ Operate
  /\ UNCHANGED <<body, pageVars, operations>>

\* The request of an operation reaches a thread that no operation waits for.
Deliver(op) ==
  /\ op.kind # "load"
  /\ op.worker = NoWorker
  /\ \E w \in Workers \ {o.worker : o \in operations} :
       /\ Ask(w, <<"run", op.scenario>>)
       /\ body' = [body EXCEPT ![w] = NoRun]
       /\ operations' = (operations \ {op}) \cup {[op EXCEPT !.worker = w]}
  /\ UNCHANGED pageVars

\* op has the response r.
Receives(op, r) ==
  /\ op.worker # NoWorker
  /\ pc[op.worker] = "idle"
  /\ reply[op.worker] = "ok"
  /\ r = body[op.worker]

\* The page takes the response of thread w, or gives it up.
Take(w) ==
  /\ reply' = [v \in Workers |-> IF v = w THEN "none" ELSE reply[v]]
  /\ body' = [v \in Workers |-> IF v = w THEN NoRun ELSE body[v]]
  /\ UNCHANGED <<process, build, store, schema, age, pc, request, run>>

EndsWith(op, kind) ==
  /\ operations' = operations \ {op}
  /\ status' = kind
  /\ Take(op.worker)

Begins(op) ==
  /\ operations' = operations \cup {op}
  /\ status' = "loading"
  /\ UNCHANGED <<vars, body>>

-----------------------------------------------------------------------------
(* loadScenarios: nothing but its button keeps it from running twice *)

ClickRefresh ==
  /\ ~ disabled["refresh"]
  /\ Begins(Call("load", selected))
  /\ UNCHANGED <<scenarios, selected, pair, result, resultScenarioId>>
  /\ SetBusy(TRUE)

\* renderScenarioOptions(previousSelection)
OfferScenarios(ids, previous) ==
  /\ scenarios' = ids
  /\ selected' = IF previous \in ids THEN previous
                 ELSE IF ids = {} THEN Nothing ELSE FirstOf(ids)
  /\ pair' = [x \in Sides |-> IF pair[x] \in ids THEN pair[x] ELSE Nothing]

Load(op) ==
  /\ op.kind = "load"
  /\ process = "serving"
  /\ OfferScenarios(ScenarioIds(build), op.scenario)
  /\ EndsWith(op, "success")
  /\ UNCHANGED <<result, resultScenarioId>>
  /\ SetBusy(FALSE)

LoadFails(op) ==
  /\ op.kind = "load"
  /\ OfferScenarios({}, Nothing)
  /\ EndsWith(op, "error")
  /\ UNCHANGED <<result, resultScenarioId>>
  /\ SetBusy(FALSE)

-----------------------------------------------------------------------------
(* runScenario *)

\* Its early return.
MayRun(replay) ==
  /\ selected \in scenarios
  /\ ~ busy
  /\ replay => resultScenarioId = selected

ClickRun ==
  /\ ~ disabled["run"]
  /\ MayRun(FALSE)
  /\ Begins(Call("run", selected))
  /\ UNCHANGED <<scenarios, selected, pair, result, resultScenarioId>>
  /\ SetBusy(TRUE)

ClickReplay ==
  /\ ~ disabled["replay"]
  /\ MayRun(TRUE)
  /\ Begins([Call("replay", selected) EXCEPT !.held = result])
  /\ UNCHANGED <<scenarios, selected, pair, result, resultScenarioId>>
  /\ SetBusy(TRUE)

\* What the panel says of r once op has it.
Verdict(op, r) ==
  IF op.kind = "replay" /\ op.held # r THEN "warning" ELSE "success"

\* renderResult reads the selection of now.
Run(op) ==
  /\ op.kind \in {"run", "replay"}
  /\ \E r \in Results :
       /\ Receives(op, r)
       /\ result' = r
       /\ resultScenarioId' = selected
       /\ EndsWith(op, Verdict(op, r))
  /\ UNCHANGED <<scenarios, selected, pair>>
  /\ SetBusy(FALSE)

\* Mutant: only the success path ends with setBusy(false).
RunFailsForGood(op) ==
  /\ op.kind \in {"run", "replay"}
  /\ EndsWith(op, "error")
  /\ UNCHANGED <<scenarios, selected, pair, result, resultScenarioId, busy, disabled>>

\* An error response, no response, or the timeout.
RunFailsOnPage(op) ==
  /\ op.kind \in {"run", "replay"}
  /\ EndsWith(op, "error")
  /\ UNCHANGED <<scenarios, selected, pair, result, resultScenarioId>>
  /\ SetBusy(FALSE)

-----------------------------------------------------------------------------
(* runComparison *)

ClickCompare ==
  /\ ~ disabled["compare"]
  /\ \A x \in Sides : pair[x] \in scenarios
  /\ ~ busy
  /\ Begins([Call("compare", pair["a"]) EXCEPT !.other = pair["b"]])
  /\ UNCHANGED <<scenarios, selected, pair, result, resultScenarioId>>
  /\ SetBusy(TRUE)

\* The first result is there, and the second run is requested.
CompareFirst(op) ==
  /\ op.kind = "compare"
  /\ op.other # Nothing
  /\ \E r \in Results :
       /\ Receives(op, r)
       /\ operations' = (operations \ {op}) \cup
            {[Call("compare", op.other) EXCEPT !.held = r]}
  /\ Take(op.worker)
  /\ UNCHANGED pageVars

CompareSecond(op) ==
  /\ op.kind = "compare"
  /\ op.other = Nothing
  /\ \E r \in Results : Receives(op, r)
  /\ EndsWith(op, "success")
  /\ UNCHANGED <<scenarios, selected, pair, result, resultScenarioId>>
  /\ SetBusy(FALSE)

CompareFails(op) ==
  /\ op.kind = "compare"
  /\ EndsWith(op, "error")
  /\ UNCHANGED <<scenarios, selected, pair, result, resultScenarioId>>
  /\ SetBusy(FALSE)

-----------------------------------------------------------------------------
(* The listeners of the selects bring some of the controls up to date *)

\* Mutant: the replay button keeps its state.
ChangeScenarioOnly(id) ==
  /\ ~ disabled["select"]
  /\ id \in scenarios \ {selected}
  /\ selected' = id
  /\ disabled' = [disabled EXCEPT !["run"] = busy \/ id = Nothing]
  /\ UNCHANGED <<vars, body, scenarios, pair, result, resultScenarioId,
                 status, busy, operations>>

ChangeScenario(id) ==
  /\ ~ disabled["select"]
  /\ id \in scenarios \ {selected}
  /\ selected' = id
  /\ disabled' = [disabled EXCEPT
                    !["run"]    = busy \/ id = Nothing,
                    !["replay"] = busy \/ result = NoRun \/ resultScenarioId # id]
  /\ UNCHANGED <<vars, body, scenarios, pair, result, resultScenarioId,
                 status, busy, operations>>

ChangePair(x, id) ==
  /\ ~ disabled["pair"]
  /\ id \in (scenarios \cup {Nothing}) \ {pair[x]}
  /\ pair' = [pair EXCEPT ![x] = id]
  /\ disabled' = [disabled EXCEPT !["compare"] = busy \/ \E y \in Sides : pair'[y] = Nothing]
  /\ UNCHANGED <<vars, body, scenarios, selected, result, resultScenarioId,
                 status, busy, operations>>

-----------------------------------------------------------------------------
\* The answer that op waits for.
Finish(op) ==
  \/ Load(op) \/ Run(op) \/ CompareFirst(op) \/ CompareSecond(op)

\* What requestJson throws instead.
Fail(op) ==
  \/ LoadFails(op) \/ RunFailsOnPage(op) \/ CompareFails(op)

User ==
  \/ ClickRefresh \/ ClickRun \/ ClickReplay \/ ClickCompare
  \/ \E id \in Names \cup {Nothing} :
       ChangeScenario(id) \/ \E x \in Sides : ChangePair(x, id)

ExplorerNext ==
  \/ \E w \in Workers : ServiceStep(w)
  \/ OperatorStep
  \/ \E op \in operations : Deliver(op) \/ Finish(op) \/ Fail(op)
  \/ User

\* The timer of requestJson fires, if nothing ends the call before.
Ends == \E op \in operations : Fail(op)

ExplorerSpec == ExplorerInit /\ [][ExplorerNext]_explorerVars /\ WF_explorerVars(Ends)
=============================================================================
