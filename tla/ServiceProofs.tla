--------------------------- MODULE ServiceProofs ---------------------------
(***************************************************************************)
(* The API and the page that uses it, for any number of threads, any       *)
(* builds and any limit of the store.  First what holds of the handlers    *)
(* themselves, then the promises of the API, then those of the page.       *)
(***************************************************************************)
EXTENDS ServiceProperties, ExplorerProperties, FiniteSetTheorems, FunctionTheorems, TLAPS

Replies == {"none", "ok", "not_found", "unknown_scenario", "unavailable", "matches", "mismatch",
            "rejected", "store_error", "internal_error", "ready", "not_ready", "dropped"}

\* The type of the variables of the service.
ServiceTypes ==
  /\ process \in {"serving", "stopped"}
  /\ build \in Builds
  /\ store \in Stores
  /\ schema \in BOOLEAN
  /\ age \in [Results -> 0 .. MaxRuns]
  /\ pc \in [Workers -> {"idle", "handle", "save", "verify"}]
  /\ request \in [Workers -> Requests \cup {NoRequest}]
  /\ run \in [Workers -> Results \cup {NoRun}]
  /\ reply \in [Workers -> Replies]

\* Only a process that has loaded its fixtures serves.
ServesWhatItLoaded ==
  /\ process = "serving" => Loads(build)
  /\ \A w \in Workers : pc[w] # "idle" => process = "serving"

\* A handler holds the run that it was asked for.
HoldsItsRun ==
  \A w \in Workers :
    /\ pc[w] = "save" => /\ Op(w) = "run" /\ run[w] \in Results
                         /\ Arg(w) \in Complete(build) /\ run[w] = simulate(build, Arg(w))
    /\ pc[w] = "verify" => Op(w) = "replay" /\ run[w] \in Results /\ run[w] = Arg(w)

\* What a request gets is told at its end, and no lookup fails inside a handler.
RepliesAtTheEnd ==
  \A w \in Workers : (pc[w] # "idle" => reply[w] = "none") /\ reply[w] # "internal_error"

HandlerInv == ServiceTypes /\ ServesWhatItLoaded /\ HoldsItsRun /\ RepliesAtTheEnd

-----------------------------------------------------------------------------
(* The catalog.                                                            *)

\* The file of an identifier has that identifier.
LEMMA FileOfIdentifier ==
  ASSUME NEW b, NEW id \in ScenarioIds(b)
  PROVE  ScenarioFile(b, id) \in scenario_files[b] /\ ScenarioFile(b, id).scenario_id = id
<1>1. \E f \in scenario_files[b] : f.scenario_id = id
  BY DEF ScenarioIds
<1> QED
  BY <1>1 DEF ScenarioFile

\* What simulate computes for an identifier is a run of the scenario with it.
LEMMA RunOfIdentifier ==
  ASSUME NEW b \in Builds, NEW id \in Complete(b)
  PROVE  /\ id \in ScenarioIds(b) /\ id \in Names
         /\ simulate(b, id) \in Computations
         /\ simulate(b, id).scenario.scenario_id = id
<1>1. id \in ScenarioIds(b)
  BY DEF Complete
<1>2. simulate(b, id).scenario.scenario_id = id
  BY <1>1, FileOfIdentifier DEF simulate
<1> QED
  BY <1>1, <1>2 DEF Computations, Names

\* A build that starts can answer for every fixture that it lists.
LEMMA LoadedIsComplete == ASSUME NEW b, Loads(b) PROVE Complete(b) = ScenarioIds(b)
BY FileOfIdentifier DEF Loads, LoadsScenarios, Complete

\* A run is told from no run by its fields.
LEMMA NoRunIsNoResult == NoRun \notin Results
<1> SUFFICES ASSUME NoRun \in Results PROVE FALSE
  OBVIOUS
<1>1. PICK b \in Builds : \E id \in Complete(b) : NoRun = simulate(b, id)
  BY DEF Results, Computations
<1>2. DOMAIN NoRun = {"engine"} /\ \A id : "snapshot" \in DOMAIN simulate(b, id)
  BY DEF NoRun, simulate
<1> QED
  BY <1>1, <1>2

\* Every run is of a scenario that some build lists.
LEMMA RunsAreOfScenarios == ASSUME NEW r \in Results PROVE r.scenario.scenario_id \in Names
BY RunOfIdentifier DEF Results, Computations

-----------------------------------------------------------------------------
(* The store.                                                              *)

\* A save leaves ages, and its run is retained.
LEMMA SavedIsRetained ==
  ASSUME ServiceTypes, NEW r \in Results
  PROVE  AfterSave(r) \in [Results -> 0 .. MaxRuns] /\ AfterSave(r)[r] < MaxRuns
<1>1. MaxRuns \in Nat \ {0} /\ age \in [Results -> 0 .. MaxRuns]
  BY ServiceAssumption DEF ServiceTypes
<1>2. CASE Durable
  BY <1>1, <1>2 DEF AfterSave
<1>3. CASE ~ Durable
  <2>1. AfterSave(r) = Memory!AfterSaving(r)
    BY <1>3 DEF AfterSave
  <2> QED
    BY <1>1, <2>1 DEF Memory!AfterSaving, Memory!Retained
<1> QED
  BY <1>2, <1>3

\* PostgreSQL gives up nothing.
LEMMA DurableKeeps ==
  ASSUME ServiceTypes, Durable, NEW r \in Results, NEW x \in Results, Retained(x)
  PROVE  AfterSave(r)[x] < MaxRuns
BY ServiceAssumption DEF ServiceTypes, AfterSave, Retained

-----------------------------------------------------------------------------
(* The handlers.                                                           *)

\* At the start no handler runs and the catalog is that of a build that loads.
LEMMA InitHandlerInv == Init => HandlerInv
<1> SUFFICES ASSUME Init PROVE HandlerInv
  OBVIOUS
<1>1. MaxRuns \in Nat
  BY ServiceAssumption
<1>2. ServiceTypes
  <2>1. MaxRuns \in 0 .. MaxRuns /\ age = [r \in Results |-> MaxRuns]
    BY <1>1 DEF Init
  <2>2. age \in [Results -> 0 .. MaxRuns]
    BY <2>1
  <2> QED
    BY <2>2 DEF Init, ServiceTypes, Replies
<1>3. \A w \in Workers : pc[w] = "idle" /\ reply[w] = "none"
  BY DEF Init
<1> QED
  BY <1>2, <1>3 DEF Init, HandlerInv, ServesWhatItLoaded, HoldsItsRun, RepliesAtTheEnd

\* A handler that ends leaves the others as they are.
LEMMA AnswerHandlerInv ==
  ASSUME HandlerInv, NEW w \in Workers, pc[w] # "idle",
         NEW got \in Replies \ {"internal_error"}, Answer(w, got),
         age' \in [Results -> 0 .. MaxRuns]
  PROVE  HandlerInv'
<1>1. ServiceTypes'
  BY DEF HandlerInv, ServiceTypes, Answer
<1>2. ServesWhatItLoaded'
  BY DEF HandlerInv, ServiceTypes, ServesWhatItLoaded, Answer
<1>3. HoldsItsRun' /\ RepliesAtTheEnd'
  BY DEF HandlerInv, ServiceTypes, HoldsItsRun, RepliesAtTheEnd, Answer, Op, Arg
<1> QED
  BY <1>1, <1>2, <1>3 DEF HandlerInv

\* A handler begins: it looks up its fixture or its run, and answers or goes on.
LEMMA HandleHandlerInv ==
  ASSUME HandlerInv, NEW w \in Workers, Handle(w) PROVE HandlerInv'
<1>1. /\ age \in [Results -> 0 .. MaxRuns] /\ build \in Builds
      /\ run[w] \in Results \cup {NoRun} /\ request[w] \in Requests \cup {NoRequest}
  BY DEF HandlerInv, ServiceTypes
<1>2. CASE ScenarioUnknown(w) \/ RunMissing(w) \/ RunFound(w) \/ ReadFails(w)
           \/ InputUnavailable(w) \/ IsReady(w) \/ IsNotReady(w)
  <2>1. /\ pc[w] # "idle" /\ age' = age
        /\ \E got \in Replies \ {"internal_error"} : Answer(w, got)
    BY <1>2 DEF ScenarioUnknown, RunMissing, RunFound, ReadFails, InputUnavailable, IsReady,
                IsNotReady, Replies
  <2> QED
    BY <1>1, <2>1, AnswerHandlerInv
<1>3. CASE RunFails(w)
  <2>1. Arg(w) \in Complete(build)
    BY <1>3, LoadedIsComplete DEF HandlerInv, ServesWhatItLoaded, RunFails
  <2>2. pc[w] # "idle" /\ age' = age /\ Answer(w, "rejected")
    BY <1>3, <2>1 DEF RunFails
  <2> QED
    BY <1>1, <2>2, AnswerHandlerInv DEF Replies
<1>4. CASE SaveRun(w) \/ SaveFails(w)
  <2>1. pc[w] = "save" /\ run[w] \in Results
    BY <1>4 DEF HandlerInv, HoldsItsRun, SaveRun, SaveFails
  <2>2. AfterSave(run[w]) \in [Results -> 0 .. MaxRuns]
    BY <2>1, SavedIsRetained DEF HandlerInv
  <2>3. /\ age' \in [Results -> 0 .. MaxRuns]
        /\ \E got \in Replies \ {"internal_error"} : Answer(w, got)
    BY <1>1, <1>4, <2>2 DEF SaveRun, SaveFails, Replies
  <2> QED
    BY <2>1, <2>3, AnswerHandlerInv
<1>5. CASE Verify(w)
  <2>1. /\ pc[w] # "idle" /\ age' = age
        /\ \E got \in Replies \ {"internal_error"} : Answer(w, got)
    BY <1>5 DEF Verify, Replies
  <2> QED
    BY <1>1, <2>1, AnswerHandlerInv
<1>6. CASE Simulate(w)
  <2>1. /\ Arg(w) \in Complete(build) /\ simulate(build, Arg(w)) \in Results /\ Op(w) = "run"
    BY <1>1, <1>6, RunOfIdentifier DEF Simulate, Completes, Results
  <2>2. ServiceTypes'
    BY <1>6, <2>1 DEF HandlerInv, ServiceTypes, Simulate
  <2>3. ServesWhatItLoaded' /\ RepliesAtTheEnd'
    BY <1>6 DEF HandlerInv, ServiceTypes, ServesWhatItLoaded, RepliesAtTheEnd, Simulate
  <2>4. HoldsItsRun'
    BY <1>6, <2>1 DEF HandlerInv, ServiceTypes, HoldsItsRun, Simulate, Op, Arg
  <2> QED
    BY <2>2, <2>3, <2>4 DEF HandlerInv
<1>7. CASE ReadForReplay(w)
  <2>1. Arg(w) \in Results
    BY <1>7 DEF ReadForReplay, Retained
  <2>2. ServiceTypes'
    BY <1>7, <2>1 DEF HandlerInv, ServiceTypes, ReadForReplay
  <2>3. ServesWhatItLoaded' /\ RepliesAtTheEnd'
    BY <1>7 DEF HandlerInv, ServiceTypes, ServesWhatItLoaded, RepliesAtTheEnd, ReadForReplay
  <2>4. HoldsItsRun'
    BY <1>7, <2>1 DEF HandlerInv, ServiceTypes, HoldsItsRun, ReadForReplay, Op, Arg
  <2> QED
    BY <2>2, <2>3, <2>4 DEF HandlerInv
<1> QED
  BY <1>2, <1>3, <1>4, <1>5, <1>6, <1>7 DEF Handle

\* A stop drops the handlers, a start loads another build.
LEMMA OperateHandlerInv == ASSUME HandlerInv, Operate PROVE HandlerInv'
<1>1. ASSUME NEW b \in Builds, Start(b) PROVE HandlerInv'
  <2>1. \A w \in Workers : pc[w] = "idle" /\ pc'[w] = "idle"
    BY <1>1 DEF HandlerInv, ServiceTypes, ServesWhatItLoaded, Start
  <2> QED
    BY <1>1, <2>1 DEF HandlerInv, ServiceTypes, ServesWhatItLoaded, HoldsItsRun, RepliesAtTheEnd,
                      Start
<1>2. CASE Stop
  <2>1. MaxRuns \in Nat
    BY ServiceAssumption
  <2>2. \A w \in Workers : pc'[w] = "idle"
    BY <1>2 DEF Stop
  <2>3. reply' \in [Workers -> Replies] /\ \A w \in Workers : reply'[w] # "internal_error"
    BY <1>2 DEF HandlerInv, ServiceTypes, RepliesAtTheEnd, Stop, Replies
  <2>4. ServiceTypes'
    BY <1>2, <2>1, <2>3 DEF HandlerInv, ServiceTypes, Stop
  <2> QED
    BY <1>2, <2>2, <2>3, <2>4
       DEF HandlerInv, ServesWhatItLoaded, HoldsItsRun, RepliesAtTheEnd, Stop
<1>3. CASE Migrate
  BY <1>3 DEF HandlerInv, ServiceTypes, ServesWhatItLoaded, HoldsItsRun, RepliesAtTheEnd, Migrate,
              Op, Arg
<1> QED
  BY <1>1, <1>2, <1>3 DEF Operate

\* A request is given to an idle thread.
LEMMA AskHandlerInv ==
  ASSUME HandlerInv, NEW w \in Workers, NEW r \in Requests, Ask(w, r) PROVE HandlerInv'
<1>1. ServiceTypes'
  BY DEF HandlerInv, ServiceTypes, Ask, Replies
<1>2. ServesWhatItLoaded' /\ RepliesAtTheEnd'
  BY DEF HandlerInv, ServiceTypes, ServesWhatItLoaded, RepliesAtTheEnd, Ask
<1>3. HoldsItsRun'
  BY DEF HandlerInv, ServiceTypes, HoldsItsRun, Ask, Op, Arg
<1> QED
  BY <1>1, <1>2, <1>3 DEF HandlerInv

\* A handler changes nothing of the others.
LEMMA OthersStay ==
  ASSUME HandlerInv, NEW w \in Workers, Handle(w), NEW v \in Workers \ {w}
  PROVE  pc'[v] = pc[v] /\ request'[v] = request[v] /\ run'[v] = run[v] /\ reply'[v] = reply[v]
<1>1. \/ \E got : Answer(w, got)
      \/ Simulate(w) \/ ReadForReplay(w)
  BY DEF Handle, ScenarioUnknown, RunFails, SaveRun, SaveFails, RunMissing, RunFound, ReadFails,
         InputUnavailable, Verify, IsReady, IsNotReady
<1> QED
  BY <1>1 DEF HandlerInv, ServiceTypes, Answer, Simulate, ReadForReplay

-----------------------------------------------------------------------------
(* The history of the API.                                                 *)

\* The runs of this process come from its fixtures.
ComputedByBuild ==
  /\ process = "stopped" => computed = {}
  /\ \A r \in computed :
       /\ r.scenario.scenario_id \in Complete(build)
       /\ r = simulate(build, r.scenario.scenario_id)

\* A run that is saved was computed for a request.
SavedWasRun == \A w \in Workers : pc[w] = "save" => run[w] \in ever

\* The runs in memory have the ages from 0 on, one each.
AgesInARow ==
  /\ \A r, s \in Results : Retained(r) /\ age[r] = age[s] => r = s
  /\ \A r \in Results : Retained(r) => \A i \in 0 .. age[r] : \E s \in Results : age[s] = i

\* The store has reached its limit.
HasOldest == \E s \in Results : age[s] = MaxRuns - 1

\* A run that was answered is lost by eviction only.
LostByEviction ==
  /\ Durable => \A r \in acknowledged : Retained(r)
  /\ ~ Durable => AgesInARow /\ \A r \in acknowledged : Retained(r) \/ HasOldest

HistoryInv ==
  /\ HandlerInv
  /\ computed \subseteq ever /\ acknowledged \subseteq ever /\ ever \subseteq Results
  /\ RetainedWasRun
  /\ ComputedByBuild
  /\ SavedWasRun
  /\ LostByEviction

\* At the start nothing is stored and nothing remembered.
LEMMA InitHistoryInv == ServiceInit => HistoryInv
<1> SUFFICES ASSUME ServiceInit PROVE HistoryInv
  OBVIOUS
<1>1. HandlerInv
  BY InitHandlerInv DEF ServiceInit
<1>2. MaxRuns \in Nat \ {0}
  BY ServiceAssumption
<1>3. \A r \in Results : ~ Retained(r)
  BY <1>2 DEF ServiceInit, Init, Retained
<1>4. \A w \in Workers : pc[w] = "idle"
  BY DEF ServiceInit, Init
<1> QED
  BY <1>1, <1>3, <1>4 DEF ServiceInit, HistoryInv, RetainedWasRun, ComputedByBuild, SavedWasRun,
     LostByEviction, AgesInARow

\* Only a save and a read answer with a run, and only a simulation computes one.
LEMMA WhatIsRemembered ==
  ASSUME HandlerInv, NEW w \in Workers, Handle(w)
  PROVE  /\ SaveRun(w) => NowAnswered \subseteq {run[w]}
         /\ RunFound(w) => NowAnswered \subseteq {Arg(w)}
         /\ ~ SaveRun(w) /\ ~ RunFound(w) => NowAnswered = {}
         /\ Simulate(w) => NowComputed \subseteq {run'[w]}
         /\ ~ Simulate(w) => NowComputed = {}
<1>1. /\ \A v \in Workers \ {w} : pc'[v] = pc[v] /\ reply'[v] = reply[v]
      /\ \A v \in Workers : pc[v] # "idle" => reply[v] = "none"
  BY OthersStay DEF HandlerInv, RepliesAtTheEnd
<1>2. \A v \in Workers : pc[v] # "idle" /\ reply'[v] = "ok" => v = w
  BY <1>1
<1>3. \A v \in Workers : pc[v] = "handle" /\ pc'[v] = "save" => v = w
  BY <1>1
<1>4. /\ SaveRun(w) => Op(w) = "run"
      /\ RunFound(w) => Op(w) = "get"
  BY DEF HandlerInv, HoldsItsRun, SaveRun, RunFound
<1>5. ~ SaveRun(w) /\ ~ RunFound(w) => reply'[w] # "ok" \/ pc[w] = "idle"
  BY <1>1 DEF HandlerInv, ServiceTypes, Handle, Answer, ScenarioUnknown, RunFails, Simulate,
     SaveFails, RunMissing, ReadFails, ReadForReplay, InputUnavailable, Verify, IsReady, IsNotReady
<1>6. ~ Simulate(w) => pc'[w] # "save" \/ pc[w] # "handle"
  BY <1>1 DEF HandlerInv, ServiceTypes, Handle, Answer, ScenarioUnknown, RunFails, SaveRun, RunFound,
     SaveFails, RunMissing, ReadFails, ReadForReplay, InputUnavailable, Verify, IsReady, IsNotReady
<1> QED
  BY <1>2, <1>3, <1>4, <1>5, <1>6 DEF NowAnswered, NowComputed

\* No other step does either.
LEMMA NothingRemembered ==
  ASSUME HandlerInv, Operate \/ \E w \in Workers : \E r \in Requests : Ask(w, r)
  PROVE  NowAnswered = {} /\ NowComputed = {}
<1>1. \A v \in Workers : pc[v] # "idle" =>
        \/ reply'[v] # "ok" /\ pc'[v] # "save"
        \/ reply'[v] = reply[v] /\ pc'[v] = pc[v]
  <2>1. CASE Operate
    BY <2>1 DEF HandlerInv, ServiceTypes, Operate, Start, Stop, Migrate
  <2>2. ASSUME NEW w \in Workers, NEW r \in Requests, Ask(w, r)
        PROVE  \A v \in Workers : pc[v] # "idle" => reply'[v] = reply[v] /\ pc'[v] = pc[v]
    BY <2>2 DEF HandlerInv, ServiceTypes, Ask
  <2> QED
    BY <2>1, <2>2
<1>2. \A v \in Workers : pc[v] # "idle" => reply[v] = "none"
  BY DEF HandlerInv, RepliesAtTheEnd
<1> QED
  BY <1>1, <1>2 DEF NowAnswered, NowComputed

\* A save into the memory store moves the ages up by one.
LEMMA SaveKeepsRow ==
  ASSUME ServiceTypes, ~ Durable, AgesInARow, NEW x \in Results, age' = AfterSave(x),
         store' = store
  PROVE  /\ AgesInARow'
         /\ HasOldest => HasOldest'
         /\ \A r \in Results : Retained(r) => Retained(r)' \/ HasOldest'
<1>1. /\ MaxRuns \in Nat \ {0} /\ age \in [Results -> 0 .. MaxRuns]
      /\ \A r \in Results : age[r] \in Nat /\ age[r] <= MaxRuns
  BY ServiceAssumption DEF ServiceTypes
<1>2. CASE Retained(x)
  <2>1. age' = age
    BY <1>2 DEF AfterSave, Memory!AfterSaving, Memory!Retained, Retained
  <2> QED
    BY <2>1 DEF AgesInARow, HasOldest, Retained
<1>3. CASE ~ Retained(x)
  <2>1. \A r \in Results : age'[r] = IF r = x THEN 0
                                    ELSE IF age[r] < MaxRuns THEN age[r] + 1 ELSE MaxRuns
    BY <1>3 DEF AfterSave, Memory!AfterSaving, Memory!Retained, Retained
  <2>2. \A r, s \in Results : age[r] < MaxRuns /\ age[r] = age[s] => r = s
    BY DEF AgesInARow, Retained
  <2>3. \A r \in Results : age[r] < MaxRuns =>
          \A i \in 0 .. age[r] : \E s \in Results : age[s] = i
    BY DEF AgesInARow, Retained
  <2>4. \A r, s \in Results : age'[r] < MaxRuns /\ age'[r] = age'[s] => r = s
    BY <1>1, <2>1, <2>2
  <2>5. ASSUME NEW r \in Results, age[r] < MaxRuns, NEW i \in 0 .. age[r] + 1, i < MaxRuns
        PROVE  \E s \in Results : age'[s] = i
    <3>1. CASE i = 0
      BY <2>1, <3>1
    <3>2. CASE i > 0
      <4>1. i - 1 \in 0 .. age[r]
        BY <1>1, <2>5, <3>2
      <4>2. PICK s \in Results : age[s] = i - 1
        BY <2>3, <2>5, <4>1
      <4>3. s # x
        BY <1>1, <1>3, <2>5, <4>2 DEF Retained
      <4> QED
        BY <1>1, <2>1, <2>5, <4>2, <4>3
    <3> QED
      BY <1>1, <2>5, <3>1, <3>2
  <2>6. \A r \in Results : age'[r] < MaxRuns =>
          \A i \in 0 .. age'[r] : \E s \in Results : age'[s] = i
    <3> SUFFICES ASSUME NEW r \in Results, age'[r] < MaxRuns, NEW i \in 0 .. age'[r]
                 PROVE  \E s \in Results : age'[s] = i
      OBVIOUS
    <3>1. CASE r = x
      BY <2>1, <3>1
    <3>2. CASE r # x
      <4>1. age[r] < MaxRuns /\ age'[r] = age[r] + 1 /\ i < MaxRuns
        BY <1>1, <2>1, <3>2
      <4> QED
        BY <2>5, <4>1
    <3> QED
      BY <3>1, <3>2
  <2>7. ASSUME HasOldest PROVE HasOldest'
    <3>1. PICK r \in Results : age[r] = MaxRuns - 1
      BY <2>7 DEF HasOldest
    <3>2. MaxRuns - 1 \in 0 .. age[r] + 1 /\ MaxRuns - 1 < MaxRuns /\ age[r] < MaxRuns
      BY <1>1, <3>1
    <3> QED
      BY <2>5, <3>2 DEF HasOldest
  <2>8. ASSUME NEW r \in Results, age[r] < MaxRuns PROVE age'[r] < MaxRuns \/ HasOldest'
    <3>1. CASE age[r] = MaxRuns - 1
      BY <2>7, <3>1 DEF HasOldest
    <3>2. CASE age[r] < MaxRuns - 1
      BY <1>1, <2>1, <3>2
    <3> QED
      BY <1>1, <2>8, <3>1, <3>2
  <2> QED
    BY <2>4, <2>6, <2>7, <2>8 DEF AgesInARow, Retained
<1> QED
  BY <1>2, <1>3

\* A handler keeps the history true.
LEMMA HandleHistoryInv ==
  ASSUME HistoryInv, NEW w \in Workers, Handle(w), Remember PROVE HistoryInv'
<1>1. /\ HandlerInv /\ HandlerInv' /\ ServiceTypes /\ ServiceTypes'
      /\ computed \subseteq ever /\ acknowledged \subseteq ever /\ ever \subseteq Results
      /\ RetainedWasRun /\ ComputedByBuild /\ SavedWasRun /\ LostByEviction
  BY HandleHandlerInv DEF HistoryInv, HandlerInv
<1>2. /\ process' = process /\ build' = build /\ store' = store /\ process = "serving"
      /\ (Durable' <=> Durable) /\ pc[w] # "idle"
  <2>1. process' = process /\ build' = build /\ store' = store /\ pc[w] # "idle"
    BY DEF Handle, Answer, ScenarioUnknown, RunFails, Simulate, SaveRun, SaveFails, RunMissing,
       RunFound, ReadFails, ReadForReplay, InputUnavailable, Verify, IsReady, IsNotReady
  <2> QED
    BY <1>1, <2>1 DEF Durable, HandlerInv, ServesWhatItLoaded
<1>3. /\ computed' = computed \cup NowComputed /\ ever' = ever \cup NowComputed
      /\ acknowledged' = acknowledged \cup NowAnswered
  BY <1>2 DEF Remember
<1>4. \A v \in Workers \ {w} : pc'[v] = pc[v] /\ run'[v] = run[v]
  BY <1>1, OthersStay
<1>5. CASE Simulate(w)
  <2>1. /\ NowComputed \subseteq {run'[w]} /\ NowAnswered = {}
        /\ pc[w] = "handle" /\ pc'[w] = "save" /\ run'[w] = simulate(build, Arg(w)) /\ age' = age
    BY <1>1, <1>5, WhatIsRemembered DEF Simulate, SaveRun, RunFound, HandlerInv, ServiceTypes
  <2>2. run'[w] \in NowComputed
    BY <2>1 DEF NowComputed
  <2>3. /\ run'[w] \in Results /\ Arg(w) \in Complete(build)
        /\ run'[w].scenario.scenario_id = Arg(w)
    BY <1>1, <1>5, <2>1, RunOfIdentifier
       DEF Simulate, Completes, Results, HandlerInv, ServiceTypes
  <2>4. /\ computed' \subseteq ever' /\ acknowledged' \subseteq ever' /\ ever' \subseteq Results
    BY <1>1, <1>3, <2>1, <2>3
  <2>5. RetainedWasRun' /\ SavedWasRun'
    BY <1>1, <1>3, <1>4, <2>1, <2>2 DEF RetainedWasRun, Retained, SavedWasRun
  <2>6. ComputedByBuild'
    BY <1>1, <1>2, <1>3, <2>1, <2>3 DEF ComputedByBuild
  <2>7. LostByEviction'
    BY <1>1, <1>2, <1>3, <2>1 DEF LostByEviction, AgesInARow, HasOldest, Retained
  <2> QED
    BY <1>1, <2>4, <2>5, <2>6, <2>7 DEF HistoryInv
<1>6. CASE ~ Simulate(w)
  <2>1. computed' = computed /\ ever' = ever
    BY <1>1, <1>3, <1>6, WhatIsRemembered
  <2>2. ComputedByBuild'
    BY <1>1, <1>2, <2>1 DEF ComputedByBuild
  <2>3. pc'[w] # "save"
    BY <1>1, <1>6 DEF HandlerInv, ServiceTypes, Handle, Answer, ScenarioUnknown, RunFails, SaveRun,
       RunFound, SaveFails, RunMissing, ReadFails, ReadForReplay, InputUnavailable, Verify, IsReady,
       IsNotReady
  <2>4. SavedWasRun'
    BY <1>1, <1>4, <2>1, <2>3 DEF SavedWasRun
  <2>5. CASE SaveRun(w) \/ (SaveFails(w) /\ age' # age)
    <3>1. /\ run[w] \in Results /\ run[w] \in ever
          /\ age' = AfterSave(run[w]) /\ NowAnswered \subseteq {run[w]}
      BY <1>1, <2>5, WhatIsRemembered
         DEF HandlerInv, HoldsItsRun, SavedWasRun, SaveRun, SaveFails, RunFound
    <3>2. \A r \in NowAnswered : Retained(r)'
      BY <1>1, <3>1, SavedIsRetained DEF Retained
    <3>3. acknowledged' \subseteq ever'
      BY <1>1, <1>3, <2>1, <3>1
    <3>4. RetainedWasRun'
      <4>1. \A r \in Results : Retained(r)' => Retained(r) \/ r = run[w]
        BY <1>1, <3>1 DEF ServiceTypes, AfterSave, Memory!AfterSaving, Memory!Retained, Retained
      <4> QED
        BY <1>1, <2>1, <3>1, <4>1 DEF RetainedWasRun
    <3>5. LostByEviction'
      <4>1. CASE Durable
        <5>1. \A r \in Results : Retained(r) => Retained(r)'
          BY <1>1, <3>1, <4>1, DurableKeeps DEF Retained
        <5> QED
          BY <1>1, <1>2, <1>3, <3>1, <3>2, <4>1, <5>1 DEF LostByEviction
      <4>2. CASE ~ Durable
        <5>1. AgesInARow /\ \A r \in acknowledged : Retained(r) \/ HasOldest
          BY <1>1, <4>2 DEF LostByEviction
        <5>2. /\ AgesInARow' /\ (HasOldest => HasOldest')
              /\ \A r \in Results : Retained(r) => Retained(r)' \/ HasOldest'
          BY <1>1, <1>2, <3>1, <4>2, <5>1, SaveKeepsRow
        <5>3. \A r \in acknowledged' : Retained(r)' \/ HasOldest'
          BY <1>1, <1>3, <3>1, <3>2, <5>1, <5>2
        <5> QED
          BY <1>2, <4>2, <5>2, <5>3 DEF LostByEviction
      <4> QED
        BY <4>1, <4>2
    <3> QED
      BY <1>1, <2>1, <2>2, <2>4, <3>3, <3>4, <3>5 DEF HistoryInv
  <2>6. CASE ~ SaveRun(w) /\ age' = age
    <3>1. \A r \in NowAnswered : Retained(r)
      BY <1>1, <2>6, WhatIsRemembered DEF RunFound
    <3>2. acknowledged' \subseteq ever'
      BY <1>1, <1>3, <2>1, <3>1 DEF RetainedWasRun, Retained
    <3>3. RetainedWasRun'
      BY <1>1, <2>1, <2>6 DEF RetainedWasRun, Retained
    <3>4. LostByEviction'
      BY <1>1, <1>2, <1>3, <2>6, <3>1 DEF LostByEviction, AgesInARow, HasOldest, Retained
    <3> QED
      BY <1>1, <2>1, <2>2, <2>4, <3>2, <3>3, <3>4 DEF HistoryInv
  <2>7. SaveRun(w) \/ SaveFails(w) \/ age' = age
    BY <1>6 DEF Handle, ScenarioUnknown, RunFails, RunFound, RunMissing, ReadFails, ReadForReplay,
       InputUnavailable, Verify, IsReady, IsNotReady
  <2> QED
    BY <2>5, <2>6, <2>7
<1> QED
  BY <1>5, <1>6

\* A restart, a deployment and a migration keep it true.
LEMMA OperateHistoryInv == ASSUME HistoryInv, Operate, Remember PROVE HistoryInv'
<1>1. /\ HandlerInv /\ HandlerInv' /\ ServiceTypes /\ ServiceTypes'
      /\ computed \subseteq ever /\ acknowledged \subseteq ever /\ ever \subseteq Results
      /\ RetainedWasRun /\ ComputedByBuild /\ SavedWasRun /\ LostByEviction
  BY OperateHandlerInv DEF HistoryInv, HandlerInv
<1>2. NowAnswered = {} /\ NowComputed = {} /\ ever' = ever
  BY <1>1, NothingRemembered DEF Remember
<1>3. store' = store /\ (Durable' <=> Durable) /\ MaxRuns \in Nat \ {0}
  BY ServiceAssumption DEF Operate, Start, Stop, Migrate, Durable
<1>4. computed' \subseteq computed /\ acknowledged' \subseteq acknowledged
  BY <1>2 DEF Remember
<1>5. \/ age' = age /\ (Durable => acknowledged' = acknowledged)
      \/ ~ Durable /\ age' = [r \in Results |-> MaxRuns] /\ acknowledged' = {}
  BY <1>2, <1>3 DEF Operate, Start, Stop, Migrate, Remember
<1>6. RetainedWasRun' /\ LostByEviction'
  <2>1. CASE age' = age
    BY <1>1, <1>2, <1>3, <1>4, <2>1
       DEF RetainedWasRun, LostByEviction, AgesInARow, HasOldest, Retained
  <2>2. CASE ~ Durable /\ age' = [r \in Results |-> MaxRuns] /\ acknowledged' = {}
    <3>1. \A r \in Results : ~ Retained(r)'
      BY <1>3, <2>2 DEF Retained
    <3> QED
      BY <1>3, <2>2, <3>1 DEF RetainedWasRun, LostByEviction, AgesInARow
  <2> QED
    BY <1>5, <2>1, <2>2
<1>7. SavedWasRun'
  BY <1>1, <1>2 DEF HandlerInv, ServiceTypes, SavedWasRun, Operate, Start, Stop, Migrate
<1>8. ComputedByBuild'
  BY <1>1, <1>2 DEF ComputedByBuild, Operate, Start, Stop, Migrate, Remember
<1> QED
  BY <1>1, <1>2, <1>4, <1>6, <1>7, <1>8 DEF HistoryInv

\* A request keeps it true.
LEMMA AskHistoryInv ==
  ASSUME HistoryInv, NEW w \in Workers, NEW r \in Requests, Ask(w, r), Remember
  PROVE  HistoryInv'
<1>1. HandlerInv /\ HandlerInv'
  BY AskHandlerInv DEF HistoryInv
<1>2. NowAnswered = {} /\ NowComputed = {}
  BY <1>1, NothingRemembered
<1>3. /\ process' = process /\ build' = build /\ store' = store /\ age' = age /\ run' = run
      /\ process = "serving" /\ (Durable' <=> Durable)
      /\ \A v \in Workers : pc'[v] = "save" => pc[v] = "save"
  BY <1>1 DEF Ask, Durable, HandlerInv, ServiceTypes
<1>4. computed' = computed /\ ever' = ever /\ acknowledged' = acknowledged
  BY <1>2, <1>3 DEF Remember
<1> QED
  BY <1>1, <1>3, <1>4
     DEF HistoryInv, RetainedWasRun, ComputedByBuild, SavedWasRun, LostByEviction, AgesInARow,
         HasOldest, Retained

\* In every run of the service the store is what the history says.
LEMMA HistoryInvariant == ServiceSpec => []HistoryInv
<1>1. HistoryInv /\ [ServiceNext]_serviceVars => HistoryInv'
  <2> SUFFICES ASSUME HistoryInv, [ServiceNext]_serviceVars PROVE HistoryInv'
    OBVIOUS
  <2>1. CASE UNCHANGED serviceVars
    BY <2>1 DEF serviceVars, historyVars, vars, HistoryInv, HandlerInv, ServiceTypes,
       ServesWhatItLoaded, HoldsItsRun, RepliesAtTheEnd, RetainedWasRun, ComputedByBuild,
       SavedWasRun, LostByEviction, AgesInARow, HasOldest, Retained, Durable, Op, Arg
  <2> QED
    BY <2>1, HandleHistoryInv, OperateHistoryInv, AskHistoryInv DEF ServiceNext
<1> QED
  BY InitHistoryInv, <1>1, PTL DEF ServiceSpec

-----------------------------------------------------------------------------
(* The promises of the API.                                                *)

\* The history grows with the service, and whatever is retained was computed for a run
\* request: no replay inserts a replacement.
THEOREM StoreIsHistoryHolds == ServiceSpec => []StoreIsHistory
<1>1. HistoryInv => StoreIsHistory
  BY DEF HistoryInv, HandlerInv, ServiceTypes, Replies, StoreIsHistory, TypeOK
<1> QED
  BY <1>1, HistoryInvariant, PTL

\* A memory store with an oldest run is full.
LEMMA OldestMeansFull == ASSUME ServiceTypes, AgesInARow, HasOldest PROVE StoreIsFull
<1> DEFINE kept == {r \in Results : Retained(r)}
           ageOf == [r \in kept |-> age[r]]
<1>1. /\ MaxRuns \in Nat \ {0} /\ age \in [Results -> 0 .. MaxRuns]
      /\ \A r \in Results : Retained(r) <=> age[r] < MaxRuns
  BY ServiceAssumption DEF ServiceTypes, Retained
<1>2. ageOf \in Bijection(kept, 0 .. MaxRuns - 1)
  <2>1. ageOf \in [kept -> 0 .. MaxRuns - 1]
    BY <1>1
  <2>2. \A r, s \in kept : ageOf[r] = ageOf[s] => r = s
    BY DEF AgesInARow
  <2>3. ASSUME NEW i \in 0 .. MaxRuns - 1 PROVE \E r \in kept : ageOf[r] = i
    <3>1. PICK s \in Results : age[s] = MaxRuns - 1
      BY DEF HasOldest
    <3>2. Retained(s) /\ i \in 0 .. age[s]
      BY <1>1, <3>1
    <3>3. PICK r \in Results : age[r] = i
      BY <3>2 DEF AgesInARow
    <3> QED
      BY <1>1, <3>3
  <2> QED
    BY <2>1, <2>2, <2>3, Fun_IsBij
<1>3. IsFiniteSet(0 .. MaxRuns - 1) /\ Cardinality(0 .. MaxRuns - 1) = MaxRuns
  BY <1>1, FS_Interval
<1>4. ExistsBijection(0 .. MaxRuns - 1, kept)
  BY <1>2, Fun_ExistsBijSymmetric DEF ExistsBijection
<1>5. Cardinality(kept) = MaxRuns
  BY <1>3, <1>4, FS_Bijection
<1> QED
  BY <1>5 DEF StoreIsFull

\* A run that a client was answered with is missing only from a full memory store, and no
\* lookup fails inside a handler.
THEOREM AnswersAreExplainedHold == ServiceSpec => AnswersAreExplained
<1>1. ASSUME HistoryInv, HistoryInv', [ServiceNext]_serviceVars, NEW w \in Workers,
             pc[w] = "handle", reply'[w] = "not_found", Arg(w) \in acknowledged
      PROVE  ~ Durable /\ StoreIsFull
  <2>1. reply[w] = "none"
    BY <1>1 DEF HistoryInv, HandlerInv, RepliesAtTheEnd
  <2>2. RunMissing(w)
    <3>1. PICK v \in Workers : Handle(v)
      BY <1>1, <2>1 DEF ServiceNext, serviceVars, vars, Operate, Start, Stop, Migrate, Ask,
         HistoryInv, HandlerInv, ServiceTypes
    <3>2. v = w
      BY <1>1, <2>1, <3>1, OthersStay DEF HistoryInv
    <3> QED
      BY <1>1, <2>1, <3>1, <3>2
         DEF Handle, Answer, ScenarioUnknown, RunFails, Simulate, SaveRun, RunFound,
             SaveFails, ReadFails, ReadForReplay, InputUnavailable, Verify, IsReady, IsNotReady,
             HistoryInv, HandlerInv, ServiceTypes
  <2>3. ~ Retained(Arg(w))
    BY <2>2 DEF RunMissing
  <2>4. ~ Durable /\ AgesInARow /\ HasOldest
    BY <1>1, <2>3 DEF HistoryInv, LostByEviction
  <2> QED
    BY <1>1, <2>4, OldestMeansFull DEF HistoryInv, HandlerInv
<1>2. ASSUME HistoryInv' PROVE \A w \in Workers : reply'[w] # "internal_error"
  BY <1>2 DEF HistoryInv, HandlerInv, RepliesAtTheEnd
<1>3. HistoryInv /\ HistoryInv' /\ [ServiceNext]_serviceVars =>
        [\A w \in Workers :
           /\ pc[w] = "handle" /\ reply'[w] = "not_found" /\ Arg(w) \in acknowledged
                => ~ Durable /\ StoreIsFull
           /\ reply'[w] # "internal_error"]_serviceVars
  BY <1>1, <1>2
<1> QED
  BY <1>3, HistoryInvariant, PTL DEF ServiceSpec, AnswersAreExplained

\* A run of this process replays and matches.
THEOREM OwnRunsMatchHolds == ServiceSpec => OwnRunsMatch
<1>1. ASSUME HistoryInv, [ServiceNext]_serviceVars, NEW w \in Workers,
             pc[w] = "verify", pc'[w] = "idle", run[w] \in computed
      PROVE  reply'[w] \in {"matches", "dropped"}
  <2>1. /\ ReplayScenario(w) \in Complete(build) /\ build \in Builds /\ run[w] \in Results
        /\ run[w] = simulate(build, ReplayScenario(w))
    BY <1>1 DEF HistoryInv, HandlerInv, ServiceTypes, HoldsItsRun, ComputedByBuild, ReplayScenario
  <2>2. ReplayScenario(w) \in ScenarioIds(build) /\ run[w] \notin Rejected
    BY <2>1, RunOfIdentifier DEF Results
  <2>3. CASE Stop
    BY <1>1, <2>3 DEF Stop
  <2>4. CASE Verify(w)
    BY <1>1, <2>1, <2>2, <2>4 DEF Verify, Answer, HistoryInv, HandlerInv, ServiceTypes
  <2>5. ~ InputUnavailable(w)
    BY <2>2 DEF InputUnavailable
  <2>6. Stop \/ \E v \in Workers : Handle(v)
    BY <1>1 DEF ServiceNext, serviceVars, vars, Operate, Start, Migrate, Ask,
       HistoryInv, HandlerInv, ServiceTypes
  <2>7. ASSUME NEW v \in Workers, Handle(v) PROVE Verify(w)
    <3>1. v = w
      BY <1>1, <2>7, OthersStay DEF HistoryInv
    <3> QED
      BY <1>1, <2>5, <2>7, <3>1
         DEF Handle, ScenarioUnknown, RunFails, Simulate, SaveRun, RunFound,
             SaveFails, RunMissing, ReadFails, ReadForReplay, IsReady, IsNotReady
  <2> QED
    BY <2>3, <2>4, <2>6, <2>7
<1>2. HistoryInv /\ [ServiceNext]_serviceVars =>
        [\A w \in Workers :
           pc[w] = "verify" /\ pc'[w] = "idle" /\ run[w] \in computed
             => reply'[w] \in {"matches", "dropped"}]_serviceVars
  BY <1>1
<1> QED
  BY <1>2, HistoryInvariant, PTL DEF ServiceSpec, OwnRunsMatch

-----------------------------------------------------------------------------
(* The page: its controls and its calls.                                   *)

\* What the attributes are, wherever they were last set.
Shown ==
  /\ disabled["select"]  <=> busy \/ scenarios = {}
  /\ disabled["run"]     <=> busy \/ scenarios = {} \/ selected = Nothing
  /\ disabled["replay"]  <=> busy \/ result = NoRun \/ resultScenarioId # selected
  /\ disabled["refresh"] <=> busy
  /\ disabled["pair"]    <=> busy \/ scenarios = {}
  /\ disabled["compare"] <=> busy \/ \E x \in Sides : pair[x] = Nothing

\* The page is busy with one call, or with none.
OneCall ==
  /\ operations = {} \/ \E op \in operations : operations = {op}
  /\ busy <=> operations # {}

\* A run is of the scenario that is selected, and a replay starts from the result shown.
CallsAreOfPage ==
  \A op \in operations :
    /\ op.kind = "load" => op.worker = NoWorker
    /\ op.kind # "load" => op.scenario \in Names
    /\ op.kind \in {"run", "replay"} => op.scenario = selected
    /\ op.kind = "replay" => /\ op.held = result /\ result \in Results
                             /\ resultScenarioId = op.scenario

\* The thread that a call waits for works on its request, or has its answer.
AnswersAreOfCalls ==
  \A op \in operations : op.worker # NoWorker =>
    /\ pc[op.worker] # "idle" => request[op.worker] = <<"run", op.scenario>>
    /\ pc[op.worker] = "idle" /\ reply[op.worker] = "ok" =>
         /\ body[op.worker] \in Results
         /\ body[op.worker].scenario.scenario_id = op.scenario

\* PostgreSQL has what the page shows, holds or is being sent.
SentIsKept ==
  Durable => /\ result # NoRun => Retained(result)
             /\ \A op \in operations : op.held # NoRun => Retained(op.held)
             /\ \A w \in Workers : body[w] # NoRun => Retained(body[w])

PageInv ==
  /\ HandlerInv
  /\ PageTypeOK
  /\ Shown
  /\ OneCall
  /\ CallsAreOfPage
  /\ AnswersAreOfCalls
  /\ ResultIsOfItsScenario
  /\ SentIsKept

\* The attributes of the controls are Booleans.
LEMMA ControlsAreBooleans ==
  ASSUME NEW a \in BOOLEAN, NEW b \in BOOLEAN, NEW c \in BOOLEAN,
         NEW d \in BOOLEAN, NEW e \in BOOLEAN, NEW f \in BOOLEAN
  PROVE  [select |-> a, run |-> b, replay |-> c, refresh |-> d, pair |-> e, compare |-> f]
           \in [Controls -> BOOLEAN]
BY DEF Controls

\* setBusy sets every attribute.
LEMMA SetBusySetsAll ==
  ASSUME NEW b \in BOOLEAN, SetBusy(b)
  PROVE  busy' = b /\ Shown' /\ disabled' \in [Controls -> BOOLEAN]
<1>1. busy' = b /\ Shown'
  BY DEF SetBusy, Shown
<1>2. /\ (b \/ scenarios' = {}) \in BOOLEAN
      /\ (b \/ scenarios' = {} \/ selected' = Nothing) \in BOOLEAN
      /\ (b \/ result' = NoRun \/ resultScenarioId' # selected') \in BOOLEAN
      /\ (b \/ \E x \in Sides : pair'[x] = Nothing) \in BOOLEAN
  OBVIOUS
<1>3. disabled' \in [Controls -> BOOLEAN]
  BY <1>2, ControlsAreBooleans DEF SetBusy
<1> QED
  BY <1>1, <1>3

\* At the start the page is empty, its catalog not loaded.
LEMMA InitPageInv == ExplorerInit => PageInv
<1> SUFFICES ASSUME ExplorerInit PROVE PageInv
  OBVIOUS
<1>1. HandlerInv
  BY InitHandlerInv DEF ExplorerInit
<1>2. operations = {Call("load", Nothing)} /\ Call("load", Nothing) \in Calls
  BY DEF ExplorerInit, PageInit, Calls, Call
<1>3. PageTypeOK
  BY <1>2 DEF ExplorerInit, PageInit, PageTypeOK
<1>4. Shown
  BY DEF ExplorerInit, PageInit, Shown, Controls
<1>5. OneCall
  BY <1>2 DEF ExplorerInit, PageInit, OneCall
<1>6. CallsAreOfPage /\ AnswersAreOfCalls
  BY <1>2 DEF CallsAreOfPage, AnswersAreOfCalls, Call
<1>7. ResultIsOfItsScenario /\ SentIsKept
  BY <1>2 DEF ExplorerInit, PageInit, ResultIsOfItsScenario, SentIsKept, Call
<1> QED
  BY <1>1, <1>3, <1>4, <1>5, <1>6, <1>7 DEF PageInv

\* Taking a response, or giving it up, is nothing to the handlers.
LEMMA TakeHandlerInv == ASSUME HandlerInv, NEW w, Take(w) PROVE HandlerInv'
BY DEF HandlerInv, ServiceTypes, ServesWhatItLoaded, HoldsItsRun, RepliesAtTheEnd, Take, Replies,
       Op, Arg

\* A step of the page alone leaves the service as it is.
LEMMA SameHandlerInv == ASSUME HandlerInv, UNCHANGED vars PROVE HandlerInv'
BY DEF vars, HandlerInv, ServiceTypes, ServesWhatItLoaded, HoldsItsRun, RepliesAtTheEnd, Op, Arg

\* What no step of the page touches keeps what it was.
LEMMA SamePage ==
  ASSUME PageInv, UNCHANGED pageVars
  PROVE  /\ scenarios' = scenarios /\ selected' = selected /\ pair' = pair /\ result' = result
         /\ resultScenarioId' = resultScenarioId /\ status' = status /\ busy' = busy
         /\ disabled' = disabled /\ Shown' /\ ResultIsOfItsScenario'
BY DEF PageInv, pageVars, Shown, ResultIsOfItsScenario

-----------------------------------------------------------------------------
(* The service moves.                                                      *)

\* A handler goes on: what the page shows and waits for is not disturbed.
LEMMA ServiceStepPageInv ==
  ASSUME PageInv, NEW w \in Workers, ServiceStep(w) PROVE PageInv'
<1>1. /\ HandlerInv /\ HandlerInv' /\ ServiceTypes /\ Handle(w) /\ operations' = operations
      /\ AnswersAreOfCalls /\ SentIsKept
  BY HandleHandlerInv DEF PageInv, HandlerInv, ServiceStep
<1>2. store' = store /\ pc[w] # "idle"
  BY <1>1 DEF Handle, Answer, ScenarioUnknown, RunFails, Simulate, SaveRun, SaveFails, RunMissing,
     RunFound, ReadFails, ReadForReplay, InputUnavailable, Verify, IsReady, IsNotReady
<1>3. \/ body' = body
      \/ /\ body' = [body EXCEPT ![w] = run[w]]
         /\ run[w] \in Results /\ SaveRun(w)
  <2>1. ASSUME pc[w] = "save", reply'[w] = "ok" PROVE run[w] \in Results /\ SaveRun(w)
    BY <1>1, <2>1 DEF HandlerInv, ServiceTypes, HoldsItsRun, Handle, Answer, ScenarioUnknown, RunFails,
       Simulate, SaveFails, RunMissing, RunFound, ReadFails, ReadForReplay, InputUnavailable, Verify,
       IsReady, IsNotReady
  <2> QED
    BY <2>1 DEF ServiceStep
<1>4. Durable => \A r : Retained(r) => Retained(r)'
  <2>1. age' = age \/ (run[w] \in Results /\ age' = AfterSave(run[w]))
    BY <1>1 DEF HandlerInv, HoldsItsRun, Handle, ScenarioUnknown, RunFails, Simulate, SaveRun,
       SaveFails, RunMissing, RunFound, ReadFails, ReadForReplay, InputUnavailable, Verify, IsReady,
       IsNotReady
  <2> QED
    BY <1>1, <2>1, DurableKeeps DEF Retained
<1>5. SaveRun(w) => Retained(run[w]) \/ age'[run[w]] < MaxRuns
  BY <1>1, SavedIsRetained DEF HandlerInv, HoldsItsRun, SaveRun
<1>6. PageTypeOK'
  BY <1>1, <1>3 DEF PageInv, PageTypeOK, ServiceStep, pageVars
<1>7. OneCall' /\ CallsAreOfPage' /\ Shown' /\ ResultIsOfItsScenario'
  BY <1>1, SamePage DEF PageInv, OneCall, CallsAreOfPage, ServiceStep
<1>8. AnswersAreOfCalls'
  <2> SUFFICES ASSUME NEW op \in operations, op.worker # NoWorker
               PROVE  /\ pc'[op.worker] # "idle" => request'[op.worker] = <<"run", op.scenario>>
                      /\ pc'[op.worker] = "idle" /\ reply'[op.worker] = "ok" =>
                           /\ body'[op.worker] \in Results
                           /\ body'[op.worker].scenario.scenario_id = op.scenario
    BY <1>1 DEF AnswersAreOfCalls
  <2>1. op.worker \in Workers /\ body \in [Workers -> Results \cup {NoRun}]
    BY DEF PageInv, PageTypeOK, Calls
  <2>2. CASE op.worker # w
    <3>1. body'[op.worker] = body[op.worker]
      BY <1>3, <2>1, <2>2
    <3> QED
      BY ZenonT(40), <1>1, <2>1, <2>2, <3>1, OthersStay DEF AnswersAreOfCalls
  <2>3. CASE op.worker = w
    <3>1. request[w] = <<"run", op.scenario>> /\ Op(w) = "run" /\ Arg(w) = op.scenario
      BY <1>1, <1>2, <2>3 DEF AnswersAreOfCalls, Op, Arg
    <3>2. pc'[w] # "idle" => request'[w] = request[w]
      BY <1>1, <2>1, <2>3 DEF HandlerInv, ServiceTypes, Handle, Answer, ScenarioUnknown, RunFails,
         Simulate, SaveRun, SaveFails, RunMissing, RunFound, ReadFails, ReadForReplay,
         InputUnavailable, Verify, IsReady, IsNotReady
    <3>3. ASSUME pc'[w] = "idle", reply'[w] = "ok"
          PROVE  body'[w] \in Results /\ body'[w].scenario.scenario_id = op.scenario
      <4>1. SaveRun(w)
        BY <1>1, <3>1, <3>3 DEF HandlerInv, ServiceTypes, RepliesAtTheEnd, Handle, Answer,
           ScenarioUnknown, RunFails, Simulate, SaveFails, RunMissing, RunFound, ReadFails,
           ReadForReplay, InputUnavailable, Verify, IsReady, IsNotReady
      <4>2. body'[w] = run[w]
        BY <2>1, <2>3, <3>3, <4>1 DEF ServiceStep, SaveRun
      <4>3. /\ run[w] \in Results /\ Arg(w) \in Complete(build) /\ build \in Builds
            /\ run[w] = simulate(build, Arg(w))
        BY <1>1, <4>1 DEF HandlerInv, ServiceTypes, HoldsItsRun, SaveRun
      <4> QED
        BY <3>1, <4>2, <4>3, RunOfIdentifier
    <3> QED
      BY <2>3, <3>1, <3>2, <3>3
  <2> QED
    BY <2>2, <2>3
<1>9. SentIsKept'
  <2> SUFFICES ASSUME Durable
               PROVE  /\ result # NoRun => Retained(result)'
                      /\ \A op \in operations : op.held # NoRun => Retained(op.held)'
                      /\ \A v \in Workers : body'[v] # NoRun => body'[v] \in Results /\ age'[body'[v]] < MaxRuns
    BY <1>1, <1>2, SamePage DEF SentIsKept, Durable, ServiceStep, Retained
  <2>1. body \in [Workers -> Results \cup {NoRun}]
    BY DEF PageInv, PageTypeOK
  <2> QED
    BY <1>1, <1>3, <1>4, <1>5, <2>1, SamePage DEF SentIsKept, Retained, ServiceStep
<1> QED
  BY <1>1, <1>6, <1>7, <1>8, <1>9 DEF PageInv

\* A stop or a start of the service is not seen by the page.
LEMMA OperatorStepPageInv == ASSUME PageInv, OperatorStep PROVE PageInv'
<1>1. /\ HandlerInv /\ HandlerInv' /\ ServiceTypes /\ Operate
      /\ operations' = operations /\ body' = body /\ AnswersAreOfCalls /\ SentIsKept
  BY OperateHandlerInv DEF PageInv, HandlerInv, OperatorStep
<1>2. store' = store /\ (Durable => age' = age)
  BY <1>1 DEF Operate, Start, Stop, Migrate
<1>3. PageTypeOK' /\ OneCall' /\ CallsAreOfPage' /\ Shown' /\ ResultIsOfItsScenario'
  BY <1>1, SamePage DEF PageInv, PageTypeOK, OneCall, CallsAreOfPage, OperatorStep
<1>4. \A w \in Workers : \/ pc'[w] = pc[w] /\ request'[w] = request[w] /\ reply'[w] = reply[w]
                         \/ pc'[w] = "idle" /\ (reply'[w] = "dropped" \/ (pc[w] = "idle" /\ reply'[w] = reply[w]))
  BY <1>1 DEF HandlerInv, ServiceTypes, Operate, Start, Stop, Migrate
<1>5. AnswersAreOfCalls'
  <2>1. \A op \in operations : op.worker # NoWorker => op.worker \in Workers
    BY DEF PageInv, PageTypeOK, Calls
  <2> QED
    BY ZenonT(40), <1>1, <1>4, <2>1 DEF AnswersAreOfCalls
<1>6. SentIsKept'
  BY <1>1, <1>2, SamePage DEF SentIsKept, Durable, Retained, OperatorStep
<1> QED
  BY <1>1, <1>3, <1>5, <1>6 DEF PageInv

\* A thread that gets a request has no answer yet.
LEMMA DeliverPageInv ==
  ASSUME PageInv, NEW op \in operations, Deliver(op) PROVE PageInv'
<1>1. PICK w \in Workers : /\ Ask(w, <<"run", op.scenario>>)
                           /\ body' = [body EXCEPT ![w] = NoRun]
                           /\ operations' = (operations \ {op}) \cup {[op EXCEPT !.worker = w]}
  BY DEF Deliver
<1> DEFINE new == [op EXCEPT !.worker = w]
<1>2. /\ op \in Calls /\ new \in Calls /\ new.worker = w /\ new.kind = op.kind
      /\ new.scenario = op.scenario /\ new.held = op.held
  BY DEF PageInv, PageTypeOK, Calls
<1>3. op.kind # "load" /\ UNCHANGED pageVars /\ operations = {op} /\ operations' = {new}
  BY <1>1 DEF Deliver, PageInv, OneCall
<1> HIDE DEF new
<1>4. HandlerInv' /\ ServiceTypes
  <2>1. <<"run", op.scenario>> \in Requests
    BY <1>3 DEF PageInv, CallsAreOfPage, Requests
  <2> QED
    BY <1>1, <2>1, AskHandlerInv DEF PageInv, HandlerInv
<1>5. store' = store /\ age' = age /\ pc'[w] = "handle" /\ request'[w] = <<"run", op.scenario>>
  BY <1>1, <1>4 DEF Ask, ServiceTypes
<1>6. PageTypeOK' /\ OneCall' /\ Shown' /\ ResultIsOfItsScenario'
  BY <1>1, <1>2, <1>3, SamePage DEF PageInv, PageTypeOK, OneCall
<1>7. CallsAreOfPage'
  BY <1>2, <1>3, SamePage DEF PageInv, CallsAreOfPage
<1>8. AnswersAreOfCalls'
  BY <1>2, <1>3, <1>5 DEF AnswersAreOfCalls
<1>9. SentIsKept'
  BY <1>1, <1>2, <1>3, <1>5, SamePage
     DEF PageInv, PageTypeOK, SentIsKept, Durable, Retained
<1> QED
  BY <1>4, <1>6, <1>7, <1>8, <1>9 DEF PageInv

-----------------------------------------------------------------------------
(* The user clicks.                                                        *)

\* A click that starts a call finds none.
LEMMA ClickPageInv ==
  ASSUME PageInv, ~ busy, NEW op \in Calls, Begins(op), SetBusy(TRUE),
         UNCHANGED <<scenarios, selected, pair, result, resultScenarioId>>,
         op.worker = NoWorker,
         op.kind # "load" => op.scenario \in Names,
         op.kind \in {"run", "replay"} => op.scenario = selected,
         op.kind = "replay" => /\ op.held = result /\ result \in Results
                               /\ resultScenarioId = op.scenario,
         op.held = NoRun \/ op.held = result
  PROVE  PageInv'
<1>1. operations = {} /\ operations' = {op} /\ UNCHANGED vars /\ body' = body /\ status' = "loading"
  BY DEF PageInv, OneCall, Begins
<1>2. busy' = TRUE /\ Shown' /\ disabled' \in [Controls -> BOOLEAN]
  BY SetBusySetsAll
<1>3. HandlerInv'
  BY <1>1, SameHandlerInv DEF PageInv
<1>4. PageTypeOK'
  BY <1>1, <1>2 DEF PageInv, PageTypeOK
<1>5. OneCall' /\ CallsAreOfPage' /\ AnswersAreOfCalls'
  BY <1>1, <1>2 DEF OneCall, CallsAreOfPage, AnswersAreOfCalls
<1>6. ResultIsOfItsScenario' /\ SentIsKept'
  BY <1>1 DEF PageInv, ResultIsOfItsScenario, SentIsKept, Durable, Retained, vars
<1> QED
  BY <1>2, <1>3, <1>4, <1>5, <1>6 DEF PageInv

\* The user selects, clicks or refreshes.
LEMMA UserPageInv == ASSUME PageInv, User PROVE PageInv'
<1>1. /\ Nothing \notin Names
      /\ scenarios \subseteq Names /\ selected \in scenarios \cup {Nothing}
      /\ pair \in [Sides -> scenarios \cup {Nothing}]
      /\ result \in Results \cup {NoRun} /\ busy \in BOOLEAN /\ disabled \in [Controls -> BOOLEAN]
  BY ExplorerAssumption DEF PageInv, PageTypeOK
<1>2. CASE ClickRefresh
  <2> DEFINE op == Call("load", selected)
  <2>1. op \in Calls /\ op.kind = "load" /\ op.worker = NoWorker /\ op.held = NoRun
    BY <1>1 DEF Call, Calls
  <2>2. ~ busy
    BY <1>2 DEF PageInv, Shown, ClickRefresh
  <2> QED
    BY <1>2, <2>1, <2>2, ClickPageInv DEF ClickRefresh
<1>3. CASE ClickRun
  <2> DEFINE op == Call("run", selected)
  <2>1. ~ busy /\ selected \in scenarios
    BY <1>3 DEF ClickRun, MayRun
  <2>2. /\ op \in Calls /\ op.kind = "run" /\ op.worker = NoWorker /\ op.held = NoRun
        /\ op.scenario = selected /\ selected \in Names
    BY <1>1, <2>1 DEF Call, Calls
  <2> QED
    BY <1>3, <2>1, <2>2, ClickPageInv DEF ClickRun
<1>4. CASE ClickReplay
  <2> DEFINE op == [Call("replay", selected) EXCEPT !.held = result]
  <2>1. ~ busy /\ selected \in scenarios /\ resultScenarioId = selected /\ result \in Results
    BY <1>1, <1>4 DEF ClickReplay, MayRun, PageInv, Shown
  <2>2. /\ op \in Calls /\ op.kind = "replay" /\ op.worker = NoWorker /\ op.held = result
        /\ op.scenario = selected /\ selected \in Names
    BY <1>1, <2>1 DEF Call, Calls
  <2> QED
    BY <1>4, <2>1, <2>2, ClickPageInv DEF ClickReplay
<1>5. CASE ClickCompare
  <2> DEFINE op == [Call("compare", pair["a"]) EXCEPT !.other = pair["b"]]
  <2>1. ~ busy /\ pair["a"] \in scenarios /\ pair["b"] \in scenarios
    BY <1>5 DEF ClickCompare, Sides
  <2>2. /\ op \in Calls /\ op.kind = "compare" /\ op.worker = NoWorker /\ op.held = NoRun
        /\ op.scenario = pair["a"] /\ pair["a"] \in Names
    BY <1>1, <2>1 DEF Call, Calls
  <2> QED
    BY <1>5, <2>1, <2>2, ClickPageInv DEF ClickCompare
<1>6. ASSUME NEW id \in Names \cup {Nothing},
             ChangeScenario(id) \/ \E x \in Sides : ChangePair(x, id)
      PROVE  PageInv'
  <2>1. /\ operations = {} /\ operations' = {} /\ ~ busy /\ busy' = busy /\ UNCHANGED vars
        /\ body' = body /\ scenarios' = scenarios /\ result' = result /\ status' = status
        /\ resultScenarioId' = resultScenarioId
    BY <1>1, <1>6 DEF PageInv, Shown, OneCall, ChangeScenario, ChangePair
  <2>2. HandlerInv'
    BY <2>1, SameHandlerInv DEF PageInv
  <2>3. Shown'
    <3>1. CASE ChangeScenario(id)
      BY <1>1, <3>1 DEF PageInv, Shown, ChangeScenario, Controls
    <3>2. ASSUME NEW x \in Sides, ChangePair(x, id) PROVE Shown'
      BY <1>1, <3>2 DEF PageInv, Shown, ChangePair, Controls
    <3> QED
      BY <1>6, <3>1, <3>2
  <2>4. disabled' \in [Controls -> BOOLEAN]
    BY <1>1, <1>6 DEF ChangeScenario, ChangePair, Controls
  <2>5. selected' \in scenarios \cup {Nothing} /\ pair' \in [Sides -> scenarios \cup {Nothing}]
    BY <1>1, <1>6 DEF ChangeScenario, ChangePair
  <2>6. PageTypeOK'
    BY <2>1, <2>4, <2>5 DEF PageInv, PageTypeOK
  <2>7. OneCall' /\ CallsAreOfPage' /\ AnswersAreOfCalls'
    BY <2>1 DEF OneCall, CallsAreOfPage, AnswersAreOfCalls
  <2>8. ResultIsOfItsScenario' /\ SentIsKept'
    BY <2>1 DEF PageInv, ResultIsOfItsScenario, SentIsKept, Durable, Retained, vars
  <2> QED
    BY <2>2, <2>3, <2>6, <2>7, <2>8 DEF PageInv
<1> QED
  BY <1>2, <1>3, <1>4, <1>5, <1>6 DEF User

-----------------------------------------------------------------------------
(* A call ends, or goes on to its second run.                              *)

\* What a call that ends leaves behind.
LEMMA EndPageInv ==
  ASSUME PageInv, NEW op \in operations, NEW kind \in {"success", "warning", "error"},
         EndsWith(op, kind), SetBusy(FALSE),
         scenarios' \subseteq Names, selected' \in scenarios' \cup {Nothing},
         pair' \in [Sides -> scenarios' \cup {Nothing}],
         \/ result' = result /\ resultScenarioId' = resultScenarioId
         \/ /\ result' \in Results /\ \E w \in Workers : result' = body[w]
            /\ resultScenarioId' = result'.scenario.scenario_id
  PROVE  PageInv'
<1>1. operations' = {} /\ status' = kind /\ Take(op.worker)
  BY DEF PageInv, OneCall, EndsWith
<1>2. busy' = FALSE /\ Shown' /\ disabled' \in [Controls -> BOOLEAN]
  BY SetBusySetsAll
<1>3. HandlerInv'
  BY <1>1, TakeHandlerInv DEF PageInv
<1>4. PageTypeOK'
  <2>1. resultScenarioId' \in Names \cup {Nothing} /\ result' \in Results \cup {NoRun}
    BY RunsAreOfScenarios DEF PageInv, PageTypeOK
  <2>2. body' \in [Workers -> Results \cup {NoRun}]
    BY <1>1 DEF PageInv, PageTypeOK, Take
  <2> QED
    BY <1>1, <1>2, <2>1, <2>2 DEF PageTypeOK
<1>5. OneCall' /\ CallsAreOfPage' /\ AnswersAreOfCalls'
  BY <1>1, <1>2 DEF OneCall, CallsAreOfPage, AnswersAreOfCalls
<1>6. ResultIsOfItsScenario'
  BY DEF PageInv, ResultIsOfItsScenario
<1>7. SentIsKept'
  <2>1. \A w \in Workers : body'[w] = NoRun \/ body'[w] = body[w]
    BY <1>1 DEF Take
  <2>2. store' = store /\ age' = age
    BY <1>1 DEF Take
  <2> QED
    BY <1>1, <2>1, <2>2 DEF PageInv, SentIsKept, Durable, Retained
<1> QED
  BY <1>2, <1>3, <1>4, <1>5, <1>6, <1>7 DEF PageInv

\* The answer of a call is a run of its scenario.
LEMMA ReceivedIsOfCall ==
  ASSUME PageInv, NEW op \in operations, NEW r, Receives(op, r)
  PROVE  /\ op.worker \in Workers /\ r = body[op.worker] /\ r \in Results
         /\ r.scenario.scenario_id = op.scenario
BY DEF PageInv, PageTypeOK, Calls, Receives, AnswersAreOfCalls

\* The catalog is received.
LEMMA LoadPageInv ==
  ASSUME PageInv, NEW op \in operations, Load(op) \/ LoadFails(op) PROVE PageInv'
<1>1. PICK ids \in SUBSET Names : \E previous : OfferScenarios(ids, previous)
  BY DEF Load, LoadFails, PageInv, HandlerInv, ServiceTypes, Names
<1>2. /\ scenarios' \subseteq Names /\ selected' \in scenarios' \cup {Nothing}
      /\ pair' \in [Sides -> scenarios' \cup {Nothing}]
  <2>1. ids # {} => FirstOf(ids) \in ids
    BY DEF FirstOf
  <2> QED
    BY <1>1, <2>1 DEF OfferScenarios
<1>3. \E kind \in {"success", "warning", "error"} : EndsWith(op, kind)
  BY DEF Load, LoadFails
<1> QED
  BY <1>2, <1>3, EndPageInv DEF Load, LoadFails

\* The response to a run is received and shown.
LEMMA RunPageInv ==
  ASSUME PageInv, NEW op \in operations,
         Run(op) \/ RunFailsOnPage(op) \/ CompareSecond(op) \/ CompareFails(op)
  PROVE  PageInv'
<1>1. /\ scenarios' = scenarios /\ selected' = selected /\ pair' = pair /\ SetBusy(FALSE)
      /\ scenarios \subseteq Names /\ selected \in scenarios \cup {Nothing}
      /\ pair \in [Sides -> scenarios \cup {Nothing}]
  BY DEF Run, RunFailsOnPage, CompareSecond, CompareFails, PageInv, PageTypeOK
<1>2. CASE Run(op)
  <2>1. PICK r \in Results : /\ Receives(op, r) /\ result' = r /\ resultScenarioId' = selected
                             /\ EndsWith(op, Verdict(op, r))
    BY <1>2 DEF Run
  <2>2. op.scenario = selected
    BY <1>2 DEF Run, PageInv, CallsAreOfPage
  <2>3. /\ \E w \in Workers : result' = body[w]
        /\ resultScenarioId' = result'.scenario.scenario_id
    BY <2>1, <2>2, ReceivedIsOfCall
  <2>4. Verdict(op, r) \in {"success", "warning", "error"}
    BY DEF Verdict
  <2> QED
    BY <1>1, <2>1, <2>3, <2>4, EndPageInv
<1>3. CASE RunFailsOnPage(op) \/ CompareSecond(op) \/ CompareFails(op)
  <2>1. /\ \E kind \in {"success", "warning", "error"} : EndsWith(op, kind)
        /\ result' = result /\ resultScenarioId' = resultScenarioId
    BY <1>3 DEF RunFailsOnPage, CompareSecond, CompareFails
  <2> QED
    BY <1>1, <2>1, EndPageInv
<1> QED
  BY <1>2, <1>3

\* The first of the two runs of a comparison is received, and the second is sent.
LEMMA CompareFirstPageInv ==
  ASSUME PageInv, NEW op \in operations, CompareFirst(op) PROVE PageInv'
<1>1. PICK r \in Results :
        /\ Receives(op, r)
        /\ operations' = (operations \ {op}) \cup
             {[Call("compare", op.other) EXCEPT !.held = r]}
  BY DEF CompareFirst
<1> DEFINE new == [Call("compare", op.other) EXCEPT !.held = r]
<1>2. op \in Calls /\ op.other \in Names
  BY DEF PageInv, PageTypeOK, Calls, CompareFirst
<1>3. /\ new \in Calls /\ new.kind = "compare" /\ new.worker = NoWorker /\ new.held = r
      /\ new.scenario = op.other
  BY <1>2 DEF Call, Calls
<1>4. operations' = {new} /\ Take(op.worker) /\ UNCHANGED pageVars /\ operations = {op}
  BY <1>1 DEF CompareFirst, PageInv, OneCall
<1> HIDE DEF new
<1>5. HandlerInv' /\ store' = store /\ age' = age
  BY <1>4, TakeHandlerInv DEF PageInv, Take
<1>6. body' \in [Workers -> Results \cup {NoRun}]
      /\ \A w \in Workers : body'[w] = NoRun \/ body'[w] = body[w]
  BY <1>4 DEF PageInv, PageTypeOK, Take
<1>7. PageTypeOK' /\ OneCall' /\ Shown' /\ ResultIsOfItsScenario'
  BY <1>3, <1>4, <1>6, SamePage DEF PageInv, PageTypeOK, OneCall
<1>8. CallsAreOfPage' /\ AnswersAreOfCalls'
  BY <1>2, <1>3, <1>4 DEF CallsAreOfPage, AnswersAreOfCalls
<1>9. SentIsKept'
  <2>1. r = body[op.worker] /\ op.worker \in Workers /\ r # NoRun
    BY <1>1, ReceivedIsOfCall, NoRunIsNoResult
  <2> QED
    BY <1>3, <1>4, <1>5, <1>6, <2>1, SamePage DEF PageInv, SentIsKept, Durable, Retained
<1> QED
  BY <1>5, <1>7, <1>8, <1>9 DEF PageInv

\* Every step of the page and of the service keeps the invariant.
LEMMA NextPageInv == PageInv /\ [ExplorerNext]_explorerVars => PageInv'
<1> SUFFICES ASSUME PageInv, [ExplorerNext]_explorerVars PROVE PageInv'
  OBVIOUS
<1>1. CASE UNCHANGED explorerVars
  <2>1. HandlerInv'
    BY <1>1, SameHandlerInv DEF PageInv, explorerVars
  <2>2. PageTypeOK' /\ OneCall' /\ CallsAreOfPage' /\ AnswersAreOfCalls' /\ SentIsKept'
    BY <1>1 DEF explorerVars, vars, pageVars, PageInv, PageTypeOK, OneCall, CallsAreOfPage,
       AnswersAreOfCalls, SentIsKept, Durable, Retained
  <2> QED
    BY <1>1, <2>1, <2>2, SamePage DEF PageInv, explorerVars
<1>2. ASSUME NEW op \in operations, Finish(op) \/ Fail(op) PROVE PageInv'
  BY <1>2, LoadPageInv, RunPageInv, CompareFirstPageInv DEF Finish, Fail
<1> QED
  BY <1>1, <1>2, ServiceStepPageInv, OperatorStepPageInv, DeliverPageInv, UserPageInv
     DEF ExplorerNext

\* In every run of the page with the service the invariant holds.
LEMMA PageInvariant == ExplorerSpec => []PageInv
BY InitPageInv, NextPageInv, PTL DEF ExplorerSpec

-----------------------------------------------------------------------------
(* What the page shows.                                                    *)

\* One call at a time, and the page is busy exactly while it lasts.
THEOREM OneStateHolds == ExplorerSpec => []OneState
<1>1. ASSUME PageInv PROVE OneState
  <2>1. Cardinality(operations) <= 1
    <3>1. CASE operations = {}
      BY <3>1, FS_EmptySet
    <3>2. ASSUME NEW op, operations = {op} PROVE Cardinality(operations) = 1
      BY <3>2, FS_Singleton
    <3> QED
      BY <1>1, <3>1, <3>2 DEF PageInv, OneCall
  <2> QED
    BY <1>1, <2>1 DEF PageInv, OneCall, OneState, OneOperation
<1> QED
  BY <1>1, PageInvariant, PTL

\* A result is shown as one of the scenario it was computed for.
THEOREM ResultIsOfItsScenarioHolds == ExplorerSpec => []ResultIsOfItsScenario
<1>1. PageInv => ResultIsOfItsScenario
  BY DEF PageInv
<1> QED
  BY <1>1, PageInvariant, PTL

\* What is enabled does something, and nothing that would be accepted is left disabled.
THEOREM ControlsAreCurrentHold == ExplorerSpec => []ControlsAreCurrent
<1>1. ASSUME PageInv PROVE ControlsAreCurrent
  <2>1. /\ scenarios \subseteq Names /\ selected \in scenarios \cup {Nothing}
        /\ pair \in [Sides -> scenarios \cup {Nothing}] /\ Nothing \notin scenarios
        /\ result \in Results \cup {NoRun} /\ busy \in BOOLEAN
    BY <1>1, ExplorerAssumption DEF PageInv, PageTypeOK
  <2>2. result # NoRun => resultScenarioId # Nothing
    BY <1>1, <2>1, RunsAreOfScenarios, ExplorerAssumption DEF PageInv, ResultIsOfItsScenario
  <2>3. ~ disabled["run"] <=> MayRun(FALSE)
    BY <1>1, <2>1 DEF PageInv, Shown, MayRun
  <2>4. ~ disabled["replay"] <=> MayRun(TRUE) /\ result # NoRun
    BY <1>1, <2>1, <2>2 DEF PageInv, Shown, MayRun
  <2>5. ~ disabled["compare"] <=> ~ busy /\ \A x \in Sides : pair[x] \in scenarios
    BY <1>1, <2>1 DEF PageInv, Shown
  <2>6. ~ disabled["select"] <=> ~ busy /\ scenarios # {}
    BY <1>1, <2>1 DEF PageInv, Shown
  <2> QED
    BY <2>3, <2>4, <2>5, <2>6 DEF ControlsAreCurrent
<1> QED
  BY <1>1, PageInvariant, PTL

\* What the page shows is in PostgreSQL, whatever is given up, retried or restarted.
THEOREM ShownRunsAreKeptHold == ExplorerSpec => []ShownRunsAreKept
<1>1. PageInv => ShownRunsAreKept
  BY DEF PageInv, SentIsKept, ShownRunsAreKept
<1> QED
  BY <1>1, PageInvariant, PTL

\* A mismatch is shown only of two different runs of one scenario.
THEOREM MismatchMeansChangeHolds == ExplorerSpec => MismatchMeansChange
<1>1. ASSUME PageInv, [ExplorerNext]_explorerVars, status # "warning", status' = "warning"
      PROVE  /\ result.scenario.scenario_id = result'.scenario.scenario_id
             /\ result' # result
  <2>1. PICK op \in operations : Run(op)
    BY <1>1 DEF ExplorerNext, explorerVars, pageVars, ServiceStep, OperatorStep, Deliver, Finish,
       Fail, Load, CompareFirst, CompareSecond, LoadFails, RunFailsOnPage, CompareFails, EndsWith,
       User, ClickRefresh, ClickRun, ClickReplay, ClickCompare, Begins, ChangeScenario, ChangePair
  <2>2. PICK r \in Results : Receives(op, r) /\ result' = r /\ status' = Verdict(op, r)
    BY <2>1 DEF Run, EndsWith
  <2>3. op.kind = "replay" /\ op.held # r
    BY <1>1, <2>2 DEF Verdict
  <2>4. op.held = result /\ result \in Results /\ resultScenarioId = op.scenario
    BY <1>1, <2>3 DEF PageInv, CallsAreOfPage
  <2>5. result.scenario.scenario_id = op.scenario
    BY <1>1, <2>4, NoRunIsNoResult DEF PageInv, ResultIsOfItsScenario
  <2>6. r.scenario.scenario_id = op.scenario
    BY <1>1, <2>2, ReceivedIsOfCall
  <2> QED
    BY <2>2, <2>3, <2>4, <2>5, <2>6
<1>2. PageInv /\ [ExplorerNext]_explorerVars =>
        [status # "warning" /\ status' = "warning"
           => /\ result.scenario.scenario_id = result'.scenario.scenario_id
              /\ result' # result]_explorerVars
  BY <1>1
<1> QED
  BY <1>2, PageInvariant, PTL DEF ExplorerSpec, MismatchMeansChange
=============================================================================
