----------------------------- MODULE RunService -----------------------------
(***************************************************************************)
(* The HTTP API (api.py): handlers in threads, over one run store and the  *)
(* catalog of the build that is deployed.  The store is one of the two     *)
(* abstract ones, RecentRuns or RunStore, that the modules MemoryRunStore  *)
(* and PostgresRunStore are shown to implement: each call takes effect at  *)
(* one instant.                                                            *)
(*                                                                         *)
(* Faults: the process stops at any point and starts with any build; every *)
(* statement to PostgreSQL may fail, and a save that fails may have stored *)
(* its run.  A build that cannot load its fixtures does not start.         *)
(***************************************************************************)
EXTENDS ReferenceCatalog, Naturals

CONSTANTS
  Workers,  \* the threads that serve requests
  Stores,   \* the stores of a deployment: "memory", and "postgres" when DC_TWIN_DATABASE_URL is set
  MaxRuns,  \* max_runs of the memory store
  Rejected  \* computations that end in a DCTwinError

ASSUME ServiceAssumption ==
  /\ Stores \subseteq {"memory", "postgres"}
  /\ MaxRuns \in Nat \ {0}

Names == UNION {ScenarioIds(b) : b \in Builds}

Complete(b) == {id \in ScenarioIds(b) : HasSnapshot(b, ScenarioFile(b, id))}

Computations == UNION {{simulate(b, id) : id \in Complete(b)} : b \in Builds}

Results == Computations \ Rejected

NoRun == [engine |-> "none"]
NoRequest == <<"none", "none">>

VARIABLES
  process,  \* "serving" or "stopped"
  build,    \* the build that is deployed
  store,    \* the store that the deployment is configured with
  schema,   \* the tables of the database exist
  age,      \* age[r]: MaxRuns when run r is not retained, as in RecentRuns
  pc,       \* pc[w]: where w is in its handler
  request,  \* request[w]: what w serves
  run,      \* run[w]: the result that the handler of w holds
  reply     \* reply[w]: how its last request ended

vars == <<process, build, store, schema, age, pc, request, run, reply>>

Durable == store = "postgres"

Memory == INSTANCE RecentRuns WITH Runs <- Results, phase <- pc, task <- request, answer <- reply

Retained(r) == r \in Results /\ age[r] < MaxRuns

Requests ==
  ({"run"} \X Names) \cup ({"get", "replay"} \X Computations) \cup {<<"ready", "store">>}

Op(w)  == request[w][1]
Arg(w) == request[w][2]

-----------------------------------------------------------------------------
Init ==
  /\ process = "stopped"
  /\ build \in Builds
  /\ store \in Stores
  /\ schema = FALSE
  /\ age = [r \in Results |-> MaxRuns]
  /\ pc = [w \in Workers |-> "idle"]
  /\ request = [w \in Workers |-> NoRequest]
  /\ run = [w \in Workers |-> NoRun]
  /\ reply = [w \in Workers |-> "none"]

\* _lifespan: load raises when the fixtures are not sound, and the process exits.
Start(b) ==
  /\ process = "stopped"
  /\ build' = b
  /\ process' = IF Loads(b) THEN "serving" ELSE "stopped"
  /\ UNCHANGED <<store, schema, age, pc, request, run, reply>>

\* The process exits, whatever its threads are doing; the memory store goes with it.
Stop ==
  /\ process = "serving"
  /\ process' = "stopped"
  /\ pc' = [w \in Workers |-> "idle"]
  /\ request' = [w \in Workers |-> NoRequest]
  /\ run' = [w \in Workers |-> NoRun]
  /\ reply' = [w \in Workers |-> IF pc[w] = "idle" THEN reply[w] ELSE "dropped"]
  /\ age' = IF Durable THEN age ELSE [r \in Results |-> MaxRuns]
  /\ UNCHANGED <<build, store, schema>>

\* The migration job creates the tables.
Migrate ==
  /\ Durable
  /\ ~ schema
  /\ schema' = TRUE
  /\ UNCHANGED <<process, build, store, age, pc, request, run, reply>>

Ask(w, r) ==
  /\ process = "serving"
  /\ pc[w] = "idle"
  /\ pc' = [pc EXCEPT ![w] = "handle"]
  /\ request' = [request EXCEPT ![w] = r]
  /\ reply' = [reply EXCEPT ![w] = "none"]
  /\ UNCHANGED <<process, build, store, schema, age, run>>

Answer(w, status) ==
  /\ pc' = [pc EXCEPT ![w] = "idle"]
  /\ request' = [request EXCEPT ![w] = NoRequest]
  /\ run' = [run EXCEPT ![w] = NoRun]
  /\ reply' = [reply EXCEPT ![w] = status]
  /\ UNCHANGED <<process, build, store, schema>>

\* A statement to the store can be answered, or can fail.
StoreAnswers == Durable => schema
StoreFails   == Durable

-----------------------------------------------------------------------------
(* run_reference_scenario *)

ScenarioUnknown(w) ==
  /\ pc[w] = "handle"
  /\ Op(w) = "run"
  /\ Arg(w) \notin ScenarioIds(build)
  /\ Answer(w, "unknown_scenario")
  /\ UNCHANGED age

Completes(w) == Arg(w) \in Complete(build) /\ simulate(build, Arg(w)) \notin Rejected

\* snapshot_for raises a KeyError that no handler catches, or simulate a DCTwinError.
RunFails(w) ==
  /\ pc[w] = "handle"
  /\ Op(w) = "run"
  /\ Arg(w) \in ScenarioIds(build)
  /\ ~ Completes(w)
  /\ Answer(w, IF Arg(w) \in Complete(build) THEN "rejected" ELSE "internal_error")
  /\ UNCHANGED age

Simulate(w) ==
  /\ pc[w] = "handle"
  /\ Op(w) = "run"
  /\ Arg(w) \in ScenarioIds(build)
  /\ Completes(w)
  /\ run' = [run EXCEPT ![w] = simulate(build, Arg(w))]
  /\ pc' = [pc EXCEPT ![w] = "save"]
  /\ UNCHANGED <<process, build, store, schema, age, request, reply>>

\* The retained runs once r is saved.
AfterSave(r) == IF Durable THEN [age EXCEPT ![r] = 0] ELSE Memory!AfterSaving(r)

\* Mutant: the result is returned although the store has not confirmed it.
SaveUnconfirmed(w) ==
  /\ pc[w] = "save"
  /\ age' \in {age, AfterSave(run[w])}
  /\ Answer(w, "ok")

SaveRun(w) ==
  /\ pc[w] = "save"
  /\ StoreAnswers
  /\ age' = AfterSave(run[w])
  /\ Answer(w, "ok")

SaveFails(w) ==
  /\ pc[w] = "save"
  /\ StoreFails
  /\ \/ age' = age
     \/ StoreAnswers /\ age' = AfterSave(run[w])
  /\ Answer(w, "store_error")

-----------------------------------------------------------------------------
(* get_run, telemetry_csv and replay_run *)

RunMissing(w) ==
  /\ pc[w] = "handle"
  /\ Op(w) \in {"get", "replay"}
  /\ StoreAnswers
  /\ ~ Retained(Arg(w))
  /\ Answer(w, "not_found")
  /\ UNCHANGED age

RunFound(w) ==
  /\ pc[w] = "handle"
  /\ Op(w) = "get"
  /\ StoreAnswers
  /\ Retained(Arg(w))
  /\ Answer(w, "ok")
  /\ UNCHANGED age

ReadFails(w) ==
  /\ pc[w] = "handle"
  /\ Op(w) \in {"get", "replay"}
  /\ StoreFails
  /\ Answer(w, "store_error")
  /\ UNCHANGED age

ReadForReplay(w) ==
  /\ pc[w] = "handle"
  /\ Op(w) = "replay"
  /\ StoreAnswers
  /\ Retained(Arg(w))
  /\ run' = [run EXCEPT ![w] = Arg(w)]
  /\ pc' = [pc EXCEPT ![w] = "verify"]
  /\ UNCHANGED <<process, build, store, schema, age, request, reply>>

\* Mutant: the replay runs the first fixture on the snapshot of the run.
ReplayOnSnapshot(w) == CHOOSE id \in ScenarioIds(build) : TRUE

\* The fixture is chosen by its identifier, not by the hash of the run's scenario.
ReplayScenario(w) == run[w].scenario.scenario_id

InputUnavailable(w) ==
  /\ pc[w] = "verify"
  /\ ReplayScenario(w) \notin ScenarioIds(build)
  /\ Answer(w, "unavailable")
  /\ UNCHANGED age

\* Mutant: the replay is saved like a run.
VerifyAndSave(w) ==
  /\ pc[w] = "verify"
  /\ ReplayScenario(w) \in ScenarioIds(build)
  /\ simulate(build, ReplayScenario(w)) \notin Rejected
  /\ age' = AfterSave(simulate(build, ReplayScenario(w)))
  /\ Answer(w, IF simulate(build, ReplayScenario(w)) = run[w] THEN "matches" ELSE "mismatch")

\* verify_replay
Verify(w) ==
  /\ pc[w] = "verify"
  /\ ReplayScenario(w) \in ScenarioIds(build)
  /\ \E actual \in {simulate(build, ReplayScenario(w))} :
       Answer(w, IF actual \in Rejected THEN "rejected"
                 ELSE IF actual = run[w] THEN "matches" ELSE "mismatch")
  /\ UNCHANGED age

-----------------------------------------------------------------------------
(* health_ready: the memory store is always ready, PostgreSQL when SELECT 1 succeeds *)

IsReady(w) ==
  /\ pc[w] = "handle"
  /\ Op(w) = "ready"
  /\ Answer(w, "ready")
  /\ UNCHANGED age

IsNotReady(w) ==
  /\ pc[w] = "handle"
  /\ Op(w) = "ready"
  /\ StoreFails
  /\ Answer(w, "not_ready")
  /\ UNCHANGED age

-----------------------------------------------------------------------------
Handle(w) ==
  \/ ScenarioUnknown(w) \/ RunFails(w) \/ Simulate(w)
  \/ SaveRun(w) \/ SaveFails(w)
  \/ RunMissing(w) \/ RunFound(w) \/ ReadFails(w) \/ ReadForReplay(w)
  \/ InputUnavailable(w) \/ Verify(w)
  \/ IsReady(w) \/ IsNotReady(w)

Operate == (\E b \in Builds : Start(b)) \/ Stop \/ Migrate

Next ==
  \/ Operate
  \/ \E w \in Workers : Handle(w) \/ \E r \in Requests : Ask(w, r)

Spec == Init /\ [][Next]_vars
=============================================================================
