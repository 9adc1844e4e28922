-------------------------- MODULE ReferenceCatalog --------------------------
(***************************************************************************)
(* ReferenceCatalog (reference.py): the fixtures that a build of the       *)
(* program carries, the rules under which it loads them, and what they     *)
(* make simulate compute.  A build is an engine version with its files.    *)
(*                                                                         *)
(* A fixture file is its identifiers, a revision for the rest of its       *)
(* content, and whether its parser accepts it.  Hashes are taken to be     *)
(* injective: the hash of a file is the file, and the hash of a result is  *)
(* the engine version and the files it was computed from.                  *)
(***************************************************************************)
CONSTANTS
  Builds,
  engine_version,  \* engine_version[b]
  snapshot_files,  \* snapshot_files[b]: a set of [snapshot_id, revision, valid]
  scenario_files   \* scenario_files[b]: a set of [scenario_id, snapshot_id, revision, valid]

ASSUME BuildsAssumption ==
  /\ DOMAIN engine_version = Builds
  /\ DOMAIN snapshot_files = Builds
  /\ DOMAIN scenario_files = Builds
  /\ \A b \in Builds :
       /\ \A f \in snapshot_files[b] : DOMAIN f = {"snapshot_id", "revision", "valid"}
       /\ \A f \in scenario_files[b] :
            DOMAIN f = {"scenario_id", "snapshot_id", "revision", "valid"}

LoadsSnapshots(b) ==
  /\ snapshot_files[b] # {}
  /\ \A f \in snapshot_files[b] : f.valid
  /\ \A f, g \in snapshot_files[b] : f.snapshot_id = g.snapshot_id => f = g

HasSnapshot(b, scenario) == \E g \in snapshot_files[b] : g.snapshot_id = scenario.snapshot_id

LoadsScenarios(b) ==
  /\ scenario_files[b] # {}
  /\ \A f \in scenario_files[b] : f.valid /\ HasSnapshot(b, f)
  /\ \A f, g \in scenario_files[b] : f.scenario_id = g.scenario_id => f = g

\* The build starts.
Loads(b) == LoadsSnapshots(b) /\ LoadsScenarios(b)

ScenarioIds(b) == {f.scenario_id : f \in scenario_files[b]}

ScenarioFile(b, id) == CHOOSE f \in scenario_files[b] : f.scenario_id = id

snapshot_for(b, scenario) ==
  CHOOSE g \in snapshot_files[b] : g.snapshot_id = scenario.snapshot_id

\* The computation hash of the result, when simulate returns one.
simulate(b, id) ==
  LET scenario == ScenarioFile(b, id)
  IN  [engine   |-> engine_version[b],
       snapshot |-> snapshot_for(b, scenario),
       scenario |-> scenario]
=============================================================================
