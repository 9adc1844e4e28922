----------------------------- MODULE MCService -----------------------------
(***************************************************************************)
(* A release; one with a new engine, without the second fixture and with a *)
(* third one that it rejects; and one whose fixture names a snapshot that  *)
(* it does not carry.                                                      *)
(***************************************************************************)
EXTENDS ServiceProperties, TLC

Snapshot(id) == [snapshot_id |-> id, revision |-> 1, valid |-> TRUE]
Scenario(id, snapshot, rev) ==
  [scenario_id |-> id, snapshot_id |-> snapshot, revision |-> rev, valid |-> TRUE]

ThreeBuilds == 1 .. 3
EngineOfThree    == <<1, 2, 1>>
SnapshotsOfThree == [b \in ThreeBuilds |-> {Snapshot("S")}]
ScenariosOfThree ==
  << {Scenario("A", "S", 1), Scenario("B", "S", 1)},
     {Scenario("A", "S", 1), Scenario("C", "S", 1)},
     {Scenario("A", "S", 1), Scenario("B", "T", 1)} >>

ThirdScenarioOfSecondEngine ==
  {[engine |-> 2, snapshot |-> Snapshot("S"), scenario |-> Scenario("C", "S", 1)]}

AnyWorker == Permutations(Workers)

BothStores == {"memory", "postgres"}
=============================================================================
