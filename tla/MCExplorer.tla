----------------------------- MODULE MCExplorer -----------------------------
(***************************************************************************)
(* A page over a release and its successor, which revises the first        *)
(* fixture and drops the second, if there are two.                         *)
(***************************************************************************)
EXTENDS ExplorerProperties

Fixture(id, rev) == [scenario_id |-> id, snapshot_id |-> "S", revision |-> rev, valid |-> TRUE]

TwoBuilds == 1 .. 2
OneEngine == [b \in TwoBuilds |-> 1]
OneSnapshot == [b \in TwoBuilds |-> {[snapshot_id |-> "S", revision |-> 1, valid |-> TRUE]}]
TwoScenarios == << {Fixture("A", 1), Fixture("B", 1)}, {Fixture("A", 2)} >>
OneScenario  == << {Fixture("A", 1)}, {Fixture("A", 2)} >>
NoneRejected == {}
PostgresOnly == {"postgres"}
=============================================================================
