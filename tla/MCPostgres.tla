----------------------------- MODULE MCPostgres -----------------------------
(***************************************************************************)
(* Threads that save two runs of one snapshot: of one scenario, by two     *)
(* engine versions, so that they share both parents, or of two scenarios.  *)
(***************************************************************************)
EXTENDS PostgresProperties

TwoRuns == 1 .. 2
OneSnapshot  == [r \in TwoRuns |-> 1]
OneScenario  == [r \in TwoRuns |-> 1]
TwoScenarios == [r \in TwoRuns |-> r]
=============================================================================
