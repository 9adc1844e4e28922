CONSTANTS
  Workers = {w1, w2}
  Builds         <- TwoBuilds
  engine_version <- OneEngine
  snapshot_files <- OneSnapshot
  scenario_files <- TwoScenarios
  Rejected       <- NoneRejected
  Stores         <- PostgresOnly
  MaxRuns = 2
SPECIFICATION ExplorerSpec
INVARIANTS
  OneState
  ResultIsOfItsScenario
  ControlsAreCurrent
  ShownRunsAreKept
PROPERTIES
  MismatchMeansChange
  PageRecovers
