CONSTANTS
  Workers = {w1, w2}
  Builds         <- ThreeBuilds
  engine_version <- EngineOfThree
  snapshot_files <- SnapshotsOfThree
  scenario_files <- ScenariosOfThree
  Rejected       <- ThirdScenarioOfSecondEngine
  Stores         <- BothStores
  MaxRuns = 1
SPECIFICATION ServiceSpec
SYMMETRY AnyWorker
INVARIANT
  StoreIsHistory
PROPERTIES
  AnswersAreExplained
  OwnRunsMatch
