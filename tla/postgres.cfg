CONSTANTS
  Workers = {w1, w2, w3}
  Runs        <- TwoRuns
  snapshot_of <- OneSnapshot
  scenario_of <- OneScenario
SPECIFICATION FairSpec
INVARIANTS
  SavedIsKept
  RowsBelongToRuns
  ConflictIsSettled
PROPERTIES
  ConflictLosesNothing
  ImplementsRunStore
  EverySaveReturns
