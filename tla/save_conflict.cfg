CONSTANTS
  Workers = {w1, w2}
  Runs        <- TwoRuns
  snapshot_of <- OneSnapshot
  scenario_of <- TwoScenarios
SPECIFICATION Spec
INVARIANT
  EverySaveSucceeds
