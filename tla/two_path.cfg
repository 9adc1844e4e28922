CONSTANTS
  Components  <- TwoPathComponents
  component   <- TwoPathComponent
  Connections <- TwoPathConnections
  connection  <- TwoPathConnection
  Scenarios   <- TwoPathScenarios
  MAX_TIMELINE_SEGMENTS = 10000
  MAX_TELEMETRY_POINTS  = 250000
  MAX_TRANSITIONS       = 10000
SPECIFICATION Spec
INVARIANTS
  TypeOK
  NoInternalFault
  AlarmsAreTrue
  BatteryAccounting
  SummaryIsCurrent
  UnconsumedOnlyAtHorizon
  MetricsAgree
