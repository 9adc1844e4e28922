CONSTANTS
  Components  <- SwitchedComponents
  component   <- SwitchedComponent
  Connections <- SwitchedConnections
  connection  <- SwitchedConnection
  Scenarios   <- SwitchedScenarios
  MAX_TIMELINE_SEGMENTS = 10000
  MAX_TELEMETRY_POINTS  = 250000
  MAX_TRANSITIONS       = 10000
SPECIFICATION FairSpec
INVARIANTS
  TimelineIsTrue
  WithinEstimate
  RunningIsAvailable
  SwitchingFollowsSchedule
PROPERTIES
  ImplementsSchedule
  Terminates
