CONSTANTS
  Components  <- SharedComponents
  component   <- SharedComponent
  Connections <- SharedConnections
  connection  <- SharedConnection
  States      <- SharedStates
SPECIFICATION Spec
INVARIANTS
  FlowIsSound
  LiveSourcesFirst
  SummaryIsSound
  PriorityIsKept
PROPERTY
  TakesTheMinCut
