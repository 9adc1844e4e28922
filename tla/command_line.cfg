CONSTANTS
  w1 = w1
  w2 = w2
  w3 = w3
  r1 = r1
  Writers   <- ThreeWriters
  Readers   <- OneReader
  forced    <- FirstForced
  Results   <- ThreeResults
  result_of <- ResultOf
  oversized <- LastResult
SPECIFICATION Spec
CHECK_DEADLOCK FALSE
INVARIANTS
  TargetIsWhole
  OutcomeIsTrue
  VerdictIsTrue
PROPERTY
  EarlierResultSurvives
