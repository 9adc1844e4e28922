CONSTANTS
  Workers = {w1, w2}
  Runs    = {r1, r2, r3, r4}
  MaxRuns <- TwoRetained
SPECIFICATION Spec
INVARIANT
  StoreIsBounded
PROPERTY
  ImplementsRecentRuns
