CONSTANTS
  Texts     <- SmallTexts
  loaded    <- Loaded
  dumped    <- Dumped
  KeyOrder  <- TwoKeys
  NonFinite <- NotFinite
SPECIFICATION Spec
CHECK_DEADLOCK FALSE
INVARIANT
  HashIsTheValue
