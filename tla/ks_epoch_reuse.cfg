CONSTANTS
  HwAnchor = TRUE
  MaxVersion = 2
  MaxEpoch = 2
SPECIFICATION Spec
INVARIANT CountedSaveStays
CHECK_DEADLOCK FALSE
