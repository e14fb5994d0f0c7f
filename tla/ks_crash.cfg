CONSTANTS
  HwAnchor = FALSE
  MaxVersion = 2
  MaxEpoch = 3
SPECIFICATION FairSpec
INVARIANTS NeverBricked AckedSurvives OldSnapshotRefused
PROPERTIES StartsAgain ImplementsAtomicStore
