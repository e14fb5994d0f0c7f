CONSTANTS
  t1 = t1
  t2 = t2
  Threads <- MCTwoThreads
  NumSlots = 1
  MAX_SESSIONS = 2
  HSM_PIN_MAX_FAILS = 2
  KeyKinds <- MCSoftKeys
  PersistHook = FALSE
  RngMayFail = FALSE
  KdrMayFail = FALSE
  SaveMayFail = FALSE
  MayCrash = FALSE
  MaxGen = 1
  MaxKeys = 2
  MaxOpens = 2
SPECIFICATION Spec
SYMMETRY MCSymmetry
INVARIANTS InUseIsTransient UseReachesItsKey LoginIsOwn
PROPERTY KeyGoneMovesGeneration
