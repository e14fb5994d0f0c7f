CONSTANTS
  t1 = t1
  t2 = t2
  Threads <- MCTwoThreads
  NumSlots = 1
  MAX_SESSIONS = 2
  HSM_PIN_MAX_FAILS = 2
  KeyKinds <- MCSoftKeys
  PersistHook = TRUE
  RngMayFail = FALSE
  KdrMayFail = FALSE
  SaveMayFail = FALSE
  MayCrash = TRUE
  MaxGen = 0
  MaxKeys = 0
  MaxOpens = 2
SPECIFICATION Spec
INVARIANT PinGuessBound
