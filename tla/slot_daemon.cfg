CONSTANTS
  t1 = t1
  t2 = t2
  Threads <- MCOneThread
  NumSlots = 1
  MAX_SESSIONS = 2
  HSM_PIN_MAX_FAILS = 3
  KeyKinds <- MCSoftKeys
  PersistHook = TRUE
  RngMayFail = FALSE
  KdrMayFail = FALSE
  SaveMayFail = FALSE
  MayCrash = TRUE
  MaxGen = 2
  MaxKeys = 2
  MaxOpens = 2
SPECIFICATION Spec
INVARIANTS ZeroizeEndsLogins QuietMeansDurable PinGuessBound UseReachesItsKey
