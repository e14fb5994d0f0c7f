CONSTANTS
  t1 = t1
  t2 = t2
  Threads <- MCOneThread
  NumSlots = 1
  MAX_SESSIONS = 1
  HSM_PIN_MAX_FAILS = 1
  KeyKinds <- MCAllKeys
  PersistHook = TRUE
  RngMayFail = TRUE
  KdrMayFail = TRUE
  SaveMayFail = TRUE
  MayCrash = TRUE
  MaxGen = 1
  MaxKeys = 2
  MaxOpens = 1
SPECIFICATION Spec
INVARIANTS StrayKeysUnreachable FailsMeanLocked 
PROPERTY ImplementsKeySlots TornSlotIsInert
