CONSTANTS
  NumSlots = 2
  MAX_P11_SESSIONS = 3
  MAX_SESSIONS = 2
  MAX_SECRETS = 2
  Gens = 2
  MaxParts = 2
  Scenarios <- mcScenarios
SPECIFICATION Spec
INVARIANTS HandleReachesItsKey PartsUnlessCut NothingOutlivesItsSession
INVARIANTS AeadUsesChosenKey CoreSessionsOwned
PROPERTY TouchesOneSlot TokenKeepsKeySlots
