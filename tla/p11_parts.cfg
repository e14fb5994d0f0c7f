CONSTANTS
  NumSlots = 1
  MAX_P11_SESSIONS = 1
  MAX_SESSIONS = 1
  MAX_SECRETS = 1
  Gens = 2
  MaxParts = 2
  Scenarios <- partsScenarios
SPECIFICATION Spec
INVARIANT SignsItsParts
