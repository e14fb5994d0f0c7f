CONSTANTS
  Scenarios <- smallScenarios
  Secrets <- mcSecrets
  Bytes <- Byte
  Split <- shamir_split
  Combine <- shamir_combine
SPECIFICATION Spec
INVARIANT RestoreIsWhole
CHECK_DEADLOCK FALSE
