CONSTANTS
  Scenarios <- mcScenarios
  Secrets <- mcSecrets
  Bytes <- Byte
  Split <- shamir_split
  Combine <- shamir_combine
SPECIFICATION Spec
INVARIANTS SealedStaysHome QuorumBringsBack FewSharesTellNothing
PROPERTY InjectTakesInjectable
CHECK_DEADLOCK FALSE
