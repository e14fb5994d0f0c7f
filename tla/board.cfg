SPECIFICATION Spec
CONSTANTS
  Scenarios <- mcScenarios
  NKeys = 1
  Words = 2
  SymSlots = {0}
  MaxSeeds = 2
INVARIANTS SeedNeverMixed ReplyIsOwn NoInheritedSymKey DaemonNeverHangs
CHECK_DEADLOCK FALSE
