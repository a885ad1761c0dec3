SPECIFICATION Spec
CONSTANTS
  MaxMessages = 4
  MaxOps = 5
  MaxFaults = 2
  Tears = TRUE
INVARIANTS
  TypeOK
  Recoverable
PROPERTIES
  NoEmptySession
  ResumedAsItWas
CHECK_DEADLOCK FALSE
