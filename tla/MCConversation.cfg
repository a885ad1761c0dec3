SPECIFICATION Spec
CONSTANTS
  MaxQueries = 3
  MaxAttempts = 2
  MaxCompressions = 1
  MaxContexts = 1
CONSTRAINT Followed
INVARIANTS
  TypeOK
  AtRest
  ReportedOnce
  Paired
CHECK_DEADLOCK FALSE
