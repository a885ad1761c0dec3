SPECIFICATION Spec
CONSTANTS
  MaxQueries = 2
  MaxAttempts = 1
  MaxCompressions = 0
  MaxContexts = 0
CONSTRAINT Followed
PROPERTY BatchAnswered
CHECK_DEADLOCK FALSE
