SPECIFICATION FairSpec
CONSTANTS
  finish = finish
  grep = grep
  edit = edit
  Calls <- ThreeCalls
  Completing = {finish}
  MaxTurns = 2
  Budget = 2
  Grace = 1
  MaxThrows = 1
INVARIANTS
  AbortedByUser
CHECK_DEADLOCK FALSE
