SPECIFICATION Spec
CONSTANTS
  first = first
  second = second
  none = none
  Ops = {first, second}
  None = none
  Kinds = {"extension", "stop_extension", "restart", "restart_server", "stop"}
  LastVersion = 1
  Breaks = TRUE
CONSTRAINT OneAtATime
SYMMETRY Symmetry
INVARIANTS
  TypeOK
  ContextFresh
  CurrentTools
  DiscoveryCompletes
CHECK_DEADLOCK FALSE
