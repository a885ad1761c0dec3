SPECIFICATION FairSpec
CONSTANTS
  build = build
  server = server
  none = none
  pid1 = pid1
  Execs = {build, server}
  Pids = {pid1}
  None = none
  Origins = {"tool", "tool_bg", "user"}
  Behaviors = {"silent", "notify", "inject"}
INVARIANTS
  TypeOK
  OwnListeners
  AnnouncedOnce
  CardsLearnOfExits
  NothingLeftBehind
PROPERTIES
  AbortedReturns
CHECK_DEADLOCK FALSE
