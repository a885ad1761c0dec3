SPECIFICATION FairSpec
CONSTANTS
  shell = shell
  grep = grep
  topic = topic
  edit = edit
  turn = turn
  aside = aside
  Calls = {shell, grep, edit}
  Requests = {turn, aside}
  BatchOf <- TwoAndOne
  TopicCalls = {}
  SerialCalls = {edit}
  SandboxCalls = {shell}
  MaxTails = 0
  MaxExpansions = 1
  HostCancels = {"signal", "cancelAll", "both"}
  LateOutput = FALSE
PROPERTIES
  KeepsBatchContract
  CancelledSettles
  EveryScheduleSettles
CHECK_DEADLOCK FALSE
