SPECIFICATION Spec
CONSTANTS
  shell = shell
  grep = grep
  topic = topic
  edit = edit
  turn = turn
  aside = aside
  Calls = {shell, grep, edit}
  Requests = {turn, aside}
  BatchOf <- TwoAndOne
  TopicCalls = {}
  SerialCalls = {edit}
  SandboxCalls = {shell}
  MaxTails = 1
  MaxExpansions = 1
  HostCancels = {"signal", "both"}
  LateOutput = FALSE
INVARIANTS
  TypeOK
  OneResultPerCall
  RunsOnlyApproved
  NothingOutlivesBatch
PROPERTIES
  NoStartAfterReport
CHECK_DEADLOCK FALSE
