SPECIFICATION Spec
CONSTANTS
  shell = shell
  grep = grep
  topic = topic
  edit = edit
  turn = turn
  aside = aside
  Calls = {shell, grep, topic, edit}
  Requests = {turn}
  BatchOf <- FourInOne
  TopicCalls = {topic}
  SerialCalls = {topic, edit}
  SandboxCalls = {}
  MaxTails = 1
  MaxExpansions = 0
  HostCancels = {"cancelAll", "both"}
  LateOutput = TRUE
INVARIANTS
  SerialCallsRunAlone
  ModifiesOwnCall
PROPERTIES
  DenialStopsQueue
  TerminalStable
CHECK_DEADLOCK FALSE
