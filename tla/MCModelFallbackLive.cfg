SPECIFICATION FairSpec
CONSTANTS
  pro = pro
  flash = flash
  lite = lite
  custom = custom
  none = none
  turn = turn
  agent = agent
  utility = utility
  Pro = pro
  Flash = flash
  Lite = lite
  NoModel = none
  Customs = {}
  Main = {turn}
  Agents = {}
  Utilities = {utility}
  Keys <- LiteAndPro
  Initially = "auto"
  UserModels = {flash}
  Errors = {"terminal", "transient"}
  PlanModes = {FALSE}
  Hosts = {"tui_low", "a2a"}
  Interactive = TRUE
  MaxSends = 1
  MaxBreaks = 0
  MaxSwitches = 1
  DefaultAttempts = 2
  ProAttempts = 1
  FlashAttempts = 1
PROPERTIES
  AbortedRequestEnds
  TurnEnds
CHECK_DEADLOCK FALSE
