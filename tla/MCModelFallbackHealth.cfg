SPECIFICATION Spec
CONSTANTS
  pro = pro
  flash = flash
  lite = lite
  custom = custom
  none = none
  turn = turn
  agent = agent
  utility = utility
  Pro = pro
  Flash = flash
  Lite = lite
  NoModel = none
  Customs = {custom}
  Main = {turn}
  Agents = {}
  Utilities = {utility}
  Keys <- AllPro
  Initially = custom
  UserModels = {"auto"}
  Errors = {"transient", "server", "terminal"}
  PlanModes = {TRUE, FALSE}
  Hosts = {"none", "tui_low", "tui_full"}
  Interactive = TRUE
  MaxSends = 1
  MaxBreaks = 1
  MaxSwitches = 1
  DefaultAttempts = 2
  ProAttempts = 1
  FlashAttempts = 2
INVARIANTS
  TypeOK
  RetriedOncePerTurn
  CustomModelIsKept
PROPERTIES
  TerminalHolds
  OverridesMoveOn
CHECK_DEADLOCK FALSE
