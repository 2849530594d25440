SPECIFICATION Spec
CONSTANTS
  emma = emma
  alan = alan
  beth = beth
  mona = mona
  t1 = t1
  t2 = t2
  net = net
  None = None
  Users = {emma, alan, beth, mona}
  Role <- MCRole
  Categories = {net}
  Priorities = {"LOW", "URGENT"}
  DefaultPriority <- MCDefaultPriority
  ReopenWindowDays = 2
  AutoCloseAfterDays = 1
  Tickets = {t1, t2}
  Deployments <- SmallDeployments
  SlaTicks <- MCSlaTicks
  Scores = {1, 5}
  EditTicks = 1
  AskedWindows <- MCAskedWindows
  DefaultWindow = 2
  MonthTicks = 2
  CacheTTL = 2
  Skill <- MCSkill
  LastLogin <- MCLastLogin
  BusinessTicks = {0, 2}
  NameOrder <- MCNameOrder
  SuggestMaxLoad = 1
  SuggestTopN = 1
  DutyTicks = 2
INVARIANTS
  PausesMeasured
  RatedTheResolver
  OverviewCoherent
  ServedFresh
  BestAgentsFirst
CHECK_DEADLOCK FALSE
