SPECIFICATION FairSpec
CONSTANTS
  t1 = t1
  t2 = t2
  w1 = w1
  w2 = w2
  a1 = a1
  m1 = m1
  None = None
  DayLength = 4
  StartTime = 1
  EndTime = 3
  WeekLength = 3
  Workdays = {0, 1}
  Holidays = {1}
  Tickets = {t1, t2}
  Agents = {a1}
  Admins = {m1}
  Workers = {w1, w2}
  Priorities = {"URGENT", "HIGH", "LOW"}
  Policy <- MCPolicy
  DedupWindow = 1
  BusinessZone = 1
  MonitorZone = 1
  MaxTime = 3
  MaxVersion <- MCMaxVersion
  Deployments <- SmallDeployments
INVARIANTS
  BusinessTimeCounted
  ReportedOnce
  AdminsToldOfBreach
PROPERTIES
  MarksAreDue
  EveryBreachReported
CHECK_DEADLOCK FALSE
