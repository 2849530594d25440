SPECIFICATION Spec
CONSTANTS
  emma = emma
  alan = alan
  mona = mona
  api1 = api1
  api2 = api2
  worker = worker
  se = se
  sa1 = sa1
  sa2 = sa2
  r1 = r1
  r2 = r2
  None = None
  Users = {emma, alan, mona}
  Role <- MCRole
  Categories = {}
  Priorities = {"LOW"}
  DefaultPriority <- MCDefaultPriority
  ReopenWindowDays = 7
  AutoCloseAfterDays = 3
  Processes = {api1, api2, worker}
  Worker = worker
  Sockets = {se, sa1, sa2}
  OwnerOf <- MCOwnerOf
  HeldBy <- MCHeldBy
  Requests = {r1, r2}
  DedupTicks = 1
  Deployments <- SmallDeployments
INVARIANTS
  ToldOnce
  StatusAnnouncedOnce
  NothingHidden
  BadgeRight
  OpenPagesAreTold
CHECK_DEADLOCK FALSE
