SPECIFICATION Spec
CONSTANTS
  e1 = e1
  a1 = a1
  a2 = a2
  m1 = m1
  c1 = c1
  t1 = t1
  t2 = t2
  None = None
  Users = {a1, a2}
  Role <- MCRoleOf
  Tickets = {t1}
  Categories = {c1}
  Priorities <- MCPriorities
  DefaultPriority <- MCDefaultPriority
  ReopenWindowDays = 1
  AutoCloseAfterDays = 1
  MaxVersion = 3
  MaxDay = 0
  MaxInFlight = 2
PROPERTIES
  NoLostUpdate
  AiLeavesClassified
  AtomicSpec
CHECK_DEADLOCK FALSE
