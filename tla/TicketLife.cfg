SPECIFICATION Spec
CONSTANTS
  e1 = e1
  a1 = a1
  a2 = a2
  m1 = m1
  c1 = c1
  t1 = t1
  t2 = t2
  None = None
  Users = {e1, a1}
  Role <- MCRoleOf
  Tickets = {t1}
  Categories = {}
  Priorities <- MCMediumOnly
  DefaultPriority <- MCMediumDefault
  ReopenWindowDays = 1
  AutoCloseAfterDays = 1
  MaxVersion = 6
  MaxDay = 2
  MaxInFlight = 2
INVARIANTS
  RowsConsistent
  JournalExplainsRow
PROPERTY
  AutoCloseOnlyDue
CHECK_DEADLOCK FALSE
