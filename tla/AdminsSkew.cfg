SPECIFICATION Spec
CONSTANTS
  u1 = u1
  u2 = u2
  u3 = u3
  None = None
  Users = {u1, u2, u3}
  FirstAdmin = u1
  Roles = {"EMPLOYEE", "IT_AGENT", "ADMIN"}
  MaxInFlight = 2
INVARIANT
  AdminRemains
CHECK_DEADLOCK FALSE
