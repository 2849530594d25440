SPECIFICATION SessionsSpec
CONSTANTS
  u1 = u1
  u2 = u2
  u3 = u3
  r1 = r1
  r2 = r2
  None = None
  Users = {u1, u2, u3}
  FirstAdmin = u1
  Roles = {"EMPLOYEE", "IT_AGENT", "ADMIN"}
  MaxInFlight = 2
  Requests = {r1, r2}
  Deployments <- SmallDeployments
  Owners = {u2}
  MaxTokens = 3
  MaxExpired = 1
  MaxAttempts = 1
SYMMETRY Symmetry
INVARIANTS
  AdminLostOnlyBySkew
  SessionsEnd
  OneSessionPerLogin
  AttemptsBounded
CHECK_DEADLOCK FALSE
