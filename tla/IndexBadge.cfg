SPECIFICATION Spec
CONSTANTS
  a1 = a1
  a2 = a2
  r1 = r1
  r2 = r2
  w1 = w1
  w2 = w2
  None = None
  Articles = {a1}
  Requests = {r1, r2}
  Workers = {w1}
  Deployments <- OneWorker
  MaxQueue = 1
  MaxFaults = 0
INVARIANTS
  BadgeTruthful
CHECK_DEADLOCK FALSE
