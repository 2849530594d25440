SPECIFICATION FairSpec
CONSTANTS
  a1 = a1
  a2 = a2
  r1 = r1
  r2 = r2
  w1 = w1
  w2 = w2
  None = None
  Articles = {a1, a2}
  Requests = {r1}
  Workers = {w1, w2}
  Deployments <- SmallDeployments
  MaxQueue = 1
  MaxFaults = 1
INVARIANTS
  ChunksWhole
  WithdrawnIsForgotten
  BadgeTruthfulAlone
PROPERTY
  PublishedGetsIndexed
CHECK_DEADLOCK FALSE
