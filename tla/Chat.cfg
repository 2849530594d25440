SPECIFICATION FairSpec
CONSTANTS
  k1 = k1
  k2 = k2
  s1 = s1
  s2 = s2
  x1 = x1
  x2 = x2
  None = None
  Asks = {k1, k2}
  ChatSessions = {s1, s2}
  Articles = {x1, x2}
  Providers = 2
  MaxAttempts = 2
  Budget = 4
  MaxTokens = 2
  Deployments <- SmallDeployments
INVARIANTS
  EventsInOrder
  AnswersKept
  RestsOnComparable
  CountTruthful
  SpendBounded
PROPERTY
  EveryAskEnds
CHECK_DEADLOCK FALSE
