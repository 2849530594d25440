SPECIFICATION FairSpec
CONSTANTS
  t1 = t1
  t2 = t2
  w1 = w1
  w2 = w2
  None = None
  Tickets = {t1, t2}
  Categories = {"security", "hardware"}
  Texts <- SmallTexts
  Threshold = 60
  Workers = {w1, w2}
  Deployments <- EitherDeployment
  BatchSize = 1
INVARIANTS
  AppliedIsRecorded
  CorrectionsCurrent
  AccuracyTruthful
PROPERTIES
  DecidedOnce
  EveryTicketDecided
CHECK_DEADLOCK FALSE
