CONSTANTS
  t1 = t1
  w1 = w1
  w2 = w2
  NoWorker = NoWorker
  Tasks <- OneTask
  Workers <- TwoWorkers
  max_attempts <- Budget2
  capacity = 1
  MaxClaims = 3
  DbFaults = FALSE
SPECIFICATION FairSpec
CHECK_DEADLOCK FALSE
PROPERTIES
  EveryAttemptEnds
  EveryTaskSettles
