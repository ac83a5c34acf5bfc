CONSTANTS
  t1 = t1
  w1 = w1
  w2 = w2
  NoWorker = NoWorker
  Tasks <- OneTask
  Workers <- TwoWorkers
  max_attempts <- Budget2
  capacity = 2
  MaxClaims = 2
  DbFaults = FALSE
SPECIFICATION Spec
CHECK_DEADLOCK FALSE
INVARIANT
  OwnedCoversHeldWork
