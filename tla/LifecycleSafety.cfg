CONSTANTS
  t1 = t1
  w1 = w1
  w2 = w2
  NoWorker = NoWorker
  Tasks <- OneTask
  Workers <- TwoWorkers
  max_attempts <- Budget2
  capacity = 2
  MaxClaims = 3
  DbFaults = TRUE
SYMMETRY WorkerSymmetry
SPECIFICATION Spec
CHECK_DEADLOCK FALSE
INVARIANTS
  TypeOK
  LedgerAgrees
  ResultIsTheOwners
  OwnerHoldsTheToken
  BudgetOnlyExceededByAbandon
  LogReplaysToState
  HandedBackMeansStopped
PROPERTIES
  StaleFinishIsHarmless
  ExpiredLeaseStaysLost
  ImplementsStateMachine
