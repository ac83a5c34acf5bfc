CONSTANTS
  w1 = w1
  l1 = l1
  l2 = l2
  Workers <- OneWorker
  Leases <- TwoLeases
  lease_owner <- OwnedByOne
  capacity = 2
  late <- SecondLease
  lease_ttl_s = 4
  lease_renew_interval_s = 1
  heartbeat_interval_s = 1
  worker_dead_after_s = 3
  reaper_period_s = 1
  batch_size = 1
  max_batches_per_sweep = 1
  pause_budget = 1
  transaction_time = 1
  MaxSkips = 1
SPECIFICATION Spec
INVARIANTS
  TypeOK
  NoNeedlessExpiry
  LiveWorkerNotMarkedDead
  RecoveryIsTimely
  SilenceIsNoticed
