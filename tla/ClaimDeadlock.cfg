CONSTANTS
  a1 = a1
  a2 = a2
  b1 = b1
  b2 = b2
  w1 = w1
  w2 = w2
  NoWorker = NoWorker
  Tasks <- FourTasks
  Tenants <- TwoTenants
  Workers <- TwoWorkers
  tenant_id <- tenant_of
  max_concurrent_tasks <- OneEach
  priority <- PriorityOf
  scan <- ScanOf
  Capabilities <- Written
  normalise <- lower
  Blank = ""
  with_comma <- Commas
  join <- joined
  required_capabilities <- RequiredOf
  worker_capabilities <- OfferedBy
  MAX_KEYED_CLAIM_CAPABILITIES = 2
  claim_batch_size = 2
  MAX_ROUNDS = 2
SPECIFICATION Spec
CHECK_DEADLOCK FALSE
INVARIANT NoCircularWait
