CONSTANTS
  first = first
  retry = retry
  lower = lower
  other = other
  keyless = keyless
  NoKey = NoKey
  Tasks <- FiveSubmissions
  Tenants <- OneTenant
  tenant_id <- tenant_of
  idempotency_key <- KeyOf
  payload <- PayloadOf
  parameters <- ParametersOf
  max_queued_tasks <- OneEach
  global_queue_shed_threshold = 2
  pool_size = 2
  commits_first = FALSE
SPECIFICATION Spec
CHECK_DEADLOCK FALSE
INVARIANTS
  TypeOK
  OneTaskPerKey
  AnswersAreTrue
  BacklogBounded
PROPERTIES
  EverySubmissionIsAnswered
  SheddingEnds
