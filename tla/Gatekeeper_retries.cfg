SPECIFICATION Spec
CONSTANTS
  Callers = {c1, c2}
  Costs = {1}
  Window = 2
  RequestsPerMinute = 1
  TokensPerMinute = 3
  ConcurrentMax = 1
  QueueMaxSize = 2
  MaxRetries = 1
  MaxBudget = 4
  Transient = TRUE
  MayShutDown = FALSE
INVARIANTS RequestsWithinRate
CHECK_DEADLOCK FALSE
