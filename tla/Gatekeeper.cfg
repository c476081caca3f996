SPECIFICATION FairSpec
CONSTANTS
  Callers = {c1, c2}
  Costs <- AllCosts
  Window = 2
  RequestsPerMinute = 2
  TokensPerMinute = 6
  ConcurrentMax = 1
  QueueMaxSize = 1
  MaxRetries = 1
  MaxBudget = 9
  Transient = TRUE
  MayShutDown = TRUE
INVARIANTS TypeOK SlotsConserved PaidBeforeGranted GrantsWithinRates OnePlace RetryAfterExact RequestsBounded
PROPERTIES CallsAdmitted EveryCallReturns
CHECK_DEADLOCK FALSE
