SPECIFICATION Spec
CONSTANTS
  j1 = j1
  j2 = j2
  w1 = w1
  w2 = w2
  alice = alice
  NoOne = NoOne
  Jobs = {j1, j2}
  Workers = {w1, w2}
  Requester <- OneSystemJob
  Priority <- Urgent2
  Bulk = {}
  Reporting = {j1}
  Requested <- OneAttempt
  PolicyMax = 2
  MaxBulk = 0
  Fairness = FALSE
  SkipLocked = TRUE
  Operator = TRUE
  Prompt = FALSE
  LeaseTime = 1
  RetryDelay = 1
  Retention = 0
  AttemptCap = 1
INVARIANT IndInv
PROPERTIES ImplementsJobLife
CHECK_DEADLOCK FALSE
SYMMETRY AnyWorker
