SPECIFICATION Spec
CONSTANTS
  j1 = j1
  j2 = j2
  w1 = w1
  w2 = w2
  alice = alice
  NoOne = NoOne
  Jobs = {j1}
  Workers = {w1, w2}
  Requester <- SameRequester
  Priority <- Even
  Bulk = {}
  Reporting = {j1}
  Requested <- MixedBudget
  PolicyMax = 2
  MaxBulk = 1
  Fairness = TRUE
  SkipLocked = FALSE
  Operator = TRUE
  Prompt = TRUE
  LeaseTime = 2
  RetryDelay = 1
  Retention = 2
  AttemptCap = 2
INVARIANT OneWorkerPerRow
CHECK_DEADLOCK FALSE
