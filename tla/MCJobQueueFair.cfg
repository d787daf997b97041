SPECIFICATION FairSpec
CONSTANTS
  j1 = j1
  j2 = j2
  w1 = w1
  w2 = w2
  alice = alice
  NoOne = NoOne
  Jobs = {j1, j2}
  Workers = {w1, w2}
  Requester <- OneSystemJob
  Priority <- Even
  Bulk = {j1, j2}
  Reporting = {}
  Requested <- MixedBudget
  PolicyMax = 2
  MaxBulk = 1
  Fairness = TRUE
  SkipLocked = FALSE
  Operator = FALSE
  Prompt = TRUE
  LeaseTime = 2
  RetryDelay = 1
  Retention = 1
  AttemptCap = 2
INVARIANT BulkCap
PROPERTY EveryJobSettles
