SPECIFICATION Spec
CONSTANTS
  j1 = j1
  j2 = j2
  w1 = w1
  w2 = w2
  alice = alice
  NoOne = NoOne
  Jobs = {j1, j2}
  Workers = {w1, w2}
  Requester <- SameRequester
  Priority <- Even
  Bulk = {}
  Reporting = {j1}
  Requested <- MixedBudget
  PolicyMax = 2
  MaxBulk = 1
  Fairness = TRUE
  SkipLocked = FALSE
  Operator = FALSE
  Prompt = FALSE
  LeaseTime = 1
  RetryDelay = 1
  Retention = 0
  AttemptCap = 2
INVARIANTS LeaseCoherent HolderIsAtWork OpenAttemptIsBeingMade HistoryExplainsOutcome
PROPERTY FinishedStaysFinished
SYMMETRY AnyWorker
CHECK_DEADLOCK FALSE
