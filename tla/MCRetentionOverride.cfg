SPECIFICATION RetentionSpec
CONSTANTS
  Voters = {v1, v2}
  Proposals = {p1}
  Passes = {nightly, button}
  MinimumQuorum = 1
  WidenQuorum = 2
  MaxAnswers = 2
INVARIANT RecordsTellWhatWasSet
CHECK_DEADLOCK FALSE
