\* Anything goes: slow answers, late re-fetches, rejected tokens, a cap of two.
SPECIFICATION Spec
CONSTANTS
  Small = Small
  Other = Other
  Big = Big
  w1 = w1
  w2 = w2
  NoIssue = NoIssue
  Issues <- ThreeIssues
  Truncated <- MCTruncated
  Workers <- TwoWorkers
  PageSize = 1
  MaxIssuesPerRun = 2
  Minute = 2
  Slack = 1
  Drift = 1
  MaxQueryDelay = 2
  MaxRefetchLag = 2
  StaleTokens = TRUE
  MaxTime = 4
  MaxVersions = 1
  MaxFaults = 2
SYMMETRY Interchangeable
INVARIANT PartsInOrder
PROPERTIES WatermarkEarned WatermarkMonotone
