\* The surroundings the slack is made for: Drift + MaxQueryDelay + MaxRefetchLag
\* = Slack, no rejected tokens, a cap that is not reached.
SPECIFICATION FairSpec
CONSTANTS
  Small = Small
  Big = Big
  NoIssue = NoIssue
  Other = Other
  w1 = w1
  w2 = w2
  Issues <- TwoIssues
  Truncated <- MCTruncated
  Workers <- OneWorker
  PageSize = 1
  MaxIssuesPerRun = 9
  Minute = 2
  Slack = 2
  Drift = 1
  MaxQueryDelay = 1
  MaxRefetchLag = 0
  StaleTokens = FALSE
  MaxTime = 4
  MaxVersions = 2
  MaxFaults = 1
INVARIANT TypeOK
PROPERTIES SearchSeesStale ImplementsMirror
