\* Jira may reject the token of the second page; clocks agree, answers are instant.
SPECIFICATION FairSpec
CONSTANTS
  Small = Small
  Big = Big
  NoIssue = NoIssue
  Other = Other
  w1 = w1
  w2 = w2
  Issues <- TwoIssues
  Truncated <- MCTruncated
  Workers <- OneWorker
  PageSize = 1
  MaxIssuesPerRun = 9
  Minute = 2
  Slack = 2
  Drift = 0
  MaxQueryDelay = 0
  MaxRefetchLag = 0
  StaleTokens = TRUE
  MaxTime = 4
  MaxVersions = 2
  MaxFaults = 1
PROPERTY SearchSeesStale
