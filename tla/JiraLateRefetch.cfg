\* Clocks agree, answers are instant, tokens are good; but a worker re-fetches a
\* truncated issue up to three ticks (slack: two) after the search.
SPECIFICATION FairSpec
CONSTANTS
  Small = Small
  Big = Big
  NoIssue = NoIssue
  Other = Other
  w1 = w1
  w2 = w2
  Issues <- TwoIssues
  Truncated <- MCTruncated
  Workers <- OneWorker
  PageSize = 1
  MaxIssuesPerRun = 9
  Minute = 2
  Slack = 2
  Drift = 0
  MaxQueryDelay = 0
  MaxRefetchLag = 3
  StaleTokens = FALSE
  MaxTime = 5
  MaxVersions = 2
  MaxFaults = 1
PROPERTY SearchSeesStale
