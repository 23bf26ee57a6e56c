SPECIFICATION PartsSpec
CONSTANTS
  Principals = {"p1", "p2"}
  Requests = {1, 2, 3}
  Limit = 2
  Window = 2
  Padding = 2
  MaxDelay = 1
  Never = Never
  MaxTime = 4
  MaxMishaps = 1
  Raws = {"t1", "t2"}
  Callers = {1, 2}
  NoTime = NoTime
  Revokers = {1, 2}
  MaxStatements = 10
  Browsers = {"b1", "b2"}
  States = {"s1", "s2"}
  TTL = 2
  LastTick = 3
  MaxRestarts = 1
  Inputs = {"x", "y"}
  Blank = ""
  MaxSearches = 3
  TextCount = 3
  BatchSize = 2
  MaxRetries = 2
  Lookups = {1, 2, 3}
  DimOf <- MCDimOf
  CacheTTL = 2
  MaxLag = 1
  LastHour = 4
  MaxChanges = 2
  Sources <- MCSources
  SourceOf <- MCSourceOf
  Indexes <- MCIndexes
  Queries <- MCQueries
  CandidateSize = 2
  MaxTicketKeys = 2
  VectorWeight = 6
  FTSWeight = 4
  Boost <- MCBoost
  MaxTokens = 4
  OverlapTokens = 2
  IssueTexts <- MCIssueTexts
  PageTexts <- MCPageTexts
  Strings <- MCStrings
  Posts <- MCPosts
  Tools = {"search", "ask", "list_projects"}
  ListTools = {"list_projects"}
  AnswererConfigured = TRUE
  Ids = {1, 2, 3, 4}
  Initially = 3
  Reachable = {1, 3, 4}
  Workers = {"w1", "w2"}
  PageSize = 2
  MaxFailures = 1
  Pushed = {"r1", "r2", "r3"}
  Issues = {"A", "B"}
  Batches <- MCBatches
  MaxBatch = 3
  MaxPushFaults = 2
CHECK_DEADLOCK FALSE
INVARIANTS
  OneSessionPerLogin
  RefusalsHaveACause
  LimitHolds
  RefusedForOwnWindow
  RevocationBinds
  ShownAnswersLastTyped
  SearchingIsWaiting
  HitsAreSound
  BestAreListed
  ChunksCoverText
  ChunksAreBounded
  EachRequestHasItsAnswer
  VectorsMeetTexts
  RetriesEnd
  ServedIsUsable
  TextSurvives
  UnreportedIsDone
