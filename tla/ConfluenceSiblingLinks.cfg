\* Two pages that link to each other, ingested by two runs.
SPECIFICATION Spec
CONSTANTS
  Home = Home
  Guide = Guide
  Team = Team
  Product = Product
  w1 = w1
  w2 = w2
  NoPage = NoPage
  NoSpace = NoSpace
  Pages <- TwoPages
  Spaces <- OneSpace
  SpaceOf <- InTeam
  LinksOf <- EachOther
  Workers <- OneWorker
  ListLimit = 1
  MaxPagesPerRun = 9
  Slack = 1
  Drift <- OneBehind
  MaxFetchLag = 1
  MissingSpaces = FALSE
  MaxTime = 4
  MaxVersions = 2
  MaxFaults = 0
PROPERTY LinksToIndexed
