\* One space of two pages, listed one at a time; bodies within the slack.
SPECIFICATION FairSpec
CONSTANTS
  Home = Home
  Guide = Guide
  Team = Team
  Product = Product
  w1 = w1
  w2 = w2
  NoPage = NoPage
  NoSpace = NoSpace
  Pages <- TwoPages
  Spaces <- OneSpace
  SpaceOf <- InTeam
  LinksOf <- EachOther
  Workers <- OneWorker
  ListLimit = 1
  MaxPagesPerRun = 9
  Slack = 1
  Drift <- OneBehind
  MaxFetchLag = 1
  MissingSpaces = FALSE
  MaxTime = 5
  MaxVersions = 2
  MaxFaults = 1
PROPERTIES ListingSeesStale ImplementsMirror
