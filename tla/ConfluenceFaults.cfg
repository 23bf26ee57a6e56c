\* Two spaces, of which one may not resolve, two workers, a cap of two pages, slow
\* bodies and two faults.
SPECIFICATION Spec
CONSTANTS
  Home = Home
  Guide = Guide
  Team = Team
  Product = Product
  w1 = w1
  w2 = w2
  NoPage = NoPage
  NoSpace = NoSpace
  Pages <- TwoPages
  Spaces <- TwoSpaces
  SpaceOf <- InTeam
  LinksOf <- EachOther
  Workers <- TwoWorkers
  ListLimit = 2
  MaxPagesPerRun = 2
  Slack = 1
  Drift = 0
  MaxFetchLag = 2
  MissingSpaces = TRUE
  MaxTime = 3
  MaxVersions = 2
  MaxFaults = 2
INVARIANT TypeOK
PROPERTY WatermarkEarned
SYMMETRY SameWorkers
