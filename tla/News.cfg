SPECIFICATION FairSpec
CONSTANTS
  s1 = s1
  wire = wire
  post = post
  Specs = {s1}
  Articles = {wire, post}
  Source <- MCSource
  Story <- MCStory
  Says <- MCSays
  Portfolios <- MCPortfolios
  Lookback = 0
  BatchSize = 2
  DbAhead = 1
  MaxTime = 2
  MaxCrashes = 1
  None = None
INVARIANTS
  RunsAreAudited
  AuditMatchesState
  EvidenceIsDurable
  NoMissedFire
PROPERTIES
  CancelLostOnlyInFlight
  QueueDrains
  WindowCloses
CHECK_DEADLOCK FALSE
