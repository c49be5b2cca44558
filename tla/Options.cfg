SPECIFICATION FairSpec
CONSTANTS
  s1 = s1
  s2 = s2
  s3 = s3
  Strategies = {s1, s2, s3}
  ByChat = {s1}
  TwoSteps = {s2}
  Template <- MCTemplate
  Legs <- MCLegs
  Lots <- MCLots
  Margin <- MCMargin
  Premiums = {1200, 2400}
  HalfSpread = 6
  Tick = 5
  Brokerage = 236
  Rate <- MCRate
  RateBase = 1000
  MaxTries = 2
INVARIANTS
  OneFillPerLeg
  ShortIsMargined
  ActiveIsWhole
  BasisMatchesCash
PROPERTIES
  MarginStopsAtActive
  AccountIsFreed
CHECK_DEADLOCK FALSE
