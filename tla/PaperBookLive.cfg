SPECIFICATION FairSpec
CONSTANTS
  OrderIds = {o1, o2}
  Symbols = {s1}
  s1 = s1
  s2 = s2
  Groups = {g1}
  Requests <- MCRequests
  Brackets <- MCBrackets
  Prices <- MCPrices
  SeedCapital = 30
  FlatCharge = 2
  BuyRate = 1
  SellRate = 1
  RateUnit = 10
  None = None
PROPERTIES
  QueuedMarketSettles
CHECK_DEADLOCK FALSE
