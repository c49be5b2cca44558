SPECIFICATION Spec
CONSTANTS
  OrderIds = {o1, o2, o3}
  Symbols = {s1}
  s1 = s1
  s2 = s2
  Groups = {g1}
  Requests <- MCRequests
  Brackets <- MCBrackets
  Prices <- MCPrices
  SeedCapital = 66
  FlatCharge = 11
  BuyRate = 1
  SellRate = 1
  RateUnit = 10
  None = None
SYMMETRY OrderSymmetry
INVARIANTS
  TypeOK
  CashIdentity
  LongOnly
  LedgerReplays
  ReserveIsHeldByOrders
  FillsExplainBook
  BracketExitsOnce
PROPERTIES
  TerminalIsFinal
  OnlySalesOverdraw
  LimitBuyKeepsItsCash
  ImplementsCashBook
CHECK_DEADLOCK FALSE
