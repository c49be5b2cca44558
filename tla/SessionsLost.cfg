SPECIFICATION Spec
CONSTANTS
  buy = buy
  sale = sale
  limit = limit
  listing = listing
  Sessions = {"loop", "worker"}
  Orders = {buy, sale, limit, listing}
  Resting = {limit}
  Listings = {listing}
  Cashflow <- MCCashflow
  Seed = 10
INVARIANT LedgerReplaysAcrossSessions
CHECK_DEADLOCK FALSE
