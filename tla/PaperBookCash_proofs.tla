------------------------- MODULE PaperBookCash_proofs -------------------------
(* The paper book keeps what it reserves, and implements the abstract cash book. *)
EXTENDS PaperBook_proofs

-----------------------------------------------------------------------------
(* What an order holds *)

\* An order that holds cash is a buy with a limit, and holds what it would cost
\* at that limit.
HoldsItsLimit ==
  \A o \in OrderIds : reserved_cash[o] > 0 =>
    /\ Reserves(request[o])
    /\ reserved_cash[o] = BuyCost(request[o].limit, request[o].qty)

\* What a step does to the hold of one order.
HoldStep(p) ==
  \/ /\ reserved_cash'[p] = reserved_cash[p]
     /\ reserved_cash[p] > 0 => request'[p] = request[p]
  \/ reserved_cash'[p] = 0
  \/ /\ Reserves(request'[p])
     /\ reserved_cash'[p] = BuyCost(request'[p].limit, request'[p].qty)

\* Every step leaves the hold of an order alone, gives it up or takes it anew.
LEMMA HoldSteps ==
  ASSUME BookInv, [Next]_vars, NEW p \in OrderIds
  PROVE  HoldStep(p)
  <1>0. /\ reserved_cash \in [OrderIds -> Nat]
        /\ request \in [OrderIds -> Request \cup {None}]
        /\ reserved_cash[p] > 0 => status[p] = "resting"
    BY DEF BookInv, TypeOK, RowsTyped, CashTyped, OnlyRestingHold
  <1>1. ASSUME NEW o \in OrderIds, NEW r, NEW mark, Insert(o, r, mark)
        PROVE  reserved_cash[p] > 0 => request'[p] = request[p]
    BY <1>0, <1>1 DEF Insert
  <1>2. ASSUME NEW o \in OrderIds, NEW r, NEW mark, MarketOrder(o, r, mark)
        PROVE  HoldStep(p)
    BY <1>1, <1>2 DEF MarketOrder, OnlyStatus, HoldStep
  <1>3. ASSUME NEW o \in OrderIds, NEW r, NEW mark, PlaceResting(o, r, mark)
        PROVE  HoldStep(p)
    <2>1. Insert(o, r, mark)
      BY <1>3 DEF PlaceResting
    <2>2. CASE reserved_cash' = reserved_cash
      BY <1>1, <2>1, <2>2 DEF HoldStep
    <2>3. CASE /\ Reserves(r)
               /\ reserved_cash' = [reserved_cash EXCEPT ![o] = BuyCost(r.limit, r.qty)]
      <3>1. CASE p = o
        <4>1. request'[p] = r /\ reserved_cash'[p] = BuyCost(r.limit, r.qty)
          BY <1>0, <2>1, <2>3, <3>1 DEF Insert
        <4> QED
          BY <2>3, <4>1 DEF HoldStep
      <3>2. CASE p # o
        BY <1>0, <1>1, <2>1, <2>3, <3>2 DEF HoldStep
      <3> QED
        BY <3>1, <3>2
    <2> QED
      BY <1>3, <2>2, <2>3 DEF PlaceResting, OnlyStatus
  <1>4. CASE UNCHANGED <<reserved_cash, request>>
    BY <1>4 DEF HoldStep
  <1>5. ASSUME NEW sl \in OrderIds, NEW tp \in OrderIds, NEW g, NEW b, NEW m, NEW n,
               PlaceBracket(sl, tp, g, b, m, n)
        PROVE  HoldStep(p)
    BY <1>0, <1>5 DEF PlaceBracket, HoldStep
  <1>6. ASSUME NEW o \in OrderIds, UNCHANGED request,
               reserved_cash' = [reserved_cash EXCEPT ![o] = 0]
        PROVE  HoldStep(p)
    BY <1>0, <1>6 DEF HoldStep
  <1>7. ASSUME NEW o \in OrderIds, CancelOrder(o) \/ CancelNext(o) PROVE HoldStep(p)
    BY <1>4, <1>6, <1>7 DEF CancelOrder, CancelNext, CancelResting, orderVars
  <1>8. ASSUME NEW o \in OrderIds, NEW mark, Fire(o, mark) PROVE HoldStep(p)
    BY <1>6, <1>8 DEF Fire, Visit
  <1>9. ASSUME NEW o \in OrderIds, NEW s \in Symbols, NEW mark, Squareoff(o, s, mark)
        PROVE  HoldStep(p)
    BY <1>2, <1>9 DEF Squareoff
  <1>10. ASSUME NEW o \in OrderIds, NEW r, NEW mark, PlaceMarket(o, r, mark)
         PROVE  HoldStep(p)
    BY <1>2, <1>10 DEF PlaceMarket
  <1>11. CASE \/ StartTick \/ UNCHANGED vars
              \/ \E o \in OrderIds, mark \in Marks : Skip(o, mark)
              \/ \E m \in {"paper", "live"} : SetMode(m)
              \/ \E open \in BOOLEAN : ExchangeSession(open)
              \/ \E o \in OrderIds, s \in Symbols : SquareoffRetry(o, s)
    BY <1>4, <1>11 DEF StartTick, Skip, Visit, SetMode, ExchangeSession, SquareoffRetry,
       vars, orderVars
  <1> QED
    BY <1>3, <1>5, <1>7, <1>8, <1>9, <1>10, <1>11 DEF Next

LEMMA HoldsInductive ==
  ASSUME BookInv, HoldsItsLimit, [Next]_vars
  PROVE  HoldsItsLimit'
  <1> SUFFICES ASSUME NEW p \in OrderIds, reserved_cash'[p] > 0
               PROVE  /\ Reserves(request'[p])
                      /\ reserved_cash'[p] = BuyCost(request'[p].limit, request'[p].qty)
    BY DEF HoldsItsLimit, Reserves, BuyCost, Charges
  <1>1. HoldStep(p)
    BY HoldSteps
  <1>2. CASE reserved_cash'[p] = reserved_cash[p] /\ request'[p] = request[p]
    BY <1>2 DEF HoldsItsLimit
  <1> QED
    BY <1>1, <1>2 DEF HoldStep

LEMMA HoldsAlways == Spec => []HoldsItsLimit
  <1>1. Init => HoldsItsLimit
    BY DEF Init, HoldsItsLimit
  <1>2. BookInv /\ HoldsItsLimit /\ [Next]_vars => HoldsItsLimit'
    BY HoldsInductive
  <1> QED
    BY <1>1, <1>2, BookAlways, PTL DEF Spec

-----------------------------------------------------------------------------
(* A limit buy that rests has its cash *)

\* A LIMIT buy that fires does so at or under its limit, so what it holds pays
\* for it.
LEMMA LimitBuyFills ==
  ASSUME BookInv, cash_available >= 0, HoldsItsLimit,
         NEW o \in OrderIds, NEW mark \in Marks, Fire(o, mark),
         reserved_cash[o] > 0, request[o].type = "LIMIT"
  PROVE  status'[o] = "filled"
  <1> DEFINE r == request[o]
             avail == cash_available + reserved_cash[o]
  <1>1. /\ r \in Request /\ mark \in Positive /\ status \in [OrderIds -> Status]
        /\ reserved_cash[o] \in Nat /\ cash_available \in Int
    BY MarksTyped DEF Fire, BookInv, TypeOK, RowsTyped, CashTyped
  <1>2. /\ r.side = "BUY" /\ r.limit # None /\ r.limit \in Positive /\ r.qty \in Positive
        /\ reserved_cash[o] = BuyCost(r.limit, r.qty)
    BY <1>1 DEF HoldsItsLimit, Reserves, Request
  <1>3. mark <= r.limit
    BY <1>2 DEF Fire, ShouldFill, TriggerTypes
  <1>4. BuyCost(mark, r.qty) <= BuyCost(r.limit, r.qty)
    BY <1>1, <1>2, <1>3, BuyCostMonotonic
  <1>5. BuyCost(mark, r.qty) \in Int /\ BuyCost(r.limit, r.qty) \in Int
    BY <1>1, <1>2, CostTypes DEF Positive
  <1>6. BuyCost(mark, r.qty) <= avail
    BY <1>1, <1>2, <1>4, <1>5
  <1>7. ExecuteFill(o, r, mark, avail, ReleasedLedger(o))
    BY DEF Fire
  <1>8. status' = [status EXCEPT ![o] = "filled"]
    BY <1>2, <1>6, <1>7 DEF ExecuteFill, Affordable, BookFill
  <1> QED
    BY <1>1, <1>8

\* A row that rests is rejected by nothing but its own turn in a pass.
LEMMA OnlyFireRejects ==
  ASSUME BookInv, [Next]_vars, NEW p \in OrderIds, status[p] = "resting",
         status'[p] = "rejected"
  PROVE  \E mark \in Marks : Fire(p, mark)
  <1>0. status \in [OrderIds -> Status]
    BY DEF BookInv, TypeOK, RowsTyped
  <1>1. ASSUME NEW o \in OrderIds, NEW r, NEW price, NEW avail, NEW led, o # p,
               ExecuteFill(o, r, price, avail, led)
        PROVE  status'[p] = status[p]
    BY <1>0, <1>1 DEF ExecuteFill, Affordable, Covered, BookFill, RejectFill
  <1>2. ASSUME NEW o \in OrderIds, NEW r, NEW mark, MarketOrder(o, r, mark)
        PROVE  status'[p] = status[p]
    <2>1. o # p
      BY <1>2 DEF MarketOrder, Insert
    <2> QED
      BY <1>0, <1>1, <1>2, <2>1 DEF MarketOrder, OnlyStatus
  <1>3. ASSUME NEW o \in OrderIds, NEW r, NEW mark, PlaceResting(o, r, mark)
        PROVE  status'[p] = status[p]
    <2>1. o # p
      BY <1>3 DEF PlaceResting, Insert
    <2> QED
      BY <1>0, <1>3, <2>1 DEF PlaceResting, OnlyStatus
  <1>4. ASSUME NEW sl \in OrderIds, NEW tp \in OrderIds, NEW g, NEW b, NEW m, NEW n,
               PlaceBracket(sl, tp, g, b, m, n)
        PROVE  FALSE
    BY <1>0, <1>4 DEF PlaceBracket
  <1>5. ASSUME NEW o \in OrderIds, CancelOrder(o) \/ CancelNext(o) PROVE FALSE
    BY <1>0, <1>5 DEF CancelOrder, CancelNext, CancelResting, orderVars
  <1>6. ASSUME NEW o \in OrderIds, NEW mark \in Marks, Fire(o, mark) PROVE o = p
    BY <1>1, <1>6 DEF Fire
  <1>7. CASE \/ StartTick \/ UNCHANGED vars
             \/ \E o \in OrderIds, mark \in Marks : Skip(o, mark)
             \/ \E m \in {"paper", "live"} : SetMode(m)
             \/ \E open \in BOOLEAN : ExchangeSession(open)
             \/ \E o \in OrderIds, s \in Symbols : SquareoffRetry(o, s)
    BY <1>7 DEF StartTick, Skip, SetMode, ExchangeSession, SquareoffRetry, vars, orderVars
  <1> QED
    BY <1>2, <1>3, <1>4, <1>5, <1>6, <1>7 DEF Next, PlaceMarket, Squareoff

\* A resting LIMIT buy is never rejected for want of the cash it reserved, for any
\* prices and charges, unless the free cash is below zero when it fires (broker.py:
\* buy_cost at the limit is an upper bound on the fill's debit).
THEOREM LimitBuysKeepTheirCash == Spec => LimitBuyKeepsItsCash
  <1>1. ASSUME BookInv, HoldsItsLimit, [Next]_vars, NEW o \in OrderIds,
               reserved_cash[o] > 0, request[o].type = "LIMIT", status'[o] = "rejected",
               ~(cash_available < 0)
        PROVE  FALSE
    <2>1. status[o] = "resting" /\ cash_available >= 0
      BY <1>1 DEF BookInv, OnlyRestingHold, TypeOK, CashTyped
    <2> QED
      BY <1>1, <2>1, OnlyFireRejects, LimitBuyFills
  <1>2. BookInv /\ HoldsItsLimit /\ [Next]_vars =>
          [\A o \in OrderIds :
             /\ reserved_cash[o] > 0 /\ request[o].type = "LIMIT"
             /\ status'[o] = "rejected"
             => cash_available < 0]_vars
    BY <1>1
  <1> QED
    BY <1>2, BookAlways, HoldsAlways, PTL DEF Spec, LimitBuyKeepsItsCash

-----------------------------------------------------------------------------
(* The steps of the book are steps of the abstract cash book *)

Bought == FilledOn("BUY")
Sold == FilledOn("SELL")

\* A row that was not filled and is not, whatever its request becomes, leaves the
\* filled ones as they were.
LEMMA SameFilled ==
  ASSUME NEW o \in OrderIds, status[o] # "filled", status'[o] # "filled",
         \A p \in OrderIds : p # o => status'[p] = status[p] /\ request'[p] = request[p]
  PROVE  Bought' = Bought /\ Sold' = Sold
  <1>1. ASSUME NEW side
        PROVE  {p \in OrderIds : status'[p] = "filled" /\ request'[p].side = side}
                 = {p \in OrderIds : status[p] = "filled" /\ request[p].side = side}
    <2>1. ASSUME NEW p \in OrderIds
          PROVE  status'[p] = "filled" /\ request'[p].side = side
                   <=> status[p] = "filled" /\ request[p].side = side
      <3>1. CASE p = o
        BY <3>1
      <3>2. CASE p # o
        BY <3>2
      <3> QED
        BY <3>1, <3>2
    <2> QED
      BY <2>1
  <1> QED
    BY <1>1 DEF Bought, Sold, FilledOn

\* A row that fills joins those of its side.
LEMMA NewlyFilled ==
  ASSUME NEW o \in OrderIds, status[o] # "filled", status'[o] = "filled",
         \A p \in OrderIds : p # o => status'[p] = status[p] /\ request'[p] = request[p]
  PROVE  /\ o \notin Bought \cup Sold
         /\ request'[o].side = "BUY" => Bought' = Bought \cup {o} /\ Sold' = Sold
         /\ request'[o].side = "SELL" => Sold' = Sold \cup {o} /\ Bought' = Bought
  <1>1. ASSUME NEW side
        PROVE  {p \in OrderIds : status'[p] = "filled" /\ request'[p].side = side}
                 = {p \in OrderIds : status[p] = "filled" /\ request[p].side = side}
                     \cup (IF request'[o].side = side THEN {o} ELSE {})
    <2>1. ASSUME NEW p \in OrderIds
          PROVE  status'[p] = "filled" /\ request'[p].side = side
                   <=> \/ status[p] = "filled" /\ request[p].side = side
                       \/ p = o /\ request'[o].side = side
      <3>1. CASE p = o
        BY <3>1
      <3>2. CASE p # o
        BY <3>2
      <3> QED
        BY <3>1, <3>2
    <2> QED
      BY <2>1
  <1> QED
    BY <1>1 DEF Bought, Sold, FilledOn

\* A fill buys or sells for its order, a rejection gives back what it held.
LEMMA FillSettlesOrReleases ==
  ASSUME BookInv, NEW o \in OrderIds, status[o] \in {"absent", "resting"},
         NEW r \in Request, NEW price \in Positive, NEW led,
         request'[o] = r, r.side = "SELL" => reserved_cash[o] = 0,
         \A p \in OrderIds : p # o => request'[p] = request[p],
         ExecuteFill(o, r, price, cash_available + reserved_cash[o], led),
         reserved_cash' = [reserved_cash EXCEPT ![o] = 0]
  PROVE  [Cash!Next]_(Cash!vars)
  <1>0. /\ status \in [OrderIds -> Status] /\ reserved_cash \in [OrderIds -> Nat]
        /\ cash_available \in Int /\ reserved_cash[o] \in Nat /\ FlatCharge \in Int
        /\ BuyCost(price, r.qty) \in Int /\ BuyCost(price, r.qty) > 0
        /\ SellCredit(price, r.qty) \in Int /\ SellCredit(price, r.qty) >= -FlatCharge
    <2>1. /\ status \in [OrderIds -> Status] /\ reserved_cash \in [OrderIds -> Nat]
          /\ cash_available \in Int /\ FlatCharge \in Int
      BY MoneyAssumption DEF BookInv, TypeOK, RowsTyped, CashTyped
    <2>2. r.qty \in Positive
      BY DEF Request
    <2>3. BuyCost(price, r.qty) \in Positive /\ SellCredit(price, r.qty) \in Int
      BY <2>2, CostTypes
    <2>4. SellCredit(price, r.qty) >= -FlatCharge
      BY <2>2, SaleCostsAtMostFlat
    <2> QED
      BY <2>1, <2>3, <2>4 DEF Positive
  <1>1. ASSUME status' = [status EXCEPT ![o] = "filled"]
        PROVE  /\ status'[o] = "filled" /\ status[o] # "filled"
               /\ \A p \in OrderIds : p # o => status'[p] = status[p] /\ request'[p] = request[p]
    BY <1>0, <1>1
  <1>2. CASE /\ r.side = "BUY" /\ Affordable(r, price, cash_available + reserved_cash[o])
             /\ BookFill(o, r, -BuyCost(price, r.qty), "buy_debit",
                         cash_available + reserved_cash[o], led)
    <2>1. /\ cash_available' = cash_available + reserved_cash[o] - BuyCost(price, r.qty)
          /\ status' = [status EXCEPT ![o] = "filled"]
      BY <1>0, <1>2 DEF BookFill
    <2>2. 0 <= cash_available' /\ cash_available' < cash_available + reserved_cash[o]
      BY <1>0, <1>2, <2>1 DEF Affordable
    <2>3. o \notin Bought \cup Sold /\ Bought' = Bought \cup {o} /\ Sold' = Sold
      BY <1>1, <1>2, <2>1, NewlyFilled
    <2> QED
      BY <2>2, <2>3 DEF Cash!Buy, Cash!Settled, Cash!Next, Bought, Sold
  <1>3. CASE /\ r.side = "SELL"
             /\ BookFill(o, r, SellCredit(price, r.qty), "sell_credit",
                         cash_available + reserved_cash[o], led)
    <2>1. /\ cash_available' = cash_available + SellCredit(price, r.qty)
          /\ status' = [status EXCEPT ![o] = "filled"]
      BY <1>0, <1>3 DEF BookFill
    <2>2. cash_available' >= cash_available - FlatCharge
      BY <1>0, <2>1
    <2>3. o \notin Bought \cup Sold /\ Sold' = Sold \cup {o} /\ Bought' = Bought
      BY <1>1, <1>3, <2>1, NewlyFilled
    <2>4. reserved_cash' = reserved_cash /\ reserved_cash[o] = 0
      BY <1>0, <1>3
    <2> QED
      BY <2>2, <2>3, <2>4 DEF Cash!Sell, Cash!Settled, Cash!Next, Bought, Sold
  <1>4. CASE RejectFill(o, cash_available + reserved_cash[o], led)
    <2>1. cash_available' = cash_available + reserved_cash[o]
      BY <1>4 DEF RejectFill
    <2>2. Bought' = Bought /\ Sold' = Sold
      <3>1. /\ status[o] # "filled" /\ status'[o] # "filled"
            /\ \A p \in OrderIds : p # o => status'[p] = status[p]
        BY <1>0, <1>4 DEF RejectFill
      <3> QED
        BY <3>1, SameFilled
    <2>3. CASE reserved_cash[o] > 0
      BY <2>1, <2>2, <2>3 DEF Cash!Release, Cash!Next, Bought, Sold
    <2>4. CASE reserved_cash[o] = 0
      <3>1. reserved_cash' = reserved_cash /\ cash_available' = cash_available
        BY <1>0, <2>1, <2>4
      <3> QED
        BY <2>2, <3>1 DEF Cash!vars, Bought, Sold
    <2> QED
      BY <1>0, <2>3, <2>4
  <1> QED
    BY <1>2, <1>3, <1>4 DEF ExecuteFill

\* A row that is inserted held nothing, and no other request changes.
LEMMA InsertIsFresh ==
  ASSUME BookInv, NEW o \in OrderIds, NEW r, NEW mark, Insert(o, r, mark)
  PROVE  /\ status[o] = "absent" /\ reserved_cash[o] = 0 /\ request'[o] = r
         /\ \A p \in OrderIds : p # o => request'[p] = request[p]
         /\ status \in [OrderIds -> Status] /\ reserved_cash \in [OrderIds -> Nat]
         /\ cash_available \in Int
  <1>1. /\ status[o] = "absent" /\ status \in [OrderIds -> Status]
        /\ reserved_cash \in [OrderIds -> Nat] /\ cash_available \in Int
        /\ request' = [request EXCEPT ![o] = r]
        /\ request \in [OrderIds -> Request \cup {None}]
    BY DEF Insert, BookInv, TypeOK, RowsTyped, CashTyped
  <1>2. ~(reserved_cash[o] > 0)
    BY <1>1 DEF BookInv, OnlyRestingHold
  <1> QED
    BY <1>1, <1>2

\* A row that is written without a fill leaves the filled ones as they were.
LEMMA OnlyStatusIsQuiet ==
  ASSUME BookInv, NEW o \in OrderIds, NEW r, NEW mark, Insert(o, r, mark),
         NEW st \in {"resting", "rejected"}, status' = [status EXCEPT ![o] = st]
  PROVE  Bought' = Bought /\ Sold' = Sold
  <1>1. /\ status[o] # "filled" /\ status'[o] # "filled"
        /\ \A p \in OrderIds : p # o => status'[p] = status[p] /\ request'[p] = request[p]
    BY InsertIsFresh
  <1> QED
    BY <1>1, SameFilled

LEMMA MarketOrderIsCash ==
  ASSUME BookInv, NEW o \in OrderIds, NEW r \in Request, NEW mark \in Marks,
         MarketOrder(o, r, mark)
  PROVE  [Cash!Next]_(Cash!vars)
  <1>1. Insert(o, r, mark)
    BY DEF MarketOrder
  <1>2. CASE OnlyStatus(o, "resting") \/ OnlyStatus(o, "rejected")
    <2>1. /\ Bought' = Bought /\ Sold' = Sold
          /\ UNCHANGED <<reserved_cash, cash_available>>
      BY <1>1, <1>2, OnlyStatusIsQuiet DEF OnlyStatus, cashVars
    <2> QED
      BY <2>1 DEF Cash!vars, Bought, Sold
  <1>3. CASE /\ mark # None /\ ExecuteFill(o, r, mark, cash_available, ledger)
             /\ UNCHANGED reserved_cash
    <2>1. /\ status[o] = "absent" /\ reserved_cash[o] = 0 /\ request'[o] = r
          /\ \A p \in OrderIds : p # o => request'[p] = request[p]
          /\ reserved_cash \in [OrderIds -> Nat] /\ cash_available \in Int
          /\ mark \in Positive
      BY <1>1, <1>3, InsertIsFresh, MarksTyped
    <2>2. reserved_cash' = [reserved_cash EXCEPT ![o] = 0]
      BY <1>3, <2>1
    <2>3. ExecuteFill(o, r, mark, cash_available + reserved_cash[o], ledger)
      <3>1. cash_available = cash_available + reserved_cash[o]
        BY <2>1
      <3> QED
        BY <1>3, <3>1
    <2> QED
      BY <2>1, <2>2, <2>3, FillSettlesOrReleases
  <1> QED
    BY <1>2, <1>3 DEF MarketOrder

LEMMA PlaceRestingIsCash ==
  ASSUME BookInv, NEW o \in OrderIds, NEW r \in Requests, NEW mark \in Marks,
         PlaceResting(o, r, mark)
  PROVE  [Cash!Next]_(Cash!vars)
  <1>1. Insert(o, r, mark)
    BY DEF PlaceResting
  <1>2. CASE OnlyStatus(o, "resting") \/ OnlyStatus(o, "rejected")
    <2>1. /\ Bought' = Bought /\ Sold' = Sold
          /\ UNCHANGED <<reserved_cash, cash_available>>
      BY <1>1, <1>2, OnlyStatusIsQuiet DEF OnlyStatus, cashVars
    <2> QED
      BY <2>1 DEF Cash!vars, Bought, Sold
  <1>3. ASSUME Reserves(r), BuyCost(r.limit, r.qty) <= cash_available,
               status' = [status EXCEPT ![o] = "resting"],
               reserved_cash' = [reserved_cash EXCEPT ![o] = BuyCost(r.limit, r.qty)],
               cash_available' = cash_available - BuyCost(r.limit, r.qty)
        PROVE  Cash!Hold(o)
    <2>1. BuyCost(r.limit, r.qty) \in Positive
      BY <1>3, RequestsTyped, CostTypes DEF Reserves, Request
    <2>2. status[o] = "absent" /\ reserved_cash[o] = 0 /\ cash_available \in Int
      BY <1>1, InsertIsFresh
    <2>3. /\ cash_available' < cash_available /\ 0 <= cash_available'
          /\ BuyCost(r.limit, r.qty) = cash_available - cash_available'
      BY <1>3, <2>1, <2>2 DEF Positive
    <2>4. Bought' = Bought /\ Sold' = Sold
      BY <1>1, <1>3, OnlyStatusIsQuiet
    <2>5. o \notin Bought \cup Sold
      BY <2>2 DEF Bought, Sold, FilledOn
    <2> QED
      BY <1>3, <2>2, <2>3, <2>4, <2>5 DEF Cash!Hold, Cash!Settled, Bought, Sold
  <1> QED
    BY <1>2, <1>3 DEF PlaceResting, Cash!Next

LEMMA CancelIsCash ==
  ASSUME BookInv, NEW o \in OrderIds, status[o] = "resting", CancelResting(o)
  PROVE  [Cash!Next]_(Cash!vars)
  <1>1. /\ status \in [OrderIds -> Status] /\ reserved_cash \in [OrderIds -> Nat]
        /\ cash_available \in Int /\ reserved_cash[o] \in Nat
    BY DEF BookInv, TypeOK, RowsTyped, CashTyped
  <1>2. /\ cash_available' = cash_available + reserved_cash[o]
        /\ reserved_cash' = [reserved_cash EXCEPT ![o] = 0]
    BY DEF CancelResting
  <1>3. Bought' = Bought /\ Sold' = Sold
    <2>1. /\ status'[o] # "filled" /\ request' = request
          /\ \A p \in OrderIds : p # o => status'[p] = status[p]
      BY <1>1 DEF CancelResting
    <2> QED
      BY <2>1, SameFilled
  <1>4. CASE reserved_cash[o] > 0
    BY <1>2, <1>3, <1>4 DEF Cash!Release, Cash!Next, Bought, Sold
  <1>5. CASE reserved_cash[o] = 0
    <2>1. reserved_cash' = reserved_cash /\ cash_available' = cash_available
      BY <1>1, <1>2, <1>5
    <2> QED
      BY <1>3, <2>1 DEF Cash!vars, Bought, Sold
  <1> QED
    BY <1>1, <1>4, <1>5

LEMMA FireIsCash ==
  ASSUME BookInv, HoldsItsLimit, NEW o \in OrderIds, NEW mark \in Marks, Fire(o, mark)
  PROVE  [Cash!Next]_(Cash!vars)
  <1>1. /\ status[o] = "resting" /\ request[o] \in Request /\ mark \in Positive
        /\ request' = request
        /\ reserved_cash' = [reserved_cash EXCEPT ![o] = 0]
        /\ ExecuteFill(o, request[o], mark, cash_available + reserved_cash[o],
                       ReleasedLedger(o))
    BY MarksTyped DEF Fire, Visit, BookInv, TypeOK, RowsTyped
  <1>2. request[o].side = "SELL" => reserved_cash[o] = 0
    BY DEF HoldsItsLimit, Reserves, BookInv, TypeOK, CashTyped
  <1> QED
    BY <1>1, <1>2, FillSettlesOrReleases

LEMMA CashBookSteps ==
  ASSUME BookInv, HoldsItsLimit, [Next]_vars
  PROVE  [Cash!Next]_(Cash!vars)
  <1>1. CASE UNCHANGED <<status, request, reserved_cash, cash_available>>
    BY <1>1 DEF Cash!vars, FilledOn
  <1>2. ASSUME NEW o \in OrderIds, NEW r \in Requests, NEW mark \in Marks,
               PlaceMarket(o, r, mark) \/ PlaceResting(o, r, mark)
        PROVE  [Cash!Next]_(Cash!vars)
    BY <1>2, RequestsTyped, MarketOrderIsCash, PlaceRestingIsCash DEF PlaceMarket
  <1>3. ASSUME NEW sl \in OrderIds, NEW tp \in OrderIds, NEW g, NEW b, NEW m, NEW n,
               PlaceBracket(sl, tp, g, b, m, n)
        PROVE  [Cash!Next]_(Cash!vars)
    <2>1. /\ status \in [OrderIds -> Status]
          /\ request \in [OrderIds -> Request \cup {None}]
      BY DEF BookInv, TypeOK, RowsTyped
    <2>2. /\ \A p \in {sl, tp} : status[p] # "filled" /\ status'[p] # "filled"
          /\ \A p \in OrderIds \ {sl, tp} : status'[p] = status[p] /\ request'[p] = request[p]
      BY <1>3, <2>1 DEF PlaceBracket
    <2>3. Bought' = Bought /\ Sold' = Sold
      BY <2>2 DEF Bought, Sold, FilledOn
    <2> QED
      BY <1>3, <2>3 DEF PlaceBracket, cashVars, Cash!vars, Bought, Sold
  <1>4. ASSUME NEW o \in OrderIds, NEW s \in Symbols, NEW mark \in Marks,
               Squareoff(o, s, mark)
        PROVE  [Cash!Next]_(Cash!vars)
    <2> DEFINE exit == [symbol |-> s, side |-> "SELL", type |-> "MARKET",
                        qty |-> position[s],
                        limit |-> None, trigger |-> None, group |-> None]
    <2>1. position[s] \in Positive
      BY <1>4 DEF Squareoff, BookInv, TypeOK, JournalTyped, LongOnly, Positive
    <2>2. exit \in Request /\ MarketOrder(o, exit, mark)
      BY <1>4, <2>1 DEF Squareoff, Request, Types
    <2> QED
      BY <2>2, MarketOrderIsCash
  <1>5. ASSUME NEW o \in OrderIds, CancelOrder(o) \/ CancelNext(o)
        PROVE  [Cash!Next]_(Cash!vars)
    BY <1>1, <1>5, CancelIsCash DEF CancelOrder, CancelNext, orderVars, cashVars
  <1>6. ASSUME NEW o \in OrderIds, NEW mark \in Marks, Fire(o, mark)
        PROVE  [Cash!Next]_(Cash!vars)
    BY <1>6, FireIsCash
  <1>7. CASE \/ StartTick \/ UNCHANGED vars
             \/ \E o \in OrderIds, mark \in Marks : Skip(o, mark)
             \/ \E m \in {"paper", "live"} : SetMode(m)
             \/ \E open \in BOOLEAN : ExchangeSession(open)
             \/ \E o \in OrderIds, s \in Symbols : SquareoffRetry(o, s)
    BY <1>1, <1>7 DEF StartTick, Skip, Visit, SetMode, ExchangeSession, SquareoffRetry, vars,
       orderVars, cashVars
  <1> QED
    BY <1>2, <1>3, <1>4, <1>5, <1>6, <1>7 DEF Next

\* For any orders, prices and charges, every operation of the broker holds for,
\* releases from, buys or sells for one order, or leaves the cash alone (fills.py
\* and broker.py against the abstract cash book).
THEOREM BookImplementsCashBook == Spec => ImplementsCashBook
  <1>1. Init => Cash!Init
    BY DEF Init, Cash!Init, FilledOn
  <1>2. BookInv /\ HoldsItsLimit /\ [Next]_vars => [Cash!Next]_(Cash!vars)
    BY CashBookSteps
  <1> QED
    BY <1>1, <1>2, BookAlways, HoldsAlways, PTL DEF Spec, ImplementsCashBook, Cash!Spec

=============================================================================
