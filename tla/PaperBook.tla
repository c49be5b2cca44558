------------------------------ MODULE PaperBook ------------------------------
(***************************************************************************)
(* The paper broker's book for one account: the cash triple, the orders,   *)
(* the positions, the append-only ledger and the fill journal.             *)
(*                                                                         *)
(* Every public operation runs in one database transaction and is one      *)
(* action here, except the two loops the code runs inside a transaction    *)
(* (the evaluator's walk over the resting orders and the cancellation of   *)
(* OCO siblings or of protective sells): those take one step per           *)
(* iteration, and no other operation starts until they are done.  What two *)
(* transactions that really overlap can do to each other is not in this    *)
(* module.                                                                 *)
(*                                                                         *)
(* An order row is known by the client_request_id its caller presents.     *)
(* Money is counted in the ledger's smallest unit (4 decimal places).      *)
(*                                                                         *)
(* A definition that stands just before another, under a longer name, is a *)
(* faulty variant of it that the runs must refute; the model uses none.    *)
(***************************************************************************)
EXTENDS Integers, Sequences

CONSTANTS
  OrderIds,      \* client_request_ids that callers may present
  Symbols,       \* tradingsymbols
  Groups,        \* gtt_oco_group values
  Requests,      \* the single orders callers may ask for
  Brackets,      \* the stop-loss/target pairs callers may ask for
  Prices,        \* marks the price feed may return
  SeedCapital,   \* settings.paper_seed_capital
  FlatCharge,    \* brokerage and its GST, per order
  BuyRate,       \* ad valorem charges of a buy, in units of 1/RateUnit
  SellRate,      \* ad valorem charges of a sell
  RateUnit,
  None           \* an absent price, limit, trigger or group

Types == {"MARKET", "LIMIT", "SL", "SL-M", "GTT"}
RestingTypes == {"LIMIT", "SL", "SL-M", "GTT"}
ImmediateReserve == {"LIMIT", "SL"}
TriggerTypes == {"SL", "SL-M", "GTT"}
Status == {"absent", "resting", "filled", "rejected", "cancelled"}
Terminal == {"filled", "rejected", "cancelled"}

Positive == Nat \ {0}

Request == [symbol : Symbols, side : {"BUY", "SELL"}, type : Types,
            qty : Positive, limit : Positive \cup {None},
            trigger : Positive \cup {None}, group : Groups \cup {None}]

ASSUME NoneAssumption == None \notin Int /\ None \notin Request /\ None \notin Groups
ASSUME PricesAssumption == \A p \in Prices : p \in Positive
ASSUME RequestsAssumption ==
  \A r \in Requests :
    /\ r.symbol \in Symbols /\ r.side \in {"BUY", "SELL"} /\ r.type \in Types
    /\ r.qty \in Positive
    /\ r.limit \in Positive \cup {None}
    /\ r.trigger \in Positive \cup {None}
    /\ r.group = None
    /\ r = [symbol |-> r.symbol, side |-> r.side, type |-> r.type, qty |-> r.qty,
            limit |-> r.limit, trigger |-> r.trigger, group |-> r.group]
ASSUME BracketsAssumption ==
  \A b \in Brackets :
    /\ b.symbol \in Symbols /\ b.side \in {"BUY", "SELL"} /\ b.qty \in Positive
    /\ b.stoploss \in Positive /\ b.target \in Positive
ASSUME MoneyAssumption ==
  /\ SeedCapital \in Nat /\ FlatCharge \in Nat
  /\ BuyRate \in Nat /\ SellRate \in Nat /\ RateUnit \in Positive
  /\ SellRate <= RateUnit      \* a sale's charges stay a share of its value

VARIABLES
  mode,            \* account.mode: "paper" or "live"
  marketOpen,      \* is_market_open()
  status,          \* order rows: their status ("absent" before the insert)
  request,         \*   what was asked
  intended_price,  \*   the reference a trigger's direction is read from
  reserved_cash,   \*   cash this order holds
  blotter,         \*   the ids in created_at order
  cash_available, cash_reserved, cash_settled,
  position,        \* quantity held per symbol
  ledger,          \* PaperLedgerEntry rows, oldest first
  fills,           \* PaperFill rows, oldest first
  pass,            \* resting orders the running evaluator pass has still to visit
  cancelling       \* orders the running transaction has still to cancel

orderVars == <<status, request, intended_price, reserved_cash, blotter>>
cashVars == <<cash_available, cash_reserved, cash_settled>>
bookVars == <<position, ledger, fills>>
loopVars == <<pass, cancelling>>
vars == <<mode, marketOpen, orderVars, cashVars, bookVars, loopVars>>

-----------------------------------------------------------------------------
(* trading_costs *)

\* Quantized to the ledger's unit, halves up.
Charges(notional, rate) ==
  FlatCharge + (notional * rate + RateUnit \div 2) \div RateUnit

BuyCost(price, qty) == price * qty + Charges(price * qty, BuyRate)
SellCredit(price, qty) == price * qty - Charges(price * qty, SellRate)

-----------------------------------------------------------------------------
Init ==
  /\ mode = "paper"
  /\ marketOpen \in BOOLEAN
  /\ status = [o \in OrderIds |-> "absent"]
  /\ request = [o \in OrderIds |-> None]
  /\ intended_price = [o \in OrderIds |-> None]
  /\ reserved_cash = [o \in OrderIds |-> 0]
  /\ blotter = <<>>
  /\ cash_available = SeedCapital
  /\ cash_reserved = 0
  /\ cash_settled = SeedCapital
  /\ position = [s \in Symbols |-> 0]
  /\ ledger = <<[kind |-> "seed", amount |-> SeedCapital, balance |-> SeedCapital]>>
  /\ fills = <<>>
  /\ pass = {}
  /\ cancelling = {}

\* No transaction is in the middle of one of its loops.
Idle == pass = {} /\ cancelling = {}

Entry(kind, amount, balance) == [kind |-> kind, amount |-> amount, balance |-> balance]

\* The reserve an order gives back when it fills or is cancelled.
ReleasedLedgerOldBalance(o) ==
  IF reserved_cash[o] > 0
  THEN Append(ledger, Entry("release", reserved_cash[o], cash_available))
  ELSE ledger

ReleasedLedger(o) ==
  IF reserved_cash[o] > 0
  THEN Append(ledger, Entry("release", reserved_cash[o],
                            cash_available + reserved_cash[o]))
  ELSE ledger

(***************************************************************************)
(* execute_market_fill: r fills for o at price, or the row is rejected.    *)
(* avail and led are the free cash and the ledger after any release.       *)
(***************************************************************************)
BookFillBuysOnly(o, r, cashflow, kind, avail, led) ==
  /\ status' = [status EXCEPT ![o] = "filled"]
  /\ cash_available' = avail + cashflow
  /\ cash_settled' = cash_settled + cashflow
  /\ ledger' = Append(led, Entry(kind, cashflow, avail + cashflow))
  /\ fills' = IF r.side = "SELL" THEN fills
              ELSE Append(fills, [order |-> o, symbol |-> r.symbol, side |-> r.side,
                                  qty |-> r.qty, cashflow |-> cashflow])

BookFill(o, r, cashflow, kind, avail, led) ==
  /\ status' = [status EXCEPT ![o] = "filled"]
  /\ cash_available' = avail + cashflow
  /\ cash_settled' = cash_settled + cashflow
  /\ ledger' = Append(led, Entry(kind, cashflow, avail + cashflow))
  /\ fills' = Append(fills, [order |-> o, symbol |-> r.symbol, side |-> r.side,
                             qty |-> r.qty, cashflow |-> cashflow])

RejectFillLosesRelease(o, avail, led) ==
  /\ status' = [status EXCEPT ![o] = "rejected"]
  /\ UNCHANGED <<cash_available, cash_settled, position, ledger, fills>>

RejectFill(o, avail, led) ==
  /\ status' = [status EXCEPT ![o] = "rejected"]
  /\ cash_available' = avail
  /\ ledger' = led
  /\ UNCHANGED <<cash_settled, position, fills>>

\* The gates: a buy needs its cash, a sell its shares.
AffordableNoCharges(r, price, avail) == price * r.qty <= avail
Affordable(r, price, avail) == BuyCost(price, r.qty) <= avail

CoveredByAnyShare(r) == position[r.symbol] > 0
Covered(r) == r.qty <= position[r.symbol]

ExecuteFill(o, r, price, avail, led) ==
  \/ /\ r.side = "BUY" /\ ~Affordable(r, price, avail)
     /\ RejectFill(o, avail, led)
  \/ /\ r.side = "BUY" /\ Affordable(r, price, avail)
     /\ position' = [position EXCEPT ![r.symbol] = @ + r.qty]
     /\ BookFill(o, r, -BuyCost(price, r.qty), "buy_debit", avail, led)
  \/ /\ r.side = "SELL" /\ ~Covered(r)
     /\ RejectFill(o, avail, led)
  \/ /\ r.side = "SELL" /\ Covered(r)
     /\ position' = [position EXCEPT ![r.symbol] = @ - r.qty]
     /\ BookFill(o, r, SellCredit(price, r.qty), "sell_credit", avail, led)

-----------------------------------------------------------------------------
(* Placing *)

\* should_use_paper, the replay lookup (a known id changes nothing) and the insert.
InsertWithoutReplay(o, r, reference) ==
  /\ Idle
  /\ mode = "paper"
  /\ request' = [request EXCEPT ![o] = r]
  /\ intended_price' = [intended_price EXCEPT ![o] = reference]
  /\ blotter' = Append(blotter, o)
  /\ UNCHANGED <<mode, marketOpen, pass>>

InsertWithoutRequest(o, r, reference) ==
  /\ Idle
  /\ mode = "paper"
  /\ status[o] = "absent"
  /\ intended_price' = [intended_price EXCEPT ![o] = reference]
  /\ blotter' = Append(blotter, o)
  /\ UNCHANGED <<mode, marketOpen, request, pass>>

Insert(o, r, reference) ==
  /\ Idle
  /\ mode = "paper"
  /\ status[o] = "absent"
  /\ request' = [request EXCEPT ![o] = r]
  /\ intended_price' = [intended_price EXCEPT ![o] = reference]
  /\ blotter' = Append(blotter, o)
  /\ UNCHANGED <<mode, marketOpen, pass>>

\* The row is written with a status and nothing else in the book moves.
OnlyStatus(o, st) ==
  /\ status' = [status EXCEPT ![o] = st]
  /\ UNCHANGED <<reserved_cash, cashVars, bookVars>>

\* A MARKET order waits for the open when the market is closed; it fills at
\* the mark, or is rejected, when it is open.
MarketOrder(o, r, mark) ==
  /\ r.type = "MARKET"
  /\ Insert(o, r, mark)
  /\ \/ ~marketOpen /\ OnlyStatus(o, "resting")
     \/ marketOpen /\ mark = None /\ OnlyStatus(o, "rejected")
     \/ /\ marketOpen /\ mark # None
        /\ ExecuteFill(o, r, mark, cash_available, ledger)
        /\ UNCHANGED <<reserved_cash, cash_reserved>>

PlaceMarket(o, r, mark) == MarketOrder(o, r, mark) /\ UNCHANGED cancelling

Reserves(r) == r.side = "BUY" /\ r.type \in ImmediateReserve /\ r.limit # None

\* A resting BUY with a limit sets its worst-case debit aside, or is rejected.
PlaceResting(o, r, mark) ==
  LET reserve == BuyCost(r.limit, r.qty) IN
  /\ r.type \in RestingTypes
  /\ Insert(o, r, mark)
  /\ UNCHANGED cancelling
  /\ \/ ~Reserves(r) /\ OnlyStatus(o, "resting")
     \/ Reserves(r) /\ reserve > cash_available /\ OnlyStatus(o, "rejected")
     \/ /\ Reserves(r) /\ reserve <= cash_available
        /\ status' = [status EXCEPT ![o] = "resting"]
        /\ reserved_cash' = [reserved_cash EXCEPT ![o] = reserve]
        /\ cash_available' = cash_available - reserve
        /\ cash_reserved' = cash_reserved + reserve
        /\ ledger' = Append(ledger, Entry("reserve", -reserve, cash_available - reserve))
        /\ UNCHANGED <<cash_settled, position, fills>>

GttLeg(b, trigger, g) ==
  [symbol |-> b.symbol, side |-> b.side, type |-> "GTT", qty |-> b.qty,
   limit |-> trigger, trigger |-> trigger, group |-> g]

\* submit_gtt_oco_for_user: two GTT rows of one fresh group in one transaction,
\* each with the quote it was placed at.
PlaceBracket(sl, tp, g, b, slMark, tpMark) ==
  /\ Idle
  /\ mode = "paper"
  /\ sl # tp /\ status[sl] = "absent" /\ status[tp] = "absent"
  /\ \A o \in OrderIds : status[o] # "absent" => request[o].group # g
  /\ status' = [status EXCEPT ![sl] = "resting", ![tp] = "resting"]
  /\ request' = [request EXCEPT ![sl] = GttLeg(b, b.stoploss, g),
                                ![tp] = GttLeg(b, b.target, g)]
  /\ intended_price' = [intended_price EXCEPT ![sl] = slMark, ![tp] = tpMark]
  /\ blotter' = blotter \o <<sl, tp>>
  /\ UNCHANGED <<mode, marketOpen, reserved_cash, cashVars, bookVars, loopVars>>

-----------------------------------------------------------------------------
(* Cancelling *)

\* cancel_resting_order: the reserve comes back, the row is closed.
CancelRestingKeepsReserve(o) ==
  /\ status' = [status EXCEPT ![o] = "cancelled"]
  /\ cash_available' = cash_available + reserved_cash[o]
  /\ ledger' = ReleasedLedger(o)
  /\ UNCHANGED <<mode, marketOpen, request, intended_price, blotter, reserved_cash,
                 cash_reserved, cash_settled, position, fills, pass>>

CancelResting(o) ==
  /\ status' = [status EXCEPT ![o] = "cancelled"]
  /\ reserved_cash' = [reserved_cash EXCEPT ![o] = 0]
  /\ cash_available' = cash_available + reserved_cash[o]
  /\ cash_reserved' = cash_reserved - reserved_cash[o]
  /\ ledger' = ReleasedLedger(o)
  /\ UNCHANGED <<mode, marketOpen, request, intended_price, blotter,
                 cash_settled, position, fills, pass>>

\* action.cancel_orders: one matching order of the list it reads.
CancelOrder(o) ==
  /\ Idle
  /\ mode = "paper"
  /\ status[o] = "resting"
  /\ CancelResting(o)
  /\ UNCHANGED cancelling

\* One iteration of a loop over the orders a transaction set out to cancel.
CancelNext(o) ==
  /\ o \in cancelling
  /\ cancelling' = cancelling \ {o}
  /\ \/ status[o] = "resting" /\ CancelResting(o)
     \/ /\ status[o] # "resting"
        /\ UNCHANGED <<mode, marketOpen, orderVars, cashVars, bookVars, pass>>

\* action.squareoff for one symbol: a MARKET sell of the whole position, then
\* every SELL that rests on the symbol is cancelled.
Squareoff(o, s, mark) ==
  LET exit == [symbol |-> s, side |-> "SELL", type |-> "MARKET", qty |-> position[s],
               limit |-> None, trigger |-> None, group |-> None] IN
  /\ position[s] # 0
  /\ MarketOrder(o, exit, mark)
  /\ cancelling' = {p \in OrderIds : /\ status'[p] = "resting"
                                     /\ request'[p].side = "SELL"
                                     /\ request'[p].symbol = s}

\* The step's retry after its exit was rejected: the replayed id answers with
\* the rejected row, and the sells that rest by now are cancelled all the same.
SquareoffRetry(o, s) ==
  /\ Idle /\ mode = "paper"
  /\ position[s] # 0
  /\ status[o] = "rejected"
  /\ request[o].symbol = s /\ request[o].side = "SELL" /\ request[o].type = "MARKET"
  /\ cancelling' = {p \in OrderIds : /\ status[p] = "resting"
                                     /\ request[p].side = "SELL"
                                     /\ request[p].symbol = s}
  /\ UNCHANGED <<mode, marketOpen, orderVars, cashVars, bookVars, pass>>

-----------------------------------------------------------------------------
(* The evaluator *)

\* should_fill: does a resting order with this reference fire at mark?
ShouldFillAnyLimit(r, reference, mark) ==
  \/ r.type \in {"MARKET", "LIMIT"}
  \/ /\ r.type \in TriggerTypes /\ r.trigger # None
     /\ IF r.trigger <= reference THEN mark <= r.trigger ELSE mark >= r.trigger

ShouldFill(r, reference, mark) ==
  \/ r.type = "MARKET"
  \/ /\ r.type = "LIMIT" /\ r.limit # None
     /\ IF r.side = "BUY" THEN mark <= r.limit ELSE mark >= r.limit
  \/ /\ r.type \in TriggerTypes /\ r.trigger # None
     /\ IF r.trigger <= reference THEN mark <= r.trigger ELSE mark >= r.trigger

\* tick_paper_accounts: gated on market hours and mode, one pass per account.
StartTick ==
  /\ Idle
  /\ marketOpen /\ mode = "paper"
  /\ pass' = {o \in OrderIds : status[o] = "resting"}
  /\ UNCHANGED <<mode, marketOpen, orderVars, cashVars, bookVars, cancelling>>

Before(p, o) ==
  \E i, j \in DOMAIN blotter : i < j /\ blotter[i] = p /\ blotter[j] = o

\* The pass goes to o: the oldest it has not visited, siblings cancelled.
VisitBeforeSiblingsGo(o) ==
  /\ o \in pass
  /\ ~\E p \in pass : Before(p, o)
  /\ pass' = pass \ {o}
  /\ UNCHANGED <<mode, marketOpen, request, blotter>>

Visit(o) ==
  /\ cancelling = {}
  /\ o \in pass
  /\ ~\E p \in pass : Before(p, o)
  /\ pass' = pass \ {o}
  /\ UNCHANGED <<mode, marketOpen, request, blotter>>

\* The first mark an order meets becomes its reference.
Reference(o, mark) == IF intended_price[o] = None THEN mark ELSE intended_price[o]

\* Nothing to do: already closed in this pass, no mark, or the price is not there.
SkipEndsThePass(o, mark) ==
  /\ cancelling = {}
  /\ o \in pass
  /\ ~\E p \in pass : Before(p, o)
  /\ status[o] = "resting" /\ mark # None =>
       ~ShouldFill(request[o], Reference(o, mark), mark)
  /\ pass' = {}
  /\ UNCHANGED <<mode, marketOpen, orderVars, cashVars, bookVars, cancelling>>

Skip(o, mark) ==
  /\ Visit(o)
  /\ \/ /\ status[o] # "resting" \/ mark = None
        /\ UNCHANGED intended_price
     \/ /\ status[o] = "resting" /\ mark # None
        /\ ~ShouldFill(request[o], Reference(o, mark), mark)
        /\ intended_price' = [intended_price EXCEPT ![o] = Reference(o, mark)]
  /\ UNCHANGED <<status, reserved_cash, cashVars, bookVars, cancelling>>

\* fill_resting_order: release, then fill; siblings go only if the fill stood.
Fire(o, mark) ==
  LET r == request[o] IN
  /\ Visit(o)
  /\ status[o] = "resting" /\ mark # None
  /\ ShouldFill(r, Reference(o, mark), mark)
  /\ intended_price' = [intended_price EXCEPT ![o] = Reference(o, mark)]
  /\ reserved_cash' = [reserved_cash EXCEPT ![o] = 0]
  /\ cash_reserved' = cash_reserved - reserved_cash[o]
  /\ ExecuteFill(o, r, mark, cash_available + reserved_cash[o], ReleasedLedger(o))
  /\ cancelling' =
       IF status'[o] = "filled" /\ r.group # None
       THEN {p \in OrderIds \ {o} : status[p] = "resting" /\ request[p].group = r.group}
       ELSE {}

-----------------------------------------------------------------------------
(* Around the book *)

SetMode(m) ==
  /\ Idle
  /\ mode' = m
  /\ UNCHANGED <<marketOpen, orderVars, cashVars, bookVars, loopVars>>

ExchangeSession(open) ==
  /\ Idle
  /\ marketOpen' = open
  /\ UNCHANGED <<mode, orderVars, cashVars, bookVars, loopVars>>

Marks == Prices \cup {None}

Next ==
  \/ \E o \in OrderIds, r \in Requests, mark \in Marks :
       PlaceMarket(o, r, mark) \/ PlaceResting(o, r, mark)
  \/ \E sl, tp \in OrderIds, g \in Groups, b \in Brackets, m, n \in Marks :
       PlaceBracket(sl, tp, g, b, m, n)
  \/ \E o \in OrderIds, s \in Symbols, mark \in Marks : Squareoff(o, s, mark)
  \/ \E o \in OrderIds, s \in Symbols : SquareoffRetry(o, s)
  \/ \E o \in OrderIds : CancelOrder(o) \/ CancelNext(o)
  \/ StartTick
  \/ \E o \in OrderIds, mark \in Marks : Skip(o, mark) \/ Fire(o, mark)
  \/ \E m \in {"paper", "live"} : SetMode(m)
  \/ \E open \in BOOLEAN : ExchangeSession(open)

Spec == Init /\ [][Next]_vars

-----------------------------------------------------------------------------
(* Properties *)

LedgerEntry == [kind : {"seed", "reserve", "release", "buy_debit", "sell_credit"},
                amount : Int, balance : Int]
Fill == [order : OrderIds, symbol : Symbols, side : {"BUY", "SELL"},
         qty : Positive, cashflow : Int]

ControlTyped ==
  /\ mode \in {"paper", "live"} /\ marketOpen \in BOOLEAN
  /\ pass \subseteq OrderIds /\ cancelling \subseteq OrderIds

\* A row that was inserted has a request, and only such a row.
RowsTyped ==
  /\ status \in [OrderIds -> Status]
  /\ request \in [OrderIds -> Request \cup {None}]
  /\ \A o \in OrderIds : request[o] = None <=> status[o] = "absent"
  /\ intended_price \in [OrderIds -> Positive \cup {None}]
  /\ blotter \in Seq(OrderIds)

CashTyped ==
  /\ reserved_cash \in [OrderIds -> Nat]
  /\ cash_available \in Int /\ cash_reserved \in Int /\ cash_settled \in Int

JournalTyped ==
  /\ position \in [Symbols -> Int]
  /\ ledger \in Seq(LedgerEntry)
  /\ fills \in Seq(Fill)

\* Every variable keeps its type (models.py declares the columns).
TypeOK == ControlTyped /\ RowsTyped /\ CashTyped /\ JournalTyped

\* Settled cash is always the free cash plus what resting orders hold, whatever
\* order of reserves, releases, fills and cancels led here (fills.py, module
\* docstring: "the exact invariant").
CashIdentity == cash_settled = cash_available + cash_reserved

\* An order is sold, and costs its flat charge at most.
SaleIsCharged ==
  /\ cash_available' >= cash_available - FlatCharge
  /\ \E o \in OrderIds : /\ status[o] # "filled" /\ status'[o] = "filled"
                         /\ request'[o].side = "SELL"

\* Only a sale overdraws the free balance, and by the flat charge at most: a
\* reserve and a buy are gated on it, a fill that follows a release is re-checked,
\* and no operation spends on while it is negative.  A sale is not gated, and the
\* flat charge may exceed what it brings (fills.py, the SELL branch).
OnlySalesOverdraw ==
  [][cash_available' < cash_available /\ cash_available' < 0 => SaleIsCharged]_vars

\* The book is long-only: whatever exits race (bracket legs, a stop and a
\* square-off, two sells queued for the open), no symbol is ever sold short.
LongOnly == \A s \in Symbols : position[s] >= 0

\* The ledger replays: each row's balance is the previous row's plus its amount,
\* and the last balance is the account's free cash (models.py, PaperLedgerEntry:
\* the rows reconstruct the cash).
Replays(rows, balance) ==
  /\ rows # <<>>
  /\ rows[1].balance = rows[1].amount
  /\ \A i \in 2 .. Len(rows) : rows[i].balance = rows[i - 1].balance + rows[i].amount
  /\ rows[Len(rows)].balance = balance

LedgerReplays == Replays(ledger, cash_available)

\* An order that is not resting holds no cash: no fill, reject or cancel path
\* leaves a reserve behind.
OnlyRestingHold == \A o \in OrderIds : reserved_cash[o] > 0 => status[o] = "resting"

\* A closed order never moves again: a replayed client_request_id, a later
\* evaluator pass, or a cancel loop that lists it leaves its row alone.
TerminalIsFinal ==
  [][\A o \in OrderIds : status[o] \in Terminal =>
        status'[o] = status[o] /\ request'[o] = request[o]]_vars

\* Once it rests, a LIMIT buy is never rejected for want of the cash it reserved,
\* unless sales have overdrawn the free cash meanwhile (broker.py: buy_cost at the
\* limit is an upper bound on the fill's debit).
LimitBuyKeepsItsCash ==
  [][\A o \in OrderIds :
        /\ reserved_cash[o] > 0 /\ request[o].type = "LIMIT"
        /\ status'[o] = "rejected"
        => cash_available < 0]_vars

-----------------------------------------------------------------------------
(* The book implements the abstract cash book: an order's hold is its        *)
(* reserved_cash, and the settled orders are the filled ones.                *)
FilledOn(side) == {o \in OrderIds : status[o] = "filled" /\ request[o].side = side}

Cash == INSTANCE CashBook WITH
          Orders <- OrderIds,
          Capital <- SeedCapital,
          Fee <- FlatCharge,
          free <- cash_available,
          hold <- reserved_cash,
          bought <- FilledOn("BUY"),
          sold <- FilledOn("SELL")

\* Every step of the book holds for, releases from, buys or sells for one order,
\* or leaves the cash alone: no operation moves money twice for an order, no
\* reserve or purchase overdraws the book, and a sale never holds cash.
ImplementsCashBook == Cash!Spec

=============================================================================
