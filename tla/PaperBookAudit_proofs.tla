------------------------ MODULE PaperBookAudit_proofs ------------------------
(* What an auditor recomputes from the paper book always agrees with it. *)
EXTENDS PaperBookAudit, PaperBook_proofs, FiniteSums

-----------------------------------------------------------------------------
(* The reserve is the sum of the holds *)

\* One order's hold changes, and the account's reserve by as much.
HoldChanges(o) ==
  /\ reserved_cash' = [reserved_cash EXCEPT ![o] = reserved_cash'[o]]
  /\ reserved_cash'[o] \in Nat
  /\ cash_reserved' = cash_reserved - reserved_cash[o] + reserved_cash'[o]

LEMMA ReserveSteps ==
  ASSUME BookInv, [Next]_vars
  PROVE  UNCHANGED <<reserved_cash, cash_reserved>> \/ \E o \in OrderIds : HoldChanges(o)
  <1>0. reserved_cash \in [OrderIds -> Nat] /\ cash_reserved \in Int
    BY DEF BookInv, TypeOK, CashTyped
  <1>1. ASSUME NEW o \in OrderIds,
               reserved_cash' = [reserved_cash EXCEPT ![o] = 0],
               cash_reserved' = cash_reserved - reserved_cash[o]
        PROVE  HoldChanges(o)
    BY <1>0, <1>1 DEF HoldChanges
  <1>2. ASSUME NEW o \in OrderIds, NEW r \in Requests, NEW mark, PlaceResting(o, r, mark)
        PROVE  UNCHANGED <<reserved_cash, cash_reserved>> \/ HoldChanges(o)
    <2>1. ~(reserved_cash[o] > 0)
      BY <1>2 DEF PlaceResting, Insert, BookInv, OnlyRestingHold
    <2>2. CASE OnlyStatus(o, "resting") \/ OnlyStatus(o, "rejected")
      BY <2>2 DEF OnlyStatus, cashVars
    <2>3. CASE /\ Reserves(r)
               /\ reserved_cash' = [reserved_cash EXCEPT ![o] = BuyCost(r.limit, r.qty)]
               /\ cash_reserved' = cash_reserved + BuyCost(r.limit, r.qty)
      <3>1. BuyCost(r.limit, r.qty) \in Nat
        BY <2>3, RequestsTyped, CostTypes DEF Reserves, Request, Positive
      <3> QED
        BY <1>0, <2>1, <2>3, <3>1 DEF HoldChanges
    <2> QED
      BY <1>2, <2>2, <2>3 DEF PlaceResting
  <1>3. ASSUME NEW o, NEW r, NEW mark, MarketOrder(o, r, mark)
        PROVE  UNCHANGED <<reserved_cash, cash_reserved>>
    BY <1>3 DEF MarketOrder, OnlyStatus, cashVars
  <1>4. ASSUME NEW o \in OrderIds, NEW s \in Symbols, NEW mark, Squareoff(o, s, mark)
        PROVE  UNCHANGED <<reserved_cash, cash_reserved>>
    BY <1>3, <1>4 DEF Squareoff
  <1>5. ASSUME NEW o \in OrderIds, CancelOrder(o) \/ CancelNext(o)
        PROVE  UNCHANGED <<reserved_cash, cash_reserved>> \/ HoldChanges(o)
    BY <1>1, <1>5 DEF CancelOrder, CancelNext, CancelResting, orderVars, cashVars
  <1>6. ASSUME NEW o \in OrderIds, NEW mark \in Marks, Fire(o, mark) PROVE HoldChanges(o)
    BY <1>1, <1>6 DEF Fire
  <1>7. CASE \/ StartTick \/ UNCHANGED vars
             \/ \E o \in OrderIds, mark \in Marks : Skip(o, mark)
             \/ \E m \in {"paper", "live"} : SetMode(m)
             \/ \E open \in BOOLEAN : ExchangeSession(open)
             \/ \E o \in OrderIds, s \in Symbols : SquareoffRetry(o, s)
    BY <1>7 DEF StartTick, Skip, SetMode, ExchangeSession, SquareoffRetry, vars, orderVars,
       cashVars
  <1>8. ASSUME NEW sl, NEW tp, NEW g, NEW b, NEW m, NEW n, PlaceBracket(sl, tp, g, b, m, n)
        PROVE  UNCHANGED <<reserved_cash, cash_reserved>>
    BY <1>8 DEF PlaceBracket, cashVars
  <1> QED
    BY <1>2, <1>3, <1>4, <1>5, <1>6, <1>7, <1>8 DEF Next, PlaceMarket

LEMMA ReserveNext ==
  ASSUME BookInv, BookInv', ReserveIsHeldByOrders, [Next]_vars
  PROVE  ReserveIsHeldByOrders'
  <1>0. /\ reserved_cash \in [OrderIds -> Nat] /\ cash_reserved \in Int
        /\ cash_reserved = SumFunctionOnSet(reserved_cash, OrderIds)
    BY DEF BookInv, TypeOK, CashTyped, ReserveIsHeldByOrders
  <1>1. cash_reserved' = SumFunctionOnSet(reserved_cash', OrderIds)
    <2>1. CASE UNCHANGED <<reserved_cash, cash_reserved>>
      BY <1>0, <2>1
    <2>2. ASSUME NEW o \in OrderIds, HoldChanges(o)
          PROVE  cash_reserved' = SumFunctionOnSet(reserved_cash', OrderIds)
      <3>1. /\ \A p \in OrderIds : reserved_cash[p] \in Int /\ reserved_cash'[p] \in Int
            /\ \A p \in OrderIds \ {o} : reserved_cash'[p] = reserved_cash[p]
        BY <1>0, <2>2 DEF HoldChanges
      <3>2. SumFunctionOnSet(reserved_cash', OrderIds) =
              SumFunctionOnSet(reserved_cash, OrderIds) - reserved_cash[o] + reserved_cash'[o]
        BY <3>1, OrdersAssumption, SumChanged
      <3> QED
        BY <1>0, <2>2, <3>2 DEF HoldChanges
    <2> QED
      BY <2>1, <2>2, ReserveSteps
  <1> QED
    BY <1>1 DEF ReserveIsHeldByOrders, BookInv

\* The account's reserve is, after any history, the sum of what its resting
\* orders hold (fills.py and broker.py move the two together).
THEOREM ReserveAlwaysHeldByOrders == Spec => []ReserveIsHeldByOrders
  <1>1. Init => ReserveIsHeldByOrders
    <2> SUFFICES ASSUME Init PROVE ReserveIsHeldByOrders
      OBVIOUS
    <2>1. SumFunctionOnSet(reserved_cash, OrderIds) = 0
      BY OrdersAssumption, SumZero DEF Init
    <2> QED
      BY <2>1, BookInit DEF Init, ReserveIsHeldByOrders, BookInv
  <1>2. BookInv /\ BookInv' /\ ReserveIsHeldByOrders /\ [Next]_vars => ReserveIsHeldByOrders'
    BY ReserveNext
  <1> QED
    BY <1>1, <1>2, BookAlways, PTL DEF Spec

-----------------------------------------------------------------------------
(* The fill journal explains the book *)

\* No row of the journal is written, and no order becomes filled.
JournalStands ==
  /\ UNCHANGED <<fills, position, cash_settled>>
  /\ \A p \in OrderIds : status'[p] = "filled" <=> status[p] = "filled"

\* One order fills: its row is written, and position and cash move by it.
OrderFills(o, f) ==
  /\ status[o] \in {"absent", "resting"}
  /\ status' = [status EXCEPT ![o] = "filled"]
  /\ fills' = Append(fills, f)
  /\ position' = [position EXCEPT ![f.symbol] = @ + Signed(f)]
  /\ cash_settled' = cash_settled + f.cashflow
  /\ f.order = o
  /\ f.symbol = request'[o].symbol /\ f.side = request'[o].side /\ f.qty = request'[o].qty

LEMMA ExecuteFillJournal ==
  ASSUME BookInv, NEW o \in OrderIds, status[o] \in {"absent", "resting"},
         NEW r \in Request, NEW price \in Positive, NEW avail, NEW led,
         ExecuteFill(o, r, price, avail, led), request'[o] = r
  PROVE  JournalStands \/ \E f \in Fill : OrderFills(o, f)
  <1>0. /\ status \in [OrderIds -> Status] /\ position \in [Symbols -> Int]
        /\ r.qty \in Positive /\ r.symbol \in Symbols /\ r.side \in {"BUY", "SELL"}
    BY DEF BookInv, TypeOK, RowsTyped, JournalTyped, Request
  <1>1. CASE RejectFill(o, avail, led)
    BY <1>0, <1>1 DEF RejectFill, JournalStands
  <1>2. ASSUME NEW cashflow \in Int, NEW kind, BookFill(o, r, cashflow, kind, avail, led),
               position' = [position EXCEPT ![r.symbol] = @ + Signed(r)]
        PROVE  \E f \in Fill : OrderFills(o, f)
    <2> DEFINE f == [order |-> o, symbol |-> r.symbol, side |-> r.side,
                     qty |-> r.qty, cashflow |-> cashflow]
    <2>1. f \in Fill
      BY <1>0 DEF Fill
    <2>2. Signed(f) = Signed(r)
      BY DEF Signed
    <2>3. OrderFills(o, f)
      BY <1>2, <2>2 DEF BookFill, OrderFills
    <2> QED
      BY <2>1, <2>3
  <1>3. CASE /\ r.side = "BUY"
             /\ position' = [position EXCEPT ![r.symbol] = @ + r.qty]
             /\ BookFill(o, r, -BuyCost(price, r.qty), "buy_debit", avail, led)
    <2>1. -BuyCost(price, r.qty) \in Int
      BY <1>0, CostTypes DEF Positive
    <2>2. position' = [position EXCEPT ![r.symbol] = @ + Signed(r)]
      BY <1>3 DEF Signed
    <2> QED
      BY <1>2, <1>3, <2>1, <2>2
  <1>4. CASE /\ r.side = "SELL"
             /\ position' = [position EXCEPT ![r.symbol] = @ - r.qty]
             /\ BookFill(o, r, SellCredit(price, r.qty), "sell_credit", avail, led)
    <2>1. SellCredit(price, r.qty) \in Int
      BY <1>0, CostTypes
    <2>2. position' = [position EXCEPT ![r.symbol] = @ + Signed(r)]
      <3>1. Signed(r) = -r.qty
        BY <1>4 DEF Signed
      <3>2. position[r.symbol] - r.qty = position[r.symbol] + (-r.qty)
        BY <1>0 DEF Positive
      <3> QED
        BY <1>4, <3>1, <3>2
    <2> QED
      BY <1>2, <1>4, <2>1, <2>2
  <1> QED
    BY <1>1, <1>3, <1>4 DEF ExecuteFill

LEMMA JournalSteps ==
  ASSUME BookInv, [Next]_vars
  PROVE  JournalStands \/ \E o \in OrderIds, f \in Fill : OrderFills(o, f)
  <1>0. /\ status \in [OrderIds -> Status]
        /\ request \in [OrderIds -> Request \cup {None}]
    BY DEF BookInv, TypeOK, RowsTyped
  <1>1. ASSUME NEW o \in OrderIds, NEW r \in Request, NEW mark \in Marks,
               MarketOrder(o, r, mark)
        PROVE  JournalStands \/ \E f \in Fill : OrderFills(o, f)
    <2>1. status[o] = "absent" /\ request'[o] = r
      BY <1>0, <1>1 DEF MarketOrder, Insert
    <2>2. CASE OnlyStatus(o, "resting") \/ OnlyStatus(o, "rejected")
      BY <1>0, <2>1, <2>2 DEF OnlyStatus, cashVars, bookVars, JournalStands
    <2>3. CASE mark # None /\ ExecuteFill(o, r, mark, cash_available, ledger)
      <3>1. mark \in Positive
        BY <2>3, MarksTyped
      <3> QED
        BY <2>1, <2>3, <3>1, ExecuteFillJournal
    <2> QED
      BY <1>1, <2>2, <2>3 DEF MarketOrder
  <1>2. ASSUME NEW o \in OrderIds, NEW r, NEW mark, PlaceResting(o, r, mark)
        PROVE  JournalStands
    <2>1. status[o] = "absent"
      BY <1>2 DEF PlaceResting, Insert
    <2> QED
      BY <1>0, <1>2, <2>1 DEF PlaceResting, OnlyStatus, cashVars, bookVars, JournalStands
  <1>3. ASSUME NEW sl \in OrderIds, NEW tp \in OrderIds, NEW g, NEW b, NEW m, NEW n,
               PlaceBracket(sl, tp, g, b, m, n)
        PROVE  JournalStands
    BY <1>0, <1>3 DEF PlaceBracket, cashVars, bookVars, JournalStands
  <1>4. ASSUME NEW o \in OrderIds, NEW s \in Symbols, NEW mark \in Marks,
               Squareoff(o, s, mark)
        PROVE  JournalStands \/ \E f \in Fill : OrderFills(o, f)
    <2> DEFINE exit == [symbol |-> s, side |-> "SELL", type |-> "MARKET",
                        qty |-> position[s],
                        limit |-> None, trigger |-> None, group |-> None]
    <2>1. position[s] \in Positive
      BY <1>4 DEF Squareoff, BookInv, TypeOK, JournalTyped, LongOnly, Positive
    <2>2. exit \in Request /\ MarketOrder(o, exit, mark)
      BY <1>4, <2>1 DEF Squareoff, Request, Types
    <2> QED
      BY <1>1, <2>2
  <1>5. ASSUME NEW o \in OrderIds, CancelOrder(o) \/ CancelNext(o) PROVE JournalStands
    BY <1>0, <1>5 DEF CancelOrder, CancelNext, CancelResting, orderVars, cashVars, bookVars,
       JournalStands
  <1>6. ASSUME NEW o \in OrderIds, NEW mark \in Marks, Fire(o, mark)
        PROVE  JournalStands \/ \E f \in Fill : OrderFills(o, f)
    <2>1. /\ status[o] = "resting" /\ mark \in Positive
          /\ request' = request /\ request[o] \in Request
      BY <1>6, MarksTyped DEF Fire, Visit, BookInv, TypeOK, RowsTyped
    <2>2. ExecuteFill(o, request[o], mark, cash_available + reserved_cash[o],
                      ReleasedLedger(o))
      BY <1>6 DEF Fire
    <2> QED
      BY <2>1, <2>2, ExecuteFillJournal
  <1>7. CASE \/ StartTick \/ UNCHANGED vars
             \/ \E o \in OrderIds, mark \in Marks : Skip(o, mark)
             \/ \E m \in {"paper", "live"} : SetMode(m)
             \/ \E open \in BOOLEAN : ExchangeSession(open)
             \/ \E o \in OrderIds, s \in Symbols : SquareoffRetry(o, s)
    BY <1>7 DEF StartTick, Skip, SetMode, ExchangeSession, SquareoffRetry, vars, orderVars,
       cashVars, bookVars, JournalStands
  <1>8. ASSUME NEW o \in OrderIds, NEW r \in Requests, NEW mark \in Marks,
               PlaceMarket(o, r, mark)
        PROVE  JournalStands \/ \E f \in Fill : OrderFills(o, f)
    BY <1>1, <1>8, RequestsTyped DEF PlaceMarket
  <1> QED
    BY <1>2, <1>3, <1>4, <1>5, <1>6, <1>7, <1>8 DEF Next

\* Row by row, the journal and the filled orders are in one-to-one correspondence.
JournalMatches ==
  /\ \A i \in FillIndices :
       /\ status[fills[i].order] = "filled"
       /\ fills[i].symbol = request[fills[i].order].symbol
       /\ fills[i].side = request[fills[i].order].side
       /\ fills[i].qty = request[fills[i].order].qty
  /\ \A i, j \in FillIndices : fills[i].order = fills[j].order => i = j
  /\ \A o \in OrderIds : status[o] = "filled" => \E i \in FillIndices : fills[i].order = o

JournalAddsUp ==
  /\ cash_settled = SeedCapital + SumFunctionOnSet(Cashflows, FillIndices)
  /\ \A s \in Symbols : position[s] = SumFunctionOnSet(SignedQuantities, FillsOn(s))

LEMMA JournalFinite ==
  ASSUME TypeOK
  PROVE  /\ FillIndices = 1 .. Len(fills) /\ Len(fills) \in Nat
         /\ IsFiniteSet(FillIndices)
         /\ \A i \in FillIndices : fills[i] \in Fill
         /\ \A i \in FillIndices : Cashflows[i] \in Int /\ SignedQuantities[i] \in Int
         /\ \A s : IsFiniteSet(FillsOn(s)) /\ FillsOn(s) \subseteq FillIndices
         /\ \A o : IsFiniteSet(FillsOf(o))
  <1>1. fills \in Seq(Fill)
    BY DEF TypeOK, JournalTyped
  <1>2. /\ FillIndices = 1 .. Len(fills) /\ Len(fills) \in Nat
        /\ \A i \in FillIndices : fills[i] \in Fill
    BY <1>1, LenProperties, ElementOfSeq DEF FillIndices
  <1>3. IsFiniteSet(FillIndices)
    BY <1>2, FS_Interval
  <1>4. \A i \in FillIndices : Cashflows[i] \in Int /\ SignedQuantities[i] \in Int
    BY <1>2 DEF Cashflows, SignedQuantities, Signed, Fill, Positive
  <1>5. \A s : FillsOn(s) \subseteq FillIndices
    BY DEF FillsOn
  <1>6. \A o : FillsOf(o) \subseteq FillIndices
    BY DEF FillsOf
  <1> QED
    BY <1>2, <1>3, <1>4, <1>5, <1>6, FS_Subset

LEMMA JournalExplains ==
  ASSUME TypeOK, JournalMatches, JournalAddsUp
  PROVE  FillsExplainBook
  <1>1. ASSUME NEW o \in OrderIds
        PROVE  Cardinality(FillsOf(o)) = IF status[o] = "filled" THEN 1 ELSE 0
    <2>1. CASE status[o] = "filled"
      <3>1. PICK i \in FillIndices : fills[i].order = o
        BY <2>1 DEF JournalMatches
      <3>2. FillsOf(o) = {i}
        BY <3>1 DEF JournalMatches, FillsOf
      <3> QED
        BY <2>1, <3>2, FS_Singleton
    <2>2. CASE status[o] # "filled"
      <3>1. FillsOf(o) = {}
        BY <2>2 DEF JournalMatches, FillsOf
      <3> QED
        BY <2>2, <3>1, FS_EmptySet
    <2> QED
      BY <2>1, <2>2
  <1> QED
    BY <1>1 DEF JournalMatches, JournalAddsUp, FillsExplainBook, FillsOf

\* The journal after one more row.
LEMMA JournalGrows ==
  ASSUME TypeOK, NEW f \in Fill, fills' = Append(fills, f)
  PROVE  LET n == Len(fills) + 1
         IN  /\ n \notin FillIndices /\ FillIndices' = FillIndices \cup {n}
             /\ fills'[n] = f /\ \A i \in FillIndices : fills'[i] = fills[i]
             /\ Cashflows'[n] = f.cashflow
             /\ \A i \in FillIndices : Cashflows'[i] = Cashflows[i]
             /\ SignedQuantities'[n] = Signed(f)
             /\ \A i \in FillIndices : SignedQuantities'[i] = SignedQuantities[i]
             /\ \A s : FillsOn(s)' = IF s = f.symbol THEN FillsOn(s) \cup {n} ELSE FillsOn(s)
  <1> DEFINE n == Len(fills) + 1
  <1>1. fills \in Seq(Fill) /\ FillIndices = 1 .. Len(fills) /\ Len(fills) \in Nat
    BY JournalFinite DEF TypeOK, JournalTyped
  <1>2. /\ DOMAIN fills' = 1 .. n /\ fills'[n] = f
        /\ \A i \in 1 .. Len(fills) : fills'[i] = fills[i]
    BY <1>1, AppendProperties, LenProperties
  <1>3. /\ n \notin FillIndices /\ FillIndices' = FillIndices \cup {n}
        /\ \A i \in FillIndices : fills'[i] = fills[i]
    BY <1>1, <1>2 DEF FillIndices
  <1>4. n \in FillIndices' /\ \A i \in FillIndices : i \in FillIndices'
    BY <1>3
  <1>5. Cashflows'[n] = f.cashflow /\ \A i \in FillIndices : Cashflows'[i] = Cashflows[i]
    BY <1>2, <1>3, <1>4 DEF Cashflows
  <1>6. /\ SignedQuantities'[n] = Signed(f)
        /\ \A i \in FillIndices : SignedQuantities'[i] = SignedQuantities[i]
    BY <1>2, <1>3, <1>4 DEF SignedQuantities, Signed
  <1>7. ASSUME NEW s
        PROVE  FillsOn(s)' = IF s = f.symbol THEN FillsOn(s) \cup {n} ELSE FillsOn(s)
    BY <1>2, <1>3 DEF FillsOn
  <1> QED
    BY <1>2, <1>3, <1>5, <1>6, <1>7

LEMMA AddsUpFill ==
  ASSUME BookInv, BookInv', JournalAddsUp, NEW o \in OrderIds, NEW f \in Fill, OrderFills(o, f)
  PROVE  JournalAddsUp'
  <1> DEFINE n == Len(fills) + 1
  <1>1. /\ n \notin FillIndices /\ FillIndices' = FillIndices \cup {n}
        /\ Cashflows'[n] = f.cashflow
        /\ \A i \in FillIndices : Cashflows'[i] = Cashflows[i]
        /\ SignedQuantities'[n] = Signed(f)
        /\ \A i \in FillIndices : SignedQuantities'[i] = SignedQuantities[i]
        /\ \A s : FillsOn(s)' = IF s = f.symbol THEN FillsOn(s) \cup {n} ELSE FillsOn(s)
    BY JournalGrows DEF OrderFills, BookInv
  <1>2. /\ IsFiniteSet(FillIndices)
        /\ \A i \in FillIndices : Cashflows[i] \in Int /\ SignedQuantities[i] \in Int
        /\ \A s : IsFiniteSet(FillsOn(s)) /\ FillsOn(s) \subseteq FillIndices
    BY JournalFinite DEF BookInv
  <1>3. f.cashflow \in Int /\ Signed(f) \in Int /\ f.symbol \in Symbols
    BY DEF Fill, Signed, Positive
  <1> HIDE DEF n
  <1>4. cash_settled' = SeedCapital + SumFunctionOnSet(Cashflows', FillIndices')
    <2>1. \A i \in FillIndices \cup {n} : Cashflows'[i] \in Int
      BY <1>1, <1>2, <1>3
    <2>2. SumFunctionOnSet(Cashflows', FillIndices \cup {n}) =
            SumFunctionOnSet(Cashflows', FillIndices) + Cashflows'[n]
      BY <1>1, <1>2, <2>1, SumWith
    <2>3. SumFunctionOnSet(Cashflows', FillIndices) = SumFunctionOnSet(Cashflows, FillIndices)
      BY <1>1, <1>2, SumAgrees
    <2>4. SumFunctionOnSet(Cashflows, FillIndices) \in Int
      BY <1>2, SumType
    <2>5. /\ cash_settled' = cash_settled + f.cashflow /\ SeedCapital \in Int
          /\ cash_settled = SeedCapital + SumFunctionOnSet(Cashflows, FillIndices)
      BY MoneyAssumption DEF OrderFills, JournalAddsUp
    <2>6. SumFunctionOnSet(Cashflows', FillIndices') =
            SumFunctionOnSet(Cashflows, FillIndices) + f.cashflow
      BY <1>1, <2>2, <2>3
    <2> QED
      BY <1>3, <2>4, <2>5, <2>6
  <1>5. ASSUME NEW s \in Symbols
        PROVE  position'[s] = SumFunctionOnSet(SignedQuantities', FillsOn(s)')
    <2>1. SumFunctionOnSet(SignedQuantities', FillsOn(s)) =
            SumFunctionOnSet(SignedQuantities, FillsOn(s))
      BY <1>1, <1>2, SumAgrees
    <2>2. /\ position \in [Symbols -> Int]
          /\ position[s] = SumFunctionOnSet(SignedQuantities, FillsOn(s))
          /\ position' = [position EXCEPT ![f.symbol] = @ + Signed(f)]
      BY DEF OrderFills, JournalAddsUp, BookInv, TypeOK, JournalTyped
    <2>3. CASE s = f.symbol
      <3>1. /\ FillsOn(s)' = FillsOn(s) \cup {n} /\ n \notin FillsOn(s)
            /\ \A i \in FillsOn(s) \cup {n} : SignedQuantities'[i] \in Int
        BY <1>1, <1>2, <1>3, <2>3
      <3>2. SumFunctionOnSet(SignedQuantities', FillsOn(s) \cup {n}) =
              SumFunctionOnSet(SignedQuantities', FillsOn(s)) + SignedQuantities'[n]
        BY <1>2, <3>1, SumWith
      <3>3. position'[s] = position[s] + Signed(f)
        BY <1>3, <2>2, <2>3
      <3> QED
        BY <1>1, <2>1, <2>2, <3>1, <3>2, <3>3
    <2>4. CASE s # f.symbol
      <3>1. FillsOn(s)' = FillsOn(s) /\ position'[s] = position[s]
        BY <1>1, <2>2, <2>4
      <3> QED
        BY <2>1, <2>2, <3>1
    <2> QED
      BY <2>3, <2>4
  <1> QED
    BY <1>4, <1>5 DEF JournalAddsUp

LEMMA MatchesFill ==
  ASSUME BookInv, JournalMatches, [Next]_vars,
         NEW o \in OrderIds, NEW f \in Fill, OrderFills(o, f)
  PROVE  JournalMatches'
  <1> DEFINE n == Len(fills) + 1
  <1>1. /\ n \notin FillIndices /\ FillIndices' = FillIndices \cup {n}
        /\ fills'[n] = f /\ \A i \in FillIndices : fills'[i] = fills[i]
    BY JournalGrows DEF OrderFills, BookInv
  <1> HIDE DEF n
  <1>2. /\ status \in [OrderIds -> Status] /\ status[o] # "filled" /\ status'[o] = "filled"
        /\ \A p \in OrderIds : p # o => status'[p] = status[p]
        /\ f.order = o /\ f.symbol = request'[o].symbol /\ f.side = request'[o].side
        /\ f.qty = request'[o].qty
    BY DEF OrderFills, BookInv, TypeOK, RowsTyped
  <1>3. \A i \in FillIndices : /\ fills[i].order \in OrderIds /\ fills[i].order # o
                               /\ status[fills[i].order] = "filled"
    BY <1>2, JournalFinite DEF JournalMatches, BookInv, Fill
  <1>4. \A i \in FillIndices : request'[fills[i].order] = request[fills[i].order]
    BY <1>3, ClosedRowsStand DEF RowStands, Terminal
  <1>5. ASSUME NEW i \in FillIndices'
        PROVE  /\ status'[fills'[i].order] = "filled"
               /\ fills'[i].symbol = request'[fills'[i].order].symbol
               /\ fills'[i].side = request'[fills'[i].order].side
               /\ fills'[i].qty = request'[fills'[i].order].qty
    <2>1. CASE i = n
      BY <1>1, <1>2, <2>1
    <2>2. CASE i \in FillIndices
      BY <1>1, <1>2, <1>3, <1>4, <2>2 DEF JournalMatches
    <2> QED
      BY <1>1, <2>1, <2>2
  <1>6. \A i, j \in FillIndices' : fills'[i].order = fills'[j].order => i = j
    BY <1>1, <1>2, <1>3 DEF JournalMatches
  <1>7. ASSUME NEW p \in OrderIds, status'[p] = "filled"
        PROVE  \E i \in FillIndices' : fills'[i].order = p
    <2>1. CASE p = o
      BY <1>1, <1>2, <2>1
    <2>2. CASE p # o
      <3>1. PICK i \in FillIndices : fills[i].order = p
        BY <1>2, <1>7, <2>2 DEF JournalMatches
      <3> QED
        BY <1>1, <3>1
    <2> QED
      BY <2>1, <2>2
  <1> QED
    BY <1>5, <1>6, <1>7 DEF JournalMatches

LEMMA JournalNext ==
  ASSUME BookInv, BookInv', JournalMatches, JournalAddsUp, [Next]_vars
  PROVE  JournalMatches' /\ JournalAddsUp'
  <1>1. CASE JournalStands
    <2>1. JournalAddsUp'
      BY <1>1 DEF JournalStands, JournalAddsUp, Cashflows, SignedQuantities, FillIndices,
         FillsOn, Signed
    <2>2. \A i \in FillIndices : /\ fills[i].order \in OrderIds
                                 /\ status[fills[i].order] = "filled"
      BY JournalFinite DEF JournalMatches, BookInv, Fill
    <2>3. \A i \in FillIndices : request'[fills[i].order] = request[fills[i].order]
      BY <2>2, ClosedRowsStand DEF RowStands, Terminal
    <2>4. JournalMatches'
      BY <1>1, <2>2, <2>3 DEF JournalStands, JournalMatches, FillIndices
    <2> QED
      BY <2>1, <2>4
  <1> QED
    BY <1>1, AddsUpFill, MatchesFill, JournalSteps

\* After any history of orders, cancels and passes the fill journal alone gives
\* back the settled cash and every position, and has one row for every filled
\* order (fills.py: the journal is the book's audit trail).
THEOREM FillsAlwaysExplainBook == Spec => []FillsExplainBook
  <1>1. Init => JournalMatches /\ JournalAddsUp
    <2> SUFFICES ASSUME Init PROVE JournalMatches /\ JournalAddsUp
      OBVIOUS
    <2>1. FillIndices = {} /\ \A s : FillsOn(s) = {}
      BY DEF Init, FillIndices, FillsOn
    <2>2. JournalMatches
      BY <2>1 DEF Init, JournalMatches
    <2>3. JournalAddsUp
      <3>1. /\ SumFunctionOnSet(Cashflows, FillIndices) = 0
            /\ \A s : SumFunctionOnSet(SignedQuantities, FillsOn(s)) = 0
        BY <2>1, SumEmpty
      <3>2. cash_settled = SeedCapital + 0 /\ \A s \in Symbols : position[s] = 0
        BY MoneyAssumption DEF Init
      <3> QED
        BY <3>1, <3>2 DEF JournalAddsUp
    <2> QED
      BY <2>2, <2>3
  <1>2. BookInv /\ BookInv' /\ JournalMatches /\ JournalAddsUp /\ [Next]_vars
          => JournalMatches' /\ JournalAddsUp'
    BY JournalNext
  <1>3. BookInv /\ JournalMatches /\ JournalAddsUp => FillsExplainBook
    BY JournalExplains DEF BookInv
  <1> QED
    BY <1>1, <1>2, <1>3, BookAlways, PTL DEF Spec

-----------------------------------------------------------------------------
(* One cancels the other *)

\* Two inserted orders of one bracket.
Siblings(o, p) ==
  /\ o # p /\ status[o] # "absent" /\ status[p] # "absent"
  /\ request[o].group \in Groups /\ request[p].group = request[o].group

\* Of two legs one has filled only if the other has not, and rests no longer
\* than the transaction that is cancelling it.
ExitsOnce ==
  \A o, p \in OrderIds :
    Siblings(o, p) /\ status[o] = "filled" =>
      status[p] # "filled" /\ (status[p] = "resting" => p \in cancelling)

\* A step that makes no siblings, fills no leg and lets nothing rest again.
LEMMA ExitsQuiet ==
  ASSUME BookInv, ExitsOnce,
         \A o, p \in OrderIds : Siblings(o, p)' => Siblings(o, p),
         \A o \in OrderIds : request'[o].group \in Groups /\ status'[o] = "filled"
           => status[o] = "filled",
         \A o \in OrderIds : request'[o].group \in Groups /\ status'[o] = "resting"
           => status[o] = "resting" /\ (o \in cancelling => o \in cancelling')
  PROVE  ExitsOnce'
  BY DEF ExitsOnce, Siblings

LEMMA MarketOrderExits ==
  ASSUME BookInv, ExitsOnce, NEW o \in OrderIds, NEW r, r.group = None, NEW mark,
         MarketOrder(o, r, mark), cancelling = {}
  PROVE  ExitsOnce'
  <1>0. status \in [OrderIds -> Status] /\ request \in [OrderIds -> Request \cup {None}]
    BY DEF BookInv, TypeOK, RowsTyped
  <1>1. /\ request'[o] = r /\ r.group \notin Groups
        /\ \A p \in OrderIds : p # o => request'[p] = request[p]
    BY <1>0, NoneAssumption DEF MarketOrder, Insert
  <1>2. \A p \in OrderIds : p # o => status'[p] = status[p]
    BY <1>0 DEF MarketOrder, OnlyStatus, ExecuteFill, BookFill, RejectFill, Affordable, Covered
  <1>3. \A p, q \in OrderIds : Siblings(p, q)' => Siblings(p, q)
    BY <1>1, <1>2 DEF Siblings
  <1> QED
    BY <1>1, <1>2, <1>3, ExitsQuiet

LEMMA PlaceRestingExits ==
  ASSUME BookInv, ExitsOnce, NEW o \in OrderIds, NEW r, r.group = None, NEW mark,
         PlaceResting(o, r, mark)
  PROVE  ExitsOnce'
  <1>0. status \in [OrderIds -> Status] /\ request \in [OrderIds -> Request \cup {None}]
    BY DEF BookInv, TypeOK, RowsTyped
  <1>1. /\ request'[o] = r /\ r.group \notin Groups /\ cancelling' = cancelling
        /\ \A p \in OrderIds : p # o => request'[p] = request[p]
    BY <1>0, NoneAssumption DEF PlaceResting, Insert
  <1>2. \A p \in OrderIds : p # o => status'[p] = status[p]
    BY <1>0 DEF PlaceResting, OnlyStatus
  <1>3. \A p, q \in OrderIds : Siblings(p, q)' => Siblings(p, q)
    BY <1>1, <1>2 DEF Siblings
  <1> QED
    BY <1>1, <1>2, <1>3, ExitsQuiet

LEMMA PlaceBracketExits ==
  ASSUME BookInv, ExitsOnce, NEW sl \in OrderIds, NEW tp \in OrderIds, NEW g \in Groups,
         NEW b, NEW m, NEW n, PlaceBracket(sl, tp, g, b, m, n)
  PROVE  ExitsOnce'
  <1>0. status \in [OrderIds -> Status] /\ request \in [OrderIds -> Request \cup {None}]
    BY DEF BookInv, TypeOK, RowsTyped
  <1>1. /\ \A p \in {sl, tp} : status'[p] = "resting" /\ request'[p].group = g
        /\ \A p \in OrderIds \ {sl, tp} : status'[p] = status[p] /\ request'[p] = request[p]
        /\ \A p \in OrderIds \ {sl, tp} : status[p] # "absent" => request[p].group # g
        /\ cancelling' = cancelling
    BY <1>0 DEF PlaceBracket, GttLeg, loopVars
  <1>2. ASSUME NEW o \in OrderIds, NEW p \in OrderIds, Siblings(o, p)', status'[o] = "filled"
        PROVE  Siblings(o, p) /\ status[o] = "filled" /\ status'[p] = status[p]
    <2>1. o \notin {sl, tp}
      BY <1>1, <1>2
    <2>2. p \notin {sl, tp}
      BY <1>1, <1>2, <2>1 DEF Siblings
    <2> QED
      BY <1>1, <1>2, <2>1, <2>2 DEF Siblings
  <1> QED
    BY <1>1, <1>2 DEF ExitsOnce

LEMMA FireExits ==
  ASSUME BookInv, ExitsOnce, NEW o \in OrderIds, NEW mark \in Marks, Fire(o, mark)
  PROVE  ExitsOnce'
  <1>0. status \in [OrderIds -> Status] /\ request \in [OrderIds -> Request \cup {None}]
    BY DEF BookInv, TypeOK, RowsTyped
  <1>1. /\ cancelling = {} /\ request' = request /\ status[o] = "resting"
        /\ cancelling' =
             IF status'[o] = "filled" /\ request[o].group # None
             THEN {p \in OrderIds \ {o} : /\ status[p] = "resting"
                                          /\ request[p].group = request[o].group}
             ELSE {}
    BY DEF Fire, Visit
  <1>2. /\ status'[o] \in {"filled", "rejected"}
        /\ \A p \in OrderIds : p # o => status'[p] = status[p]
    BY <1>0 DEF Fire, ExecuteFill, BookFill, RejectFill, Affordable, Covered
  <1>3. \A p, q \in OrderIds : Siblings(p, q)' => Siblings(p, q)
    BY <1>1, <1>2 DEF Siblings
  <1>4. \A p, q \in OrderIds : Siblings(p, q) /\ status[p] = "filled" =>
           status[q] # "filled" /\ status[q] # "resting"
    BY <1>1 DEF ExitsOnce
  <1>5. ASSUME NEW p \in OrderIds, NEW q \in OrderIds, Siblings(p, q)', status'[p] = "filled"
        PROVE  status'[q] # "filled" /\ (status'[q] = "resting" => q \in cancelling')
    <2>1. Siblings(p, q) /\ Siblings(q, p)
      BY <1>3, <1>5 DEF Siblings
    <2>2. CASE p = o
      <3>1. q # o /\ status[q] # "filled" /\ status'[q] = status[q]
        BY <1>1, <1>2, <1>4, <2>1, <2>2 DEF Siblings
      <3>2. status'[q] = "resting" => q \in cancelling'
        BY <1>1, <1>5, <2>1, <2>2, <3>1, NoneAssumption DEF Siblings
      <3> QED
        BY <3>1, <3>2
    <2>3. CASE p # o
      <3>1. status[p] = "filled" /\ q # o
        BY <1>1, <1>2, <1>4, <1>5, <2>1, <2>3
      <3> QED
        BY <1>2, <1>4, <2>1, <3>1
    <2> QED
      BY <2>2, <2>3
  <1> QED
    BY <1>5 DEF ExitsOnce

LEMMA ExitsNext ==
  ASSUME BookInv, ExitsOnce, [Next]_vars
  PROVE  ExitsOnce'
  <1>0. status \in [OrderIds -> Status] /\ request \in [OrderIds -> Request \cup {None}]
    BY DEF BookInv, TypeOK, RowsTyped
  <1>1. CASE UNCHANGED <<status, request, cancelling>>
    BY <1>1 DEF ExitsOnce, Siblings
  <1>2. ASSUME NEW o \in OrderIds, NEW r \in Requests, NEW mark \in Marks,
               PlaceMarket(o, r, mark) \/ PlaceResting(o, r, mark)
        PROVE  ExitsOnce'
    <2>1. r.group = None
      BY RequestsAssumption
    <2>2. CASE PlaceMarket(o, r, mark)
      BY <2>1, <2>2, MarketOrderExits DEF PlaceMarket, MarketOrder, Insert, Idle
    <2> QED
      BY <1>2, <2>1, <2>2, PlaceRestingExits
  <1>3. ASSUME NEW sl \in OrderIds, NEW tp \in OrderIds, NEW g \in Groups, NEW b, NEW m,
               NEW n, PlaceBracket(sl, tp, g, b, m, n)
        PROVE  ExitsOnce'
    BY <1>3, PlaceBracketExits
  <1>4. ASSUME NEW o \in OrderIds, NEW s \in Symbols, NEW mark, Squareoff(o, s, mark)
        PROVE  ExitsOnce'
    <2> DEFINE exit == [symbol |-> s, side |-> "SELL", type |-> "MARKET",
                        qty |-> position[s],
                        limit |-> None, trigger |-> None, group |-> None]
    <2>1. MarketOrder(o, exit, mark) /\ cancelling = {} /\ exit.group = None
      BY <1>4 DEF Squareoff, MarketOrder, Insert, Idle
    <2> HIDE DEF exit
    <2> QED
      BY <2>1, MarketOrderExits
  <1>5. ASSUME NEW o \in OrderIds, status[o] = "resting", CancelResting(o),
               cancelling' \in {cancelling, cancelling \ {o}}
        PROVE  ExitsOnce'
    <2>1. /\ request' = request /\ status'[o] = "cancelled"
          /\ \A p \in OrderIds : p # o => status'[p] = status[p]
      BY <1>0, <1>5 DEF CancelResting
    <2>2. \A p, q \in OrderIds : Siblings(p, q)' => Siblings(p, q)
      BY <1>5, <2>1 DEF Siblings
    <2> QED
      BY <1>5, <2>1, <2>2, ExitsQuiet
  <1>6. ASSUME NEW o \in OrderIds, status[o] # "resting", UNCHANGED <<status, request>>,
               cancelling' = cancelling \ {o}
        PROVE  ExitsOnce'
    BY <1>6 DEF ExitsOnce, Siblings
  <1>7. ASSUME NEW o \in OrderIds, CancelOrder(o) \/ CancelNext(o) PROVE ExitsOnce'
    BY <1>5, <1>6, <1>7 DEF CancelOrder, CancelNext, orderVars
  <1>8. ASSUME NEW o \in OrderIds, NEW mark \in Marks, Fire(o, mark) PROVE ExitsOnce'
    BY <1>8, FireExits
  <1>9. CASE \/ StartTick \/ UNCHANGED vars
             \/ \E o \in OrderIds, mark \in Marks : Skip(o, mark)
             \/ \E m \in {"paper", "live"} : SetMode(m)
             \/ \E open \in BOOLEAN : ExchangeSession(open)
    BY <1>1, <1>9 DEF StartTick, Skip, Visit, SetMode, ExchangeSession, vars, orderVars, loopVars
  <1>10. ASSUME NEW o \in OrderIds, NEW s \in Symbols, SquareoffRetry(o, s)
         PROVE  ExitsOnce'
    BY <1>10 DEF SquareoffRetry, orderVars, Idle, ExitsOnce, Siblings
  <1> QED
    BY <1>2, <1>3, <1>4, <1>7, <1>8, <1>9, <1>10 DEF Next

\* Of a bracket's two legs at most one ever fills, and once one has, the other
\* is not left resting when its transaction ends, whatever cancels, square-offs
\* and passes come between (evaluator.py's OCO cancel in the fill's transaction).
THEOREM BracketsExitOnce == Spec => []BracketExitsOnce
  <1>1. Init => ExitsOnce
    BY DEF Init, ExitsOnce, Siblings
  <1>2. BookInv /\ ExitsOnce /\ [Next]_vars => ExitsOnce'
    BY ExitsNext
  <1>3. ASSUME ExitsOnce PROVE BracketExitsOnce
    <2> SUFFICES ASSUME NEW g \in Groups
                 PROVE  LET legs == {o \in OrderIds : status[o] # "absent" /\ request[o].group = g}
                            done == {o \in legs : status[o] = "filled"}
                        IN  /\ Cardinality(done) <= 1
                            /\ Idle /\ done # {} => \A o \in legs : status[o] # "resting"
      BY DEF BracketExitsOnce
    <2> DEFINE legs == {x \in OrderIds : status[x] # "absent" /\ request[x].group = g}
               done == {x \in legs : status[x] = "filled"}
    <2>1. CASE done = {}
      BY <2>1, FS_EmptySet
    <2>2. CASE done # {}
      <3>1. PICK o \in done : TRUE
        BY <2>2
      <3>2. \A p \in legs : p # o => Siblings(o, p)
        BY <3>1 DEF Siblings
      <3>3. \A p \in legs : p # o => /\ status[p] # "filled"
                                     /\ status[p] = "resting" => p \in cancelling
        BY <1>3, <3>1, <3>2 DEF ExitsOnce
      <3>4. done = {o}
        <4>1. \A p \in done : p = o
          BY <3>3
        <4> HIDE DEF done
        <4> QED
          BY <3>1, <4>1
      <3>5. Idle => \A p \in legs : status[p] # "resting"
        BY <3>1, <3>3 DEF Idle
      <3>6. Cardinality(done) <= 1
        <4>1. Cardinality({o}) = 1
          BY FS_Singleton
        <4> HIDE DEF done
        <4> QED
          BY <3>4, <4>1
      <3> QED
        BY <3>5, <3>6
    <2> QED
      BY <2>1, <2>2
  <1> QED
    BY <1>1, <1>2, <1>3, BookAlways, PTL DEF Spec

=============================================================================
