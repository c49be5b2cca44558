--------------------------- MODULE PaperBook_proofs ---------------------------
(* Theorems about the paper book, for every value of its constants. *)
EXTENDS PaperBook, SequenceTheorems, TLAPS

-----------------------------------------------------------------------------
(* Arithmetic of the charges *)

LEMMA ProductType == ASSUME NEW a \in Nat, NEW b \in Nat PROVE a * b \in Nat
  OBVIOUS

LEMMA DivType == ASSUME NEW a \in Nat, NEW d \in Positive PROVE a \div d \in Nat
  BY DEF Positive

LEMMA DivMonotonic ==
  ASSUME NEW a \in Nat, NEW b \in Nat, NEW d \in Positive, a <= b
  PROVE  a \div d <= b \div d
  BY DEF Positive

LEMMA ProductMonotonic ==
  ASSUME NEW a \in Nat, NEW b \in Nat, NEW c \in Nat, a <= b
  PROVE  a * c <= b * c
  OBVIOUS

LEMMA ChargesType ==
  ASSUME NEW n \in Nat, NEW rate \in Nat
  PROVE  Charges(n, rate) \in Nat
  <1>1. n * rate \in Nat
    BY ProductType
  <1>2. 2 \in Positive /\ RateUnit \in Positive /\ FlatCharge \in Nat
    BY MoneyAssumption DEF Positive
  <1>3. RateUnit \div 2 \in Nat
    BY <1>2, DivType DEF Positive
  <1>4. n * rate + RateUnit \div 2 \in Nat
    BY <1>1, <1>3
  <1>5. (n * rate + RateUnit \div 2) \div RateUnit \in Nat
    BY <1>2, <1>4, DivType
  <1> QED
    BY <1>2, <1>5 DEF Charges

LEMMA CostTypes ==
  ASSUME NEW price \in Positive, NEW qty \in Positive
  PROVE  BuyCost(price, qty) \in Positive /\ SellCredit(price, qty) \in Int
  <1>1. price * qty \in Positive
    BY DEF Positive
  <1>2. Charges(price * qty, BuyRate) \in Nat /\ Charges(price * qty, SellRate) \in Nat
    BY <1>1, ChargesType, MoneyAssumption DEF Positive
  <1> QED
    BY <1>1, <1>2 DEF BuyCost, SellCredit, Positive

\* A dearer mark never makes a buy cheaper (trading_costs: every charge is flat
\* or a share of the notional).
LEMMA BuyCostMonotonic ==
  ASSUME NEW p \in Positive, NEW q \in Positive, NEW qty \in Positive, p <= q
  PROVE  BuyCost(p, qty) <= BuyCost(q, qty)
  <1> DEFINE half == RateUnit \div 2
             m == p * qty
             n == q * qty
  <1>1. m \in Nat /\ n \in Nat /\ m <= n
    BY ProductMonotonic, ProductType DEF Positive
  <1>2. half \in Nat /\ RateUnit \in Positive /\ BuyRate \in Nat /\ FlatCharge \in Nat
    BY MoneyAssumption, DivType DEF Positive
  <1>3. m * BuyRate \in Nat /\ n * BuyRate \in Nat /\ m * BuyRate <= n * BuyRate
    BY <1>1, <1>2, ProductMonotonic, ProductType
  <1>4. /\ m * BuyRate + half \in Nat /\ n * BuyRate + half \in Nat
        /\ m * BuyRate + half <= n * BuyRate + half
    BY <1>2, <1>3
  <1>5. /\ (m * BuyRate + half) \div RateUnit \in Nat
        /\ (n * BuyRate + half) \div RateUnit \in Nat
        /\ (m * BuyRate + half) \div RateUnit <= (n * BuyRate + half) \div RateUnit
    BY <1>2, <1>4, DivMonotonic, DivType
  <1> QED
    BY <1>1, <1>2, <1>5 DEF BuyCost, Charges

-----------------------------------------------------------------------------
(* Types, and a book that is never short *)

LEMMA RequestsTyped == Requests \subseteq Request
  BY RequestsAssumption DEF Request

LEMMA GttLegTyped ==
  ASSUME NEW b \in Brackets, NEW g \in Groups
  PROVE  GttLeg(b, b.stoploss, g) \in Request /\ GttLeg(b, b.target, g) \in Request
  BY BracketsAssumption DEF GttLeg, Request, Types

LEMMA MarksTyped == Marks \subseteq Positive \cup {None} /\ Prices \subseteq Positive
  BY PricesAssumption DEF Marks

LEMMA NoneIsNoRequest == None \notin Request /\ None \notin Positive
  BY NoneAssumption DEF Positive, Request

\* What a fill or its rejection does to the book, from the free cash and the
\* ledger it is handed.
FillEffect(o, avail, led) ==
  /\ status' \in [OrderIds -> Status]
  /\ status'[o] \in {"filled", "rejected"}
  /\ \A p \in OrderIds : p # o => status'[p] = status[p]
  /\ position' \in [Symbols -> Int] /\ LongOnly'
  /\ cash_available' \in Int /\ cash_settled' \in Int
  /\ cash_settled' = cash_settled + (cash_available' - avail)
  /\ ledger' \in Seq(LedgerEntry) /\ fills' \in Seq(Fill)
  /\ \/ ledger' = led /\ cash_available' = avail
     \/ \E e \in LedgerEntry : /\ ledger' = Append(led, e)
                               /\ e.balance = avail + e.amount
                               /\ e.balance = cash_available'

LEMMA ExecuteFillEffect ==
  ASSUME TypeOK, LongOnly,
         NEW o \in OrderIds, NEW r \in Request, NEW price \in Positive,
         NEW avail \in Int, NEW led \in Seq(LedgerEntry),
         ExecuteFill(o, r, price, avail, led)
  PROVE  FillEffect(o, avail, led)
  <1>0. /\ BuyCost(price, r.qty) \in Int /\ SellCredit(price, r.qty) \in Int
        /\ r.qty \in Positive /\ r.symbol \in Symbols /\ r.side \in {"BUY", "SELL"}
    BY CostTypes DEF Request, Positive
  <1>1. CASE RejectFill(o, avail, led)
    BY <1>1 DEF RejectFill, TypeOK, RowsTyped, CashTyped, JournalTyped, Status, LongOnly, FillEffect
  <1>2. ASSUME NEW cashflow \in Int, NEW kind \in {"buy_debit", "sell_credit"},
               BookFill(o, r, cashflow, kind, avail, led)
        PROVE  /\ status' = [status EXCEPT ![o] = "filled"]
               /\ cash_available' = avail + cashflow
               /\ cash_settled' = cash_settled + cashflow
               /\ fills' \in Seq(Fill)
               /\ \E e \in LedgerEntry : /\ ledger' = Append(led, e)
                                         /\ e.amount = cashflow
                                         /\ e.balance = avail + cashflow
               /\ ledger' \in Seq(LedgerEntry)
    <2> DEFINE e == Entry(kind, cashflow, avail + cashflow)
               f == [order |-> o, symbol |-> r.symbol, side |-> r.side,
                     qty |-> r.qty, cashflow |-> cashflow]
    <2>1. e \in LedgerEntry /\ e.amount = cashflow /\ e.balance = avail + cashflow
      BY <1>2 DEF Entry, LedgerEntry
    <2>2. f \in Fill
      BY <1>0, <1>2 DEF Fill
    <2>3. Append(led, e) \in Seq(LedgerEntry) /\ Append(fills, f) \in Seq(Fill)
      BY <2>1, <2>2, AppendProperties DEF TypeOK, JournalTyped
    <2> QED
      BY <1>2, <2>1, <2>3 DEF BookFill
  <1>3. ASSUME NEW cashflow \in Int, NEW kind \in {"buy_debit", "sell_credit"},
               BookFill(o, r, cashflow, kind, avail, led),
               position' \in [Symbols -> Int], LongOnly'
        PROVE  FillEffect(o, avail, led)
    <2>1. PICK e \in LedgerEntry : /\ ledger' = Append(led, e)
                                   /\ e.amount = cashflow
                                   /\ e.balance = avail + cashflow
      BY <1>2, <1>3
    <2>2. /\ status' = [status EXCEPT ![o] = "filled"]
          /\ cash_available' = avail + cashflow
          /\ cash_settled' = cash_settled + cashflow
          /\ fills' \in Seq(Fill) /\ ledger' \in Seq(LedgerEntry)
      BY <1>2, <1>3
    <2>3. /\ status' \in [OrderIds -> Status]
          /\ status'[o] \in {"filled", "rejected"}
          /\ \A p \in OrderIds : p # o => status'[p] = status[p]
      BY <2>2 DEF TypeOK, RowsTyped, Status
    <2>4. /\ cash_available' \in Int /\ cash_settled' \in Int
          /\ cash_settled' = cash_settled + (cash_available' - avail)
      BY <2>2 DEF TypeOK, CashTyped
    <2>5. \E x \in LedgerEntry : /\ ledger' = Append(led, x)
                                 /\ x.balance = avail + x.amount
                                 /\ x.balance = cash_available'
      BY <2>1, <2>2, <2>4
    <2> QED
      BY <1>3, <2>2, <2>3, <2>4, <2>5 DEF FillEffect
  <1>4. CASE /\ position' = [position EXCEPT ![r.symbol] = @ + r.qty]
             /\ BookFill(o, r, -BuyCost(price, r.qty), "buy_debit", avail, led)
    <2>1. position' \in [Symbols -> Int] /\ LongOnly'
      BY <1>0, <1>4 DEF TypeOK, JournalTyped, LongOnly, Positive
    <2>2. -BuyCost(price, r.qty) \in Int
      BY <1>0
    <2> QED
      BY <1>3, <1>4, <2>1, <2>2
  <1>5. CASE /\ r.qty <= position[r.symbol]
             /\ position' = [position EXCEPT ![r.symbol] = @ - r.qty]
             /\ BookFill(o, r, SellCredit(price, r.qty), "sell_credit", avail, led)
    <2>1. position' \in [Symbols -> Int] /\ LongOnly'
      BY <1>0, <1>5 DEF TypeOK, JournalTyped, LongOnly, Positive
    <2>2. SellCredit(price, r.qty) \in Int
      BY <1>0
    <2> QED
      BY <1>3, <1>5, <2>1, <2>2
  <1> QED
    BY <1>1, <1>4, <1>5 DEF ExecuteFill, Affordable, Covered

-----------------------------------------------------------------------------
(* Growing and releasing the ledger *)

LEMMA ReplaysAppend ==
  ASSUME NEW led \in Seq(LedgerEntry), NEW avail \in Int, Replays(led, avail),
         NEW e \in LedgerEntry, e.balance = avail + e.amount
  PROVE  /\ Append(led, e) \in Seq(LedgerEntry)
         /\ Replays(Append(led, e), e.balance)
  <1> DEFINE n == Len(led)
             new == Append(led, e)
  <1>1. n \in Nat /\ n > 0
    BY LenProperties, EmptySeq DEF Replays
  <1>2. /\ new \in Seq(LedgerEntry) /\ new # <<>>
        /\ Len(new) = n + 1
        /\ \A i \in 1 .. n : new[i] = led[i]
        /\ new[n + 1] = e
    BY AppendProperties
  <1>3. new[1].balance = new[1].amount
    BY <1>1, <1>2 DEF Replays
  <1>4. ASSUME NEW i \in 2 .. Len(new)
        PROVE  new[i].balance = new[i - 1].balance + new[i].amount
    <2>1. CASE i = n + 1
      <3>1. new[i] = e /\ new[i - 1] = led[n]
        BY <1>1, <1>2, <2>1
      <3> QED
        BY <3>1 DEF Replays
    <2>2. CASE i # n + 1
      <3>1. i \in 2 .. n /\ i \in 1 .. n /\ i - 1 \in 1 .. n
        BY <1>1, <1>2, <2>2
      <3> QED
        BY <1>2, <3>1 DEF Replays
    <2> QED
      BY <2>1, <2>2
  <1>5. new[Len(new)].balance = e.balance
    BY <1>2
  <1> QED
    BY <1>2, <1>3, <1>4, <1>5 DEF Replays

LEMMA ReleaseEffect ==
  ASSUME TypeOK, LedgerReplays, NEW o \in OrderIds
  PROVE  /\ cash_available + reserved_cash[o] \in Int
         /\ ReleasedLedger(o) \in Seq(LedgerEntry)
         /\ Replays(ReleasedLedger(o), cash_available + reserved_cash[o])
  <1>1. reserved_cash[o] \in Nat /\ cash_available \in Int /\ ledger \in Seq(LedgerEntry)
    BY DEF TypeOK, CashTyped, JournalTyped
  <1>2. CASE reserved_cash[o] > 0
    <2> DEFINE e == Entry("release", reserved_cash[o], cash_available + reserved_cash[o])
    <2>1. /\ e \in LedgerEntry
          /\ e.balance = cash_available + e.amount
          /\ e.balance = cash_available + reserved_cash[o]
      BY <1>1 DEF Entry, LedgerEntry
    <2> QED
      BY <1>1, <1>2, <2>1, ReplaysAppend DEF ReleasedLedger, LedgerReplays
  <1>3. CASE ~(reserved_cash[o] > 0)
    BY <1>1, <1>3 DEF ReleasedLedger, LedgerReplays
  <1> QED
    BY <1>2, <1>3

-----------------------------------------------------------------------------
(* The inductive invariant of the book *)

BookInv == TypeOK /\ LongOnly /\ CashIdentity /\ OnlyRestingHold /\ LedgerReplays

LEMMA BookInit == Init => BookInv
  <1> SUFFICES ASSUME Init PROVE BookInv
    OBVIOUS
  <1> DEFINE e == [kind |-> "seed", amount |-> SeedCapital, balance |-> SeedCapital]
  <1>1. e \in LedgerEntry /\ SeedCapital \in Int
    BY MoneyAssumption DEF LedgerEntry
  <1>2. ledger \in Seq(LedgerEntry) /\ ledger # <<>> /\ Len(ledger) = 1 /\ ledger[1] = e
    BY <1>1 DEF Init
  <1>3. TypeOK
    BY <1>1, <1>2 DEF Init, TypeOK, ControlTyped, RowsTyped, CashTyped, JournalTyped, Status
  <1>4. LedgerReplays
    BY <1>1, <1>2 DEF Init, LedgerReplays, Replays
  <1>5. LongOnly /\ CashIdentity /\ OnlyRestingHold
    BY <1>1 DEF Init, LongOnly, CashIdentity, OnlyRestingHold
  <1> QED
    BY <1>3, <1>4, <1>5 DEF BookInv

LEMMA InsertTypes ==
  ASSUME TypeOK, NEW o \in OrderIds, NEW r \in Request, NEW mark \in Marks,
         Insert(o, r, mark), status' \in [OrderIds -> Status],
         status'[o] # "absent",
         \A p \in OrderIds : p # o => status'[p] = status[p]
  PROVE  RowsTyped'
  <1>1. /\ request' = [request EXCEPT ![o] = r]
        /\ intended_price' = [intended_price EXCEPT ![o] = mark]
        /\ blotter' = Append(blotter, o)
    BY DEF Insert
  <1>2. /\ r # None /\ mark \in Positive \cup {None}
        /\ r \in Request \cup {None}
    BY NoneIsNoRequest, MarksTyped
  <1>3. request' \in [OrderIds -> Request \cup {None}]
    BY <1>1, <1>2 DEF TypeOK, RowsTyped
  <1>4. intended_price' \in [OrderIds -> Positive \cup {None}]
    BY <1>1, <1>2 DEF TypeOK, RowsTyped
  <1>5. blotter' \in Seq(OrderIds)
    BY <1>1, AppendProperties DEF TypeOK, RowsTyped
  <1>6. \A p \in OrderIds : request'[p] = None <=> status'[p] = "absent"
    <2>1. request'[o] = r /\ \A p \in OrderIds : p # o => request'[p] = request[p]
      BY <1>1 DEF TypeOK, RowsTyped
    <2> QED
      BY <1>2, <2>1 DEF TypeOK, RowsTyped
  <1> QED
    BY <1>3, <1>4, <1>5, <1>6 DEF RowsTyped

\* Writing a row that moves no money.
LEMMA OnlyStatusStep ==
  ASSUME BookInv, NEW o \in OrderIds, NEW r \in Request, NEW mark \in Marks,
         Insert(o, r, mark), cancelling' \subseteq OrderIds,
         NEW st \in {"resting", "rejected"}, OnlyStatus(o, st)
  PROVE  BookInv'
  <1>1. /\ status[o] = "absent" /\ reserved_cash[o] = 0
        /\ UNCHANGED <<mode, marketOpen, pass>>
    BY DEF BookInv, OnlyRestingHold, TypeOK, CashTyped, Insert
  <1>2. /\ status' \in [OrderIds -> Status] /\ status'[o] = st /\ st # "absent"
        /\ \A p \in OrderIds : p # o => status'[p] = status[p]
    BY DEF OnlyStatus, BookInv, TypeOK, RowsTyped, Status
  <1>3. UNCHANGED <<reserved_cash, cash_available, cash_reserved, cash_settled,
                    position, ledger, fills>>
    BY DEF OnlyStatus, cashVars, bookVars
  <1>4. RowsTyped'
    BY <1>2, InsertTypes DEF BookInv
  <1>5. ControlTyped' /\ CashTyped' /\ JournalTyped'
    BY <1>1, <1>3 DEF BookInv, TypeOK, ControlTyped, CashTyped, JournalTyped
  <1>6. LongOnly' /\ CashIdentity' /\ LedgerReplays'
    BY <1>3 DEF BookInv, LongOnly, CashIdentity, LedgerReplays, Replays
  <1>7. OnlyRestingHold'
    BY <1>1, <1>2, <1>3 DEF BookInv, OnlyRestingHold
  <1> QED
    BY <1>4, <1>5, <1>6, <1>7 DEF BookInv, TypeOK

\* A fill, or its rejection, keeps the ledger replayable.
LEMMA FillReplays ==
  ASSUME NEW o \in OrderIds, NEW avail \in Int, NEW led \in Seq(LedgerEntry),
         Replays(led, avail), FillEffect(o, avail, led)
  PROVE  LedgerReplays'
  <1>1. CASE ledger' = led /\ cash_available' = avail
    BY <1>1 DEF LedgerReplays, Replays
  <1>2. ASSUME NEW e \in LedgerEntry, ledger' = Append(led, e),
               e.balance = avail + e.amount, e.balance = cash_available'
        PROVE  LedgerReplays'
    <2>1. Replays(Append(led, e), e.balance)
      BY <1>2, ReplaysAppend
    <2> QED
      BY <1>2, <2>1 DEF LedgerReplays, Replays
  <1> QED
    BY <1>1, <1>2 DEF FillEffect

LEMMA MarketOrderStep ==
  ASSUME BookInv, NEW o \in OrderIds, NEW r \in Request, NEW mark \in Marks,
         MarketOrder(o, r, mark), cancelling' \subseteq OrderIds
  PROVE  BookInv'
  <1>1. Insert(o, r, mark)
    BY DEF MarketOrder
  <1>2. CASE OnlyStatus(o, "resting") \/ OnlyStatus(o, "rejected")
    BY <1>1, <1>2, OnlyStatusStep
  <1>3. CASE /\ mark # None
             /\ ExecuteFill(o, r, mark, cash_available, ledger)
             /\ UNCHANGED <<reserved_cash, cash_reserved>>
    <2>1. /\ status[o] = "absent" /\ reserved_cash[o] = 0
          /\ UNCHANGED <<mode, marketOpen, pass>>
      BY <1>1 DEF BookInv, OnlyRestingHold, TypeOK, CashTyped, Insert
    <2>2. /\ cash_available \in Int /\ ledger \in Seq(LedgerEntry)
          /\ Replays(ledger, cash_available)
      BY DEF BookInv, TypeOK, CashTyped, JournalTyped, LedgerReplays
    <2>3. FillEffect(o, cash_available, ledger)
      BY <1>3, <2>2, ExecuteFillEffect, MarksTyped DEF BookInv
    <2>4. RowsTyped'
      BY <1>1, <2>3, InsertTypes DEF FillEffect, BookInv
    <2>5. ControlTyped'
      BY <2>1 DEF BookInv, TypeOK, ControlTyped
    <2>6. CashTyped' /\ JournalTyped'
      BY <1>3, <2>3 DEF FillEffect, BookInv, TypeOK, CashTyped, JournalTyped
    <2>7. CashIdentity'
      <3>1. /\ cash_available' \in Int /\ cash_settled' \in Int
            /\ cash_settled' = cash_settled + (cash_available' - cash_available)
        BY <2>3 DEF FillEffect
      <3>2. /\ cash_available \in Int /\ cash_settled \in Int /\ cash_reserved \in Int
            /\ cash_settled = cash_available + cash_reserved
        BY DEF BookInv, CashIdentity, TypeOK, CashTyped
      <3>3. cash_settled' = cash_available' + cash_reserved
        BY <3>1, <3>2
      <3> QED
        BY <1>3, <3>3 DEF CashIdentity
    <2>8. OnlyRestingHold'
      BY <1>3, <2>1, <2>3 DEF FillEffect, BookInv, OnlyRestingHold
    <2>9. LedgerReplays' /\ LongOnly'
      BY <2>2, <2>3, FillReplays DEF FillEffect
    <2> QED
      BY <2>4, <2>5, <2>6, <2>7, <2>8, <2>9 DEF BookInv, TypeOK
  <1> QED
    BY <1>2, <1>3 DEF MarketOrder

LEMMA PlaceRestingStep ==
  ASSUME BookInv, NEW o \in OrderIds, NEW r \in Requests, NEW mark \in Marks,
         PlaceResting(o, r, mark)
  PROVE  BookInv'
  <1> DEFINE reserve == BuyCost(r.limit, r.qty)
             e == Entry("reserve", -reserve, cash_available - reserve)
  <1>1. /\ r \in Request /\ Insert(o, r, mark)
        /\ cancelling' = cancelling /\ cancelling \subseteq OrderIds
    BY RequestsTyped DEF PlaceResting, BookInv, TypeOK, ControlTyped
  <1>2. CASE OnlyStatus(o, "resting") \/ OnlyStatus(o, "rejected")
    BY <1>1, <1>2, OnlyStatusStep
  <1>3. CASE /\ Reserves(r) /\ reserve <= cash_available
             /\ status' = [status EXCEPT ![o] = "resting"]
             /\ reserved_cash' = [reserved_cash EXCEPT ![o] = reserve]
             /\ cash_available' = cash_available - reserve
             /\ cash_reserved' = cash_reserved + reserve
             /\ ledger' = Append(ledger, e)
             /\ UNCHANGED <<cash_settled, position, fills>>
    <2>1. reserve \in Positive /\ reserve \in Nat
      BY <1>1, <1>3, CostTypes DEF Reserves, Request, Positive
    <2>2. /\ cash_available \in Int /\ cash_reserved \in Int /\ cash_settled \in Int
          /\ ledger \in Seq(LedgerEntry) /\ Replays(ledger, cash_available)
          /\ reserved_cash \in [OrderIds -> Nat]
      BY DEF BookInv, TypeOK, CashTyped, JournalTyped, LedgerReplays
    <2>3. /\ e \in LedgerEntry /\ e.balance = cash_available + e.amount
          /\ e.balance = cash_available - reserve
      BY <2>1, <2>2 DEF Entry, LedgerEntry
    <2>4. Append(ledger, e) \in Seq(LedgerEntry) /\ Replays(Append(ledger, e), e.balance)
      BY <2>2, <2>3, ReplaysAppend
    <2>5. LedgerReplays'
      <3> HIDE DEF e
      <3> QED
        BY <1>3, <2>3, <2>4 DEF LedgerReplays, Replays
    <2>6. /\ status' \in [OrderIds -> Status] /\ status'[o] = "resting"
          /\ \A p \in OrderIds : p # o => status'[p] = status[p]
      BY <1>3 DEF BookInv, TypeOK, RowsTyped, Status
    <2>7. RowsTyped'
      BY <1>1, <2>6, InsertTypes DEF BookInv
    <2>8. CashTyped'
      BY <1>3, <2>1, <2>2 DEF CashTyped
    <2>9. JournalTyped'
      <3> HIDE DEF e
      <3> QED
        BY <1>3, <2>4 DEF BookInv, TypeOK, JournalTyped
    <2>10. ControlTyped'
      BY <1>1 DEF BookInv, TypeOK, ControlTyped, Insert
    <2>11. CashIdentity' /\ LongOnly'
      BY <1>3, <2>1, <2>2 DEF BookInv, CashIdentity, LongOnly
    <2>12. OnlyRestingHold'
      BY <1>3, <2>2, <2>6 DEF BookInv, OnlyRestingHold
    <2> QED
      BY <2>5, <2>7, <2>8, <2>9, <2>10, <2>11, <2>12 DEF BookInv, TypeOK
  <1> QED
    BY <1>2, <1>3 DEF PlaceResting

LEMMA PlaceBracketStep ==
  ASSUME BookInv, NEW sl \in OrderIds, NEW tp \in OrderIds, NEW g \in Groups,
         NEW b \in Brackets, NEW m \in Marks, NEW n \in Marks,
         PlaceBracket(sl, tp, g, b, m, n)
  PROVE  BookInv'
  <1>1. /\ GttLeg(b, b.stoploss, g) \in Request /\ GttLeg(b, b.target, g) \in Request
        /\ GttLeg(b, b.stoploss, g) # None /\ GttLeg(b, b.target, g) # None
    BY GttLegTyped, NoneIsNoRequest
  <1>2. request' \in [OrderIds -> Request \cup {None}]
    BY <1>1 DEF PlaceBracket, BookInv, TypeOK, RowsTyped
  <1>3. intended_price' \in [OrderIds -> Positive \cup {None}]
    BY MarksTyped DEF PlaceBracket, BookInv, TypeOK, RowsTyped
  <1>4. /\ status' \in [OrderIds -> Status]
        /\ \A o \in {sl, tp} : status'[o] = "resting"
        /\ \A o \in OrderIds \ {sl, tp} : status'[o] = status[o]
    BY DEF PlaceBracket, BookInv, TypeOK, RowsTyped, Status
  <1>5. blotter' \in Seq(OrderIds)
    <2>1. blotter \in Seq(OrderIds) /\ <<sl, tp>> \in Seq(OrderIds)
      BY DEF BookInv, TypeOK, RowsTyped
    <2> QED
      BY <2>1, ConcatProperties DEF PlaceBracket
  <1>6. \A o \in OrderIds : request'[o] = None <=> status'[o] = "absent"
    <2>1. ASSUME NEW o \in {sl, tp} PROVE request'[o] # None
      BY <1>1 DEF PlaceBracket, BookInv, TypeOK, RowsTyped
    <2>2. ASSUME NEW o \in OrderIds \ {sl, tp} PROVE request'[o] = request[o]
      BY DEF PlaceBracket, BookInv, TypeOK, RowsTyped
    <2> QED
      BY <1>4, <2>1, <2>2 DEF BookInv, TypeOK, RowsTyped
  <1>7. RowsTyped'
    BY <1>2, <1>3, <1>4, <1>5, <1>6 DEF RowsTyped
  <1>8. UNCHANGED <<mode, marketOpen, pass, cancelling, reserved_cash, cash_available,
                    cash_reserved, cash_settled, position, ledger, fills>>
    BY DEF PlaceBracket, cashVars, bookVars, loopVars
  <1>9. ControlTyped' /\ CashTyped' /\ JournalTyped'
    BY <1>8 DEF BookInv, TypeOK, ControlTyped, CashTyped, JournalTyped
  <1>10. LongOnly' /\ CashIdentity' /\ LedgerReplays'
    BY <1>8 DEF BookInv, LongOnly, CashIdentity, LedgerReplays, Replays
  <1>11. OnlyRestingHold'
    BY <1>4, <1>8 DEF BookInv, OnlyRestingHold
  <1> QED
    BY <1>7, <1>9, <1>10, <1>11 DEF BookInv, TypeOK

LEMMA CancelRestingStep ==
  ASSUME BookInv, NEW o \in OrderIds, status[o] = "resting",
         CancelResting(o), cancelling' \subseteq OrderIds
  PROVE  BookInv'
  <1>1. /\ status' = [status EXCEPT ![o] = "cancelled"]
        /\ reserved_cash' = [reserved_cash EXCEPT ![o] = 0]
        /\ cash_available' = cash_available + reserved_cash[o]
        /\ cash_reserved' = cash_reserved - reserved_cash[o]
        /\ ledger' = ReleasedLedger(o)
        /\ UNCHANGED <<mode, marketOpen, request, intended_price, blotter,
                       cash_settled, position, fills, pass>>
    BY DEF CancelResting
  <1>2. /\ reserved_cash \in [OrderIds -> Nat] /\ reserved_cash[o] \in Nat
        /\ cash_available \in Int /\ cash_reserved \in Int /\ cash_settled \in Int
    BY DEF BookInv, TypeOK, CashTyped
  <1>3. ledger' \in Seq(LedgerEntry) /\ Replays(ledger', cash_available')
    BY <1>1, ReleaseEffect DEF BookInv
  <1>4. /\ status' \in [OrderIds -> Status] /\ status'[o] = "cancelled"
        /\ \A p \in OrderIds : p # o => status'[p] = status[p]
    BY <1>1 DEF BookInv, TypeOK, RowsTyped, Status
  <1>5. RowsTyped'
    BY <1>1, <1>4 DEF BookInv, TypeOK, RowsTyped
  <1>6. ControlTyped' /\ CashTyped'
    BY <1>1, <1>2 DEF BookInv, TypeOK, ControlTyped, CashTyped
  <1>7. JournalTyped'
    BY <1>1, <1>3 DEF BookInv, TypeOK, JournalTyped
  <1>8. CashIdentity' /\ LongOnly'
    BY <1>1, <1>2 DEF BookInv, CashIdentity, LongOnly
  <1>9. OnlyRestingHold'
    BY <1>1, <1>2, <1>4 DEF BookInv, OnlyRestingHold
  <1>10. LedgerReplays'
    BY <1>3 DEF LedgerReplays, Replays
  <1> QED
    BY <1>5, <1>6, <1>7, <1>8, <1>9, <1>10 DEF BookInv, TypeOK

LEMMA FireStep ==
  ASSUME BookInv, NEW o \in OrderIds, NEW mark \in Marks, Fire(o, mark)
  PROVE  BookInv'
  <1> DEFINE avail == cash_available + reserved_cash[o]
             led == ReleasedLedger(o)
  <1>1. /\ status[o] = "resting" /\ request[o] \in Request /\ mark \in Positive
    BY MarksTyped DEF Fire, BookInv, TypeOK, RowsTyped
  <1>2. ExecuteFill(o, request[o], mark, avail, led)
    BY DEF Fire
  <1>3. avail \in Int /\ led \in Seq(LedgerEntry) /\ Replays(led, avail)
    BY ReleaseEffect DEF BookInv
  <1>4. FillEffect(o, avail, led)
    <2> HIDE DEF avail, led
    <2> QED
      BY <1>1, <1>2, <1>3, ExecuteFillEffect DEF BookInv
  <1>5. /\ request' = request /\ blotter' = blotter /\ mode' = mode
        /\ marketOpen' = marketOpen /\ pass' = pass \ {o}
        /\ intended_price' = [intended_price EXCEPT ![o] = Reference(o, mark)]
        /\ reserved_cash' = [reserved_cash EXCEPT ![o] = 0]
        /\ cash_reserved' = cash_reserved - reserved_cash[o]
        /\ cancelling' \subseteq OrderIds
    BY DEF Fire, Visit
  <1>6. Reference(o, mark) \in Positive
    BY <1>1 DEF Reference, BookInv, TypeOK, RowsTyped
  <1>7. RowsTyped'
    BY <1>1, <1>4, <1>5, <1>6 DEF FillEffect, BookInv, TypeOK, RowsTyped
  <1>8. ControlTyped'
    BY <1>5 DEF BookInv, TypeOK, ControlTyped
  <1>9. /\ reserved_cash \in [OrderIds -> Nat] /\ reserved_cash[o] \in Nat
        /\ cash_available \in Int /\ cash_reserved \in Int /\ cash_settled \in Int
    BY DEF BookInv, TypeOK, CashTyped
  <1>10. CashTyped' /\ JournalTyped'
    <2>1. /\ position' \in [Symbols -> Int] /\ fills' \in Seq(Fill)
          /\ ledger' \in Seq(LedgerEntry)
          /\ cash_available' \in Int /\ cash_settled' \in Int
      BY <1>4 DEF FillEffect
    <2>2. reserved_cash' \in [OrderIds -> Nat]
      <3>1. reserved_cash' = [reserved_cash EXCEPT ![o] = 0]
        BY <1>5
      <3> QED
        BY <1>9, <3>1
    <2>3. cash_reserved' \in Int
      <3>1. cash_reserved' = cash_reserved - reserved_cash[o]
        BY <1>5
      <3> QED
        BY <1>9, <3>1
    <2> QED
      BY <2>1, <2>2, <2>3 DEF CashTyped, JournalTyped
  <1>11. CashIdentity'
    <2>1. /\ cash_available' \in Int /\ cash_settled' \in Int
          /\ cash_settled' = cash_settled + (cash_available' - avail)
      BY <1>4 DEF FillEffect
    <2>2. cash_settled = cash_available + cash_reserved
      BY DEF BookInv, CashIdentity
    <2> QED
      BY <1>5, <1>9, <2>1, <2>2 DEF CashIdentity
  <1>12. OnlyRestingHold'
    <2>1. \A p \in OrderIds : p # o => status'[p] = status[p]
      BY <1>4 DEF FillEffect
    <2>2. \A p \in OrderIds : p # o => reserved_cash'[p] = reserved_cash[p]
      BY <1>5, <1>9
    <2>3. ~(reserved_cash'[o] > 0)
      BY <1>5, <1>9
    <2> QED
      BY <2>1, <2>2, <2>3 DEF BookInv, OnlyRestingHold
  <1>13. LedgerReplays' /\ LongOnly'
    <2> HIDE DEF avail, led
    <2> QED
      BY <1>3, <1>4, FillReplays DEF FillEffect
  <1> QED
    BY <1>7, <1>8, <1>10, <1>11, <1>12, <1>13 DEF BookInv, TypeOK

\* Steps that only move the clock, the mode or the loops.
LEMMA QuietStep ==
  ASSUME BookInv, UNCHANGED <<status, request, blotter, reserved_cash, cashVars, bookVars>>,
         intended_price' \in [OrderIds -> Positive \cup {None}], ControlTyped'
  PROVE  BookInv'
  BY DEF BookInv, TypeOK, RowsTyped, CashTyped, JournalTyped, cashVars, bookVars,
         LongOnly, CashIdentity, OnlyRestingHold, LedgerReplays, Replays

-----------------------------------------------------------------------------
(* Every step keeps the invariant *)

LEMMA BookNext == BookInv /\ [Next]_vars => BookInv'
  <1> SUFFICES ASSUME BookInv, [Next]_vars PROVE BookInv'
    OBVIOUS
  <1>0. /\ ControlTyped /\ cancelling \subseteq OrderIds
        /\ intended_price \in [OrderIds -> Positive \cup {None}]
    BY DEF BookInv, TypeOK, ControlTyped, RowsTyped
  <1>1. ASSUME NEW o \in OrderIds, NEW r \in Requests, NEW mark \in Marks,
               PlaceMarket(o, r, mark)
        PROVE  BookInv'
    BY <1>0, <1>1, RequestsTyped, MarketOrderStep DEF PlaceMarket
  <1>2. ASSUME NEW o \in OrderIds, NEW r \in Requests, NEW mark \in Marks,
               PlaceResting(o, r, mark)
        PROVE  BookInv'
    BY <1>2, PlaceRestingStep
  <1>3. ASSUME NEW sl \in OrderIds, NEW tp \in OrderIds, NEW g \in Groups,
               NEW b \in Brackets, NEW m \in Marks, NEW n \in Marks,
               PlaceBracket(sl, tp, g, b, m, n)
        PROVE  BookInv'
    BY <1>3, PlaceBracketStep
  <1>4. ASSUME NEW o \in OrderIds, NEW s \in Symbols, NEW mark \in Marks,
               Squareoff(o, s, mark)
        PROVE  BookInv'
    <2> DEFINE exit == [symbol |-> s, side |-> "SELL", type |-> "MARKET",
                        qty |-> position[s],
                        limit |-> None, trigger |-> None, group |-> None]
    <2>1. position[s] \in Positive
      BY <1>4 DEF Squareoff, BookInv, TypeOK, JournalTyped, LongOnly, Positive
    <2>2. exit \in Request
      BY <2>1 DEF Request, Types
    <2>3. MarketOrder(o, exit, mark) /\ cancelling' \subseteq OrderIds
      BY <1>4 DEF Squareoff
    <2> QED
      BY <2>2, <2>3, MarketOrderStep
  <1>5. ASSUME NEW o \in OrderIds, CancelOrder(o) PROVE BookInv'
    BY <1>0, <1>5, CancelRestingStep DEF CancelOrder
  <1>6. ASSUME NEW o \in OrderIds, CancelNext(o) PROVE BookInv'
    <2>1. cancelling' \subseteq OrderIds
      BY <1>0, <1>6 DEF CancelNext
    <2>2. CASE status[o] = "resting" /\ CancelResting(o)
      BY <2>1, <2>2, CancelRestingStep
    <2>3. CASE UNCHANGED <<mode, marketOpen, orderVars, cashVars, bookVars, pass>>
      BY <1>0, <2>1, <2>3, QuietStep DEF orderVars, ControlTyped
    <2> QED
      BY <1>6, <2>2, <2>3 DEF CancelNext
  <1>7. CASE StartTick
    BY <1>0, <1>7, QuietStep DEF StartTick, orderVars, ControlTyped
  <1>8. ASSUME NEW o \in OrderIds, NEW mark \in Marks, Skip(o, mark) PROVE BookInv'
    <2>1. /\ UNCHANGED <<status, request, blotter, reserved_cash, cashVars, bookVars>>
          /\ UNCHANGED <<mode, marketOpen, cancelling>> /\ pass' = pass \ {o}
      BY <1>8 DEF Skip, Visit
    <2>2. intended_price' \in [OrderIds -> Positive \cup {None}]
      BY <1>0, <1>8, MarksTyped DEF Skip, Reference
    <2>3. ControlTyped'
      BY <1>0, <2>1 DEF ControlTyped
    <2> QED
      BY <2>1, <2>2, <2>3, QuietStep
  <1>9. ASSUME NEW o \in OrderIds, NEW mark \in Marks, Fire(o, mark) PROVE BookInv'
    BY <1>9, FireStep
  <1>10. ASSUME NEW m \in {"paper", "live"}, SetMode(m) PROVE BookInv'
    BY <1>0, <1>10, QuietStep DEF SetMode, orderVars, loopVars, ControlTyped
  <1>11. ASSUME NEW open \in BOOLEAN, ExchangeSession(open) PROVE BookInv'
    BY <1>0, <1>11, QuietStep DEF ExchangeSession, orderVars, loopVars, ControlTyped
  <1>12. CASE UNCHANGED vars
    BY <1>0, <1>12, QuietStep DEF vars, orderVars, loopVars, ControlTyped
  <1>13. ASSUME NEW o \in OrderIds, NEW s \in Symbols, SquareoffRetry(o, s) PROVE BookInv'
    BY <1>0, <1>13, QuietStep DEF SquareoffRetry, orderVars, ControlTyped
  <1> QED
    BY <1>1, <1>2, <1>3, <1>4, <1>5, <1>6, <1>7, <1>8, <1>9, <1>10, <1>11, <1>12, <1>13
    DEF Next

LEMMA BookAlways == Spec => []BookInv
  BY BookInit, BookNext, PTL DEF Spec

\* Every variable keeps its type whatever the orders, prices and charges
\* (models.py, the paper_* columns).
THEOREM TypeCorrect == Spec => []TypeOK
  <1>1. BookInv => TypeOK
    BY DEF BookInv
  <1> QED
    BY <1>1, BookAlways, PTL

\* The exact cash invariant of fills.py, for every set of orders and charges.
THEOREM CashIdentityHolds == Spec => []CashIdentity
  <1>1. BookInv => CashIdentity
    BY DEF BookInv
  <1> QED
    BY <1>1, BookAlways, PTL

\* No race of exits ever sells a symbol short (fills.py's sell guard, the OCO
\* cancel and the square-off).
THEOREM NeverShort == Spec => []LongOnly
  <1>1. BookInv => LongOnly
    BY DEF BookInv
  <1> QED
    BY <1>1, BookAlways, PTL

\* The append-only ledger reconstructs the free cash at every row (models.py,
\* PaperLedgerEntry).
THEOREM LedgerAlwaysReplays == Spec => []LedgerReplays
  <1>1. BookInv => LedgerReplays
    BY DEF BookInv
  <1> QED
    BY <1>1, BookAlways, PTL

-----------------------------------------------------------------------------
(* Closed orders stay closed *)

\* A step writes only rows that are absent or resting.
RowStands(p) == status'[p] = status[p] /\ request'[p] = request[p]

LEMMA ClosedRowsStand ==
  ASSUME BookInv, [Next]_vars, NEW p \in OrderIds, status[p] \in Terminal
  PROVE  RowStands(p)
  <1>0. /\ status[p] # "absent" /\ status[p] # "resting"
        /\ status \in [OrderIds -> Status] /\ request \in [OrderIds -> Request \cup {None}]
    BY DEF Terminal, BookInv, TypeOK, RowsTyped
  <1>1. ASSUME NEW o \in OrderIds, NEW r, NEW price, NEW avail, NEW led, o # p,
               ExecuteFill(o, r, price, avail, led)
        PROVE  status'[p] = status[p]
    BY <1>0, <1>1 DEF ExecuteFill, Affordable, Covered, BookFill, RejectFill
  <1>2. ASSUME NEW o \in OrderIds, NEW r, NEW mark, Insert(o, r, mark)
        PROVE  o # p /\ request'[p] = request[p]
    BY <1>0, <1>2 DEF Insert
  <1>3. ASSUME NEW o \in OrderIds, NEW r, NEW mark, MarketOrder(o, r, mark)
        PROVE  RowStands(p)
    <2>1. o # p /\ request'[p] = request[p]
      BY <1>2, <1>3 DEF MarketOrder
    <2>2. CASE OnlyStatus(o, "resting") \/ OnlyStatus(o, "rejected")
      BY <1>0, <2>1, <2>2 DEF OnlyStatus, RowStands
    <2>3. CASE ExecuteFill(o, r, mark, cash_available, ledger)
      BY <1>1, <2>1, <2>3 DEF RowStands
    <2> QED
      BY <1>3, <2>2, <2>3 DEF MarketOrder
  <1>4. ASSUME NEW o \in OrderIds, NEW r, NEW mark, PlaceResting(o, r, mark)
        PROVE  RowStands(p)
    <2>1. o # p /\ request'[p] = request[p]
      BY <1>2, <1>4 DEF PlaceResting
    <2> QED
      BY <1>0, <1>4, <2>1 DEF PlaceResting, OnlyStatus, RowStands
  <1>5. ASSUME NEW sl \in OrderIds, NEW tp \in OrderIds, NEW g, NEW b, NEW m, NEW n,
               PlaceBracket(sl, tp, g, b, m, n)
        PROVE  RowStands(p)
    BY <1>0, <1>5 DEF PlaceBracket, RowStands
  <1>6. ASSUME NEW o \in OrderIds, status[o] = "resting", CancelResting(o) PROVE RowStands(p)
    BY <1>0, <1>6 DEF CancelResting, RowStands
  <1>7. ASSUME NEW o \in OrderIds, NEW mark, Fire(o, mark) PROVE RowStands(p)
    <2>1. o # p /\ request' = request
      BY <1>0, <1>7 DEF Fire, Visit
    <2>2. status'[p] = status[p]
      BY <1>1, <1>7, <2>1 DEF Fire
    <2> QED
      BY <2>1, <2>2 DEF RowStands
  <1>8. CASE UNCHANGED <<status, request>>
    BY <1>8 DEF RowStands
  <1>9. ASSUME NEW o \in OrderIds, CancelOrder(o) \/ CancelNext(o) PROVE RowStands(p)
    BY <1>6, <1>8, <1>9 DEF CancelOrder, CancelNext, orderVars
  <1>10. ASSUME NEW o \in OrderIds, NEW s \in Symbols, NEW mark, Squareoff(o, s, mark)
         PROVE  RowStands(p)
    BY <1>3, <1>10 DEF Squareoff
  <1>11. ASSUME NEW o \in OrderIds, NEW r, NEW mark, PlaceMarket(o, r, mark) PROVE RowStands(p)
    BY <1>3, <1>11 DEF PlaceMarket
  <1>12. CASE StartTick \/ UNCHANGED vars
    BY <1>8, <1>12 DEF StartTick, vars, orderVars
  <1>13. ASSUME NEW o, NEW mark, Skip(o, mark) PROVE RowStands(p)
    BY <1>8, <1>13 DEF Skip, Visit
  <1>14. ASSUME NEW x, SetMode(x) \/ ExchangeSession(x) PROVE RowStands(p)
    BY <1>8, <1>14 DEF SetMode, ExchangeSession, orderVars
  <1>15. ASSUME NEW o, NEW s, SquareoffRetry(o, s) PROVE RowStands(p)
    BY <1>8, <1>15 DEF SquareoffRetry, orderVars
  <1> QED
    BY <1>4, <1>5, <1>7, <1>9, <1>10, <1>11, <1>12, <1>13, <1>14, <1>15 DEF Next

\* No replay, evaluator pass or cancel loop moves an order that is closed
\* (broker.py's replay lookup, the evaluator's re-check of each row).
THEOREM ClosedForGood == Spec => TerminalIsFinal
  <1>1. BookInv /\ [Next]_vars =>
          [\A o \in OrderIds : status[o] \in Terminal =>
             status'[o] = status[o] /\ request'[o] = request[o]]_vars
    BY ClosedRowsStand DEF RowStands
  <1> QED
    BY <1>1, BookAlways, PTL DEF Spec, TerminalIsFinal

-----------------------------------------------------------------------------
(* Only sales overdraw *)

LEMMA DivBound ==
  ASSUME NEW a \in Nat, NEW n \in Nat, NEW d \in Positive, a < (n + 1) * d
  PROVE  a \div d <= n
  <1>1. /\ a \div d \in Nat /\ a % d \in 0 .. (d - 1)
        /\ a = d * (a \div d) + (a % d)
    BY DEF Positive
  <1>2. SUFFICES ASSUME n + 1 <= a \div d PROVE FALSE
    BY <1>1
  <1>3. d * (n + 1) <= d * (a \div d)
    BY <1>1, <1>2, ProductMonotonic DEF Positive
  <1> QED
    BY <1>1, <1>3 DEF Positive

\* A sale costs the flat charge at most: what is charged on its value is a share
\* of it.
LEMMA SaleCostsAtMostFlat ==
  ASSUME NEW price \in Positive, NEW qty \in Positive
  PROVE  SellCredit(price, qty) >= -FlatCharge
  <1> DEFINE n == price * qty
             half == RateUnit \div 2
             share == (n * SellRate + half) \div RateUnit
  <1>1. /\ n \in Nat /\ SellRate \in Nat /\ RateUnit \in Positive /\ FlatCharge \in Nat
        /\ SellRate <= RateUnit
    BY ProductType, MoneyAssumption DEF Positive
  <1>2. half \in Nat /\ half < RateUnit
    BY <1>1 DEF Positive
  <1>3. /\ n * SellRate \in Nat /\ n * RateUnit \in Nat
        /\ n * SellRate <= n * RateUnit
    <2>1. SellRate * n <= RateUnit * n
      BY <1>1, ProductMonotonic DEF Positive
    <2> QED
      BY <1>1, <2>1, ProductType DEF Positive
  <1>4. (n + 1) * RateUnit = n * RateUnit + RateUnit
    BY <1>1 DEF Positive
  <1>5. n * SellRate + half \in Nat /\ n * SellRate + half < (n + 1) * RateUnit
    <2> HIDE DEF n, half
    <2> QED
      BY <1>1, <1>2, <1>3, <1>4 DEF Positive
  <1>6. share \in Nat /\ share <= n
    <2> HIDE DEF n, half
    <2> QED
      BY <1>1, <1>5, DivBound, DivType
  <1>7. SellCredit(price, qty) = n - (FlatCharge + share)
    BY DEF SellCredit, Charges
  <1> HIDE DEF n, share
  <1> QED
    BY <1>1, <1>6, <1>7

\* The free cash moves up, or stays out of the red, or is charged for a sale.
CashStep ==
  \/ cash_available' >= cash_available
  \/ cash_available' >= 0
  \/ SaleIsCharged

\* A fill that starts from what was free and a release.
LEMMA FillCashStep ==
  ASSUME BookInv, NEW o \in OrderIds, NEW r \in Request, NEW price \in Prices,
         NEW avail \in Int, avail >= cash_available, NEW led,
         status[o] # "filled", request'[o] = r,
         ExecuteFill(o, r, price, avail, led)
  PROVE  CashStep
  <1>0. /\ BuyCost(price, r.qty) \in Int /\ SellCredit(price, r.qty) \in Int
        /\ SellCredit(price, r.qty) >= -FlatCharge
        /\ FlatCharge \in Int /\ cash_available \in Int /\ status \in [OrderIds -> Status]
    BY CostTypes, SaleCostsAtMostFlat, MarksTyped, MoneyAssumption
    DEF Request, Positive, BookInv, TypeOK, CashTyped, RowsTyped
  <1>1. CASE RejectFill(o, avail, led)
    BY <1>0, <1>1 DEF RejectFill, CashStep
  <1>2. CASE /\ r.side = "BUY" /\ Affordable(r, price, avail)
             /\ BookFill(o, r, -BuyCost(price, r.qty), "buy_debit", avail, led)
    <2>1. cash_available' = avail - BuyCost(price, r.qty) /\ BuyCost(price, r.qty) <= avail
      BY <1>0, <1>2 DEF BookFill, Affordable
    <2> QED
      BY <1>0, <2>1 DEF CashStep
  <1>3. CASE /\ r.side = "SELL"
             /\ BookFill(o, r, SellCredit(price, r.qty), "sell_credit", avail, led)
    <2>1. cash_available' = avail + SellCredit(price, r.qty) /\ status'[o] = "filled"
      BY <1>0, <1>3 DEF BookFill
    <2>2. cash_available' >= cash_available - FlatCharge
      BY <1>0, <2>1
    <2> QED
      BY <1>3, <2>1, <2>2 DEF CashStep, SaleIsCharged
  <1> QED
    BY <1>1, <1>2, <1>3 DEF ExecuteFill

LEMMA CashSteps ==
  ASSUME BookInv, [Next]_vars
  PROVE  CashStep
  <1>0. /\ cash_available \in Int /\ status \in [OrderIds -> Status]
        /\ request \in [OrderIds -> Request \cup {None}]
        /\ \A o \in OrderIds : /\ reserved_cash[o] \in Nat
                               /\ cash_available + reserved_cash[o] \in Int
                               /\ cash_available + reserved_cash[o] >= cash_available
    BY DEF BookInv, TypeOK, CashTyped, RowsTyped
  <1>1. CASE cash_available' = cash_available
    BY <1>0, <1>1 DEF CashStep
  <1>2. ASSUME NEW o \in OrderIds, NEW r \in Request, NEW mark \in Marks,
               MarketOrder(o, r, mark)
        PROVE  CashStep
    <2>1. status[o] # "filled" /\ request'[o] = r
      BY <1>0, <1>2 DEF MarketOrder, Insert
    <2>2. CASE OnlyStatus(o, "resting") \/ OnlyStatus(o, "rejected")
      BY <1>1, <2>2 DEF OnlyStatus, cashVars
    <2>3. CASE mark # None /\ ExecuteFill(o, r, mark, cash_available, ledger)
      <3>1. mark \in Prices /\ cash_available >= cash_available
        BY <1>0, <2>3 DEF Marks
      <3> QED
        BY <1>0, <2>1, <2>3, <3>1, FillCashStep
    <2> QED
      BY <1>2, <2>2, <2>3 DEF MarketOrder
  <1>3. ASSUME NEW o \in OrderIds, NEW r \in Requests, NEW mark \in Marks,
               PlaceResting(o, r, mark)
        PROVE  CashStep
    <2>1. CASE OnlyStatus(o, "resting") \/ OnlyStatus(o, "rejected")
      BY <1>1, <2>1 DEF OnlyStatus, cashVars
    <2>2. CASE /\ Reserves(r) /\ BuyCost(r.limit, r.qty) <= cash_available
               /\ cash_available' = cash_available - BuyCost(r.limit, r.qty)
      <3>1. BuyCost(r.limit, r.qty) \in Int
        BY <2>2, RequestsTyped, CostTypes DEF Reserves, Request, Positive
      <3> QED
        BY <1>0, <2>2, <3>1 DEF CashStep
    <2> QED
      BY <1>3, <2>1, <2>2 DEF PlaceResting
  <1>4. ASSUME NEW o \in OrderIds, CancelResting(o) PROVE CashStep
    BY <1>0, <1>4 DEF CancelResting, CashStep
  <1>5. ASSUME NEW o \in OrderIds, NEW mark \in Marks, Fire(o, mark) PROVE CashStep
    <2>1. /\ mark \in Prices /\ request[o] \in Request /\ status[o] # "filled"
          /\ request' = request
          /\ ExecuteFill(o, request[o], mark, cash_available + reserved_cash[o],
                         ReleasedLedger(o))
      BY <1>5 DEF Fire, Visit, Marks, BookInv, TypeOK, RowsTyped
    <2> QED
      BY <1>0, <2>1, FillCashStep
  <1>6. ASSUME NEW o \in OrderIds, NEW s \in Symbols, NEW mark \in Marks,
               Squareoff(o, s, mark)
        PROVE  CashStep
    <2> DEFINE exit == [symbol |-> s, side |-> "SELL", type |-> "MARKET",
                        qty |-> position[s],
                        limit |-> None, trigger |-> None, group |-> None]
    <2>1. position[s] \in Positive
      BY <1>6 DEF Squareoff, BookInv, TypeOK, JournalTyped, LongOnly, Positive
    <2>2. exit \in Request /\ MarketOrder(o, exit, mark)
      BY <1>6, <2>1 DEF Squareoff, Request, Types
    <2> QED
      BY <1>2, <2>2
  <1>7. ASSUME NEW o \in OrderIds, CancelOrder(o) \/ CancelNext(o) PROVE CashStep
    BY <1>1, <1>4, <1>7 DEF CancelOrder, CancelNext, cashVars
  <1>8. ASSUME NEW o \in OrderIds, NEW r \in Requests, NEW mark \in Marks,
               PlaceMarket(o, r, mark)
        PROVE  CashStep
    BY <1>2, <1>8, RequestsTyped DEF PlaceMarket
  <1>9. ASSUME NEW sl, NEW tp, NEW g, NEW b, NEW m, NEW n,
               PlaceBracket(sl, tp, g, b, m, n)
        PROVE  CashStep
    BY <1>1, <1>9 DEF PlaceBracket, cashVars
  <1>10. CASE \/ StartTick \/ UNCHANGED vars
              \/ \E o \in OrderIds, mark \in Marks : Skip(o, mark)
              \/ \E m \in {"paper", "live"} : SetMode(m)
              \/ \E open \in BOOLEAN : ExchangeSession(open)
              \/ \E o \in OrderIds, s \in Symbols : SquareoffRetry(o, s)
    BY <1>1, <1>10 DEF StartTick, Skip, SetMode, ExchangeSession, SquareoffRetry, vars, cashVars
  <1> QED
    BY <1>3, <1>5, <1>6, <1>7, <1>8, <1>9, <1>10 DEF Next

\* Nothing but a sale takes the free balance below zero, and that by its flat
\* charge at most, whatever the prices, the charges and the order of operations
\* (broker.py and fills.py, the gates on buying power).
THEOREM NothingElseOverdraws == Spec => OnlySalesOverdraw
  <1>1. ASSUME BookInv, [Next]_vars,
               cash_available' < cash_available, cash_available' < 0
        PROVE  SaleIsCharged
    <2>1. BookInv'
      BY <1>1, BookNext
    <2>2. cash_available \in Int /\ cash_available' \in Int
      BY <1>1, <2>1 DEF BookInv, TypeOK, CashTyped
    <2> QED
      BY <1>1, <2>2, CashSteps DEF CashStep
  <1>2. BookInv /\ [Next]_vars =>
          [cash_available' < cash_available /\ cash_available' < 0 => SaleIsCharged]_vars
    BY <1>1
  <1> QED
    BY <1>2, BookAlways, PTL DEF Spec, OnlySalesOverdraw

=============================================================================
