----------------------- MODULE OptionStrategies_proofs -----------------------
(***************************************************************************)
(* What the book of option strategies keeps for any strategies, legs,      *)
(* quotes and number of tries.                                             *)
(*                                                                         *)
(* The invariant says of a sequence of rows that the legs of a strategy    *)
(* were filled in order, once each, after its margin.  It is said twice:   *)
(* of the book, and of the book as last committed while a thread holds the *)
(* account row, which is what a crash goes back to.                        *)
(*                                                                         *)
(* The last part is about the positions: a recursion over the legs of a    *)
(* try, and the sum of the cash its fills moved, go leg by leg together.   *)
(***************************************************************************)
EXTENDS OptionStrategies, FiniteSums, SequenceTheorems

-----------------------------------------------------------------------------
(* The invariant *)

BookRow ==
  [kind : {"fill", "reserve"}, strategy : Strategies, leg : Nat, amount : Int]

Statuses == {"absent", "registered", "active", "withdrawn"}
Phases == {"idle", "loading", "submitting", "second", "done"}

Types ==
  /\ status \in [Strategies -> Statuses]
  /\ phase \in [Strategies -> Phases]
  /\ seen \in [Strategies -> Statuses]
  /\ tries \in [Strategies -> Nat]
  /\ writer \in (Strategies \ ByChat) \cup {None}
  /\ ledger \in Seq(BookRow)
  /\ writer # None => saved[1] \in Seq(BookRow) /\ Len(saved[1]) <= Len(ledger)

Fills(rows, s) ==
  {i \in DOMAIN rows : rows[i].kind = "fill" /\ rows[i].strategy = s}

\* The legs with a fill are the first ones, and each has one.
LegsInOrder(rows, s) ==
  LET n == FilledLegs(rows, s) IN
  /\ n \in 0 .. Len(Legs[s])
  /\ \A i \in Fills(rows, s) : rows[i].leg \in 1 .. n
  /\ \A i, j \in Fills(rows, s) : rows[i].leg = rows[j].leg => i = j
  /\ \A l \in 1 .. n : \E i \in Fills(rows, s) : rows[i].leg = l

MarginedFills(rows, s) ==
  \A i \in Fills(rows, s) :
    Legs[s][rows[i].leg].side = "SELL" /\ Margin[s] > 0
    => \E j \in 1 .. i - 1 : rows[j] = ReserveRow(s)

Whole(rows, s) == FilledLegs(rows, s) = Len(Legs[s])

Book(rows) ==
  \A s \in Strategies : /\ LegsInOrder(rows, s)
                        /\ MarginedFills(rows, s)
                        /\ status[s] = "active" => Whole(rows, s)

\* What a thread that submits read of its strategy is still so.
SeenHolds ==
  \A s \in Strategies : phase[s] = "submitting" =>
    /\ seen[s] \in {"registered", "active"}
    /\ seen[s] = "registered" => status[s] # "active"
    /\ seen[s] = "active" => Whole(ledger, s)

BookInv == Book(ledger) /\ (writer # None => Book(saved[1]))

Inv == Types /\ BookInv /\ SeenHolds

-----------------------------------------------------------------------------
(* The rows of a try *)

LEMMA StrategyParts ==
  ASSUME NEW s \in Strategies
  PROVE  /\ Len(Legs[s]) \in Nat /\ Len(Legs[s]) >= 1
         /\ DOMAIN Legs[s] = 1 .. Len(Legs[s])
         /\ Lots[s] \in Nat /\ Margin[s] \in Nat
         /\ \A i \in 1 .. Len(Legs[s]) : /\ Legs[s][i].side \in {"BUY", "SELL"}
                                         /\ Legs[s][i].symbol \in Symbols
<1> DEFINE Leg == [side : {"BUY", "SELL"}, symbol : Symbols]
<1>1. Legs[s] \in Seq(Leg) /\ Legs[s] # <<>> /\ Lots[s] \in Nat \ {0} /\ Margin[s] \in Nat
  BY OptionAssumption
<1> HIDE DEF Leg
<1>2. Len(Legs[s]) \in Nat /\ Len(Legs[s]) >= 1 /\ DOMAIN Legs[s] = 1 .. Len(Legs[s])
  BY <1>1
<1>3. \A i \in 1 .. Len(Legs[s]) : Legs[s][i] \in Leg
  BY <1>1
<1> QED  BY <1>1, <1>2, <1>3 DEF Leg

LEMMA LotsArePositive ==
  \A s \in Strategies : Lots[s] \in Nat \ {0}
  BY OptionAssumption

LEMMA HalfUpIsInteger ==
  ASSUME NEW n \in Int, NEW d \in Nat \ {0}
  PROVE  HalfUp(n, d) \in Int
<1> DEFINE below == (2 * (-n) + d) \div (2 * d)
           above == (2 * n + d) \div (2 * d)
<1>1. 2 * (-n) + d \in Int /\ 2 * n + d \in Int /\ 2 * d \in Int /\ 2 * d > 0
  OBVIOUS
<1>2. \A a, b \in Int : b > 0 => a \div b \in Int
  OBVIOUS
<1>3. below \in Int /\ above \in Int
  BY <1>1, <1>2
<1>4. HalfUp(n, d) = IF n < 0 THEN -below ELSE above
  BY DEF HalfUp
<1> HIDE DEF below, above
<1> QED  BY <1>3, <1>4

\* The figures of a leg: what its units are worth, the charges, the cash and
\* the basis of a unit.
LEMMA LegFigures ==
  ASSUME NEW s \in Strategies, NEW i \in 1 .. Len(Legs[s]), NEW quotes \in Quotes
  PROVE  /\ PremiumValue(s, i, quotes) \in Int /\ PremiumValue(s, i, quotes) * RateBase \in Int
         /\ Charges(s, i, quotes) \in Int
         /\ NetCashflow(s, i, quotes) \in Int
         /\ UnitCost(s, i, quotes) \in Int
         /\ HalfUp(Charges(s, i, quotes), RateBase) \in Int
<1> DEFINE side == Legs[s][i].side
           mid == quotes[Legs[s][i].symbol]
           price == FillPrice(side, mid)
           value == PremiumValue(s, i, quotes)
           due == Charges(s, i, quotes)
<1>1. /\ Legs[s][i].symbol \in Symbols /\ side \in {"BUY", "SELL"}
      /\ Lots[s] \in Nat \ {0}
  BY StrategyParts, LotsArePositive
<1>2. /\ HalfSpread \in Int /\ Tick \in Int /\ Brokerage \in Int
      /\ RateBase \in Nat \ {0} /\ Rate[side] \in Int
  BY <1>1, OptionAssumption
<1>3. mid \in Int
  <2>1. Premiums \cup {NoQuote} \subseteq Int
    BY OptionAssumption DEF NoQuote
  <2>2. quotes \in [Symbols -> Premiums \cup {NoQuote}]
    BY DEF Quotes
  <2> QED  BY <1>1, <2>1, <2>2
<1>4. price \in Int
  <2> HIDE DEF side, mid
  <2> QED  BY <1>2, <1>3 DEF FillPrice
<1>5. \A m, n \in Int : m * n \in Int /\ m + n \in Int /\ m - n \in Int /\ -m \in Int
  OBVIOUS
<1>6. value = price * Lots[s] /\ due = Brokerage * RateBase + Rate[side] * value
  BY DEF PremiumValue, Charges
<1> HIDE DEF side, mid, price, value, due
<1>7. value \in Int /\ value * RateBase \in Int
  <2>1. Lots[s] \in Int /\ RateBase \in Int
    BY <1>1, <1>2
  <2>2. value \in Int
    BY <1>4, <1>5, <1>6, <2>1
  <2> QED  BY <1>5, <2>1, <2>2
<1>8. due \in Int
  <2>1. Brokerage * RateBase \in Int /\ Rate[side] * value \in Int
    BY <1>2, <1>5, <1>7
  <2> QED  BY <1>5, <1>6, <2>1
<1>9. HalfUp(due, RateBase) \in Int
  BY <1>2, <1>8, HalfUpIsInteger
<1>10. /\ HalfUp(value * RateBase + due, RateBase) \in Int
       /\ HalfUp(value * RateBase - due, RateBase) \in Int
  BY <1>2, <1>5, <1>7, <1>8, HalfUpIsInteger
<1>11. /\ HalfUp(value + HalfUp(due, RateBase), Lots[s]) \in Int
       /\ HalfUp(value - HalfUp(due, RateBase), Lots[s]) \in Int
  BY <1>1, <1>5, <1>7, <1>9, HalfUpIsInteger
<1>12. NetCashflow(s, i, quotes) \in Int
  BY <1>5, <1>10 DEF NetCashflow, value, due
<1>13. UnitCost(s, i, quotes) \in Int
  BY <1>11 DEF UnitCost, value, due
<1> QED  BY <1>7, <1>8, <1>9, <1>12, <1>13 DEF value, due

\* A try from leg n + 1 to `last` adds the reserve, if it takes one, and then
\* one fill per leg.
TryOf(s, n, last, reserves, add) ==
  /\ add \in Seq(BookRow)
  /\ Len(add) = reserves + last - n
  /\ \A k \in 1 .. reserves : add[k] = ReserveRow(s)
  /\ \A k \in reserves + 1 .. Len(add) :
       add[k].kind = "fill" /\ add[k].strategy = s /\ add[k].leg = n + k - reserves

LEMMA FillsOfATry ==
  ASSUME NEW s \in Strategies, NEW quotes \in Quotes,
         NEW n \in Nat, NEW last \in n .. Len(Legs[s])
  PROVE  TryOf(s, n, last, 0, FillRows(s, n + 1, last, quotes))
<1> DEFINE add == FillRows(s, n + 1, last, quotes)
<1>0. last \in Nat /\ Len(Legs[s]) \in Nat /\ last - n \in Nat
  BY StrategyParts
<1>1. Count(n + 1, last) = [k \in 1 .. last - n |-> n + k]
  BY <1>0 DEF Count
<1>2. add = [k \in 1 .. last - n |-> FillRow(s, n + k, quotes)]
  BY <1>1 DEF FillRows
<1>3. ASSUME NEW k \in 1 .. last - n
      PROVE  FillRow(s, n + k, quotes) \in BookRow
  <2>1. n + k \in 1 .. Len(Legs[s]) /\ n + k \in Nat
    BY <1>0
  <2> QED  BY <2>1, LegFigures DEF FillRow, BookRow
<1>4. add \in Seq(BookRow) /\ Len(add) = last - n
  <2>1. add \in [1 .. last - n -> BookRow]
    BY <1>2, <1>3
  <2> HIDE DEF add
  <2>2. add \in Seq(BookRow)
    BY <1>0, <2>1, SeqDef
  <2>3. DOMAIN add = 1 .. last - n
    BY <2>1
  <2> QED  BY <1>0, <2>2, <2>3
<1>5. \A k \in 1 .. last - n :
        add[k].kind = "fill" /\ add[k].strategy = s /\ add[k].leg = n + k
  BY <1>2 DEF FillRow
<1> HIDE DEF add
<1>6. \A k \in 0 + 1 .. Len(add) : k \in 1 .. last - n /\ n + k - 0 = n + k
  BY <1>0, <1>4
<1>7. TryOf(s, n, last, 0, add)
  BY <1>0, <1>4, <1>5, <1>6 DEF TryOf
<1> QED  BY <1>7 DEF add

LEMMA ReserveIsRow ==
  ASSUME NEW s \in Strategies
  PROVE  ReserveRow(s) \in BookRow
  BY StrategyParts DEF ReserveRow, BookRow

LEMMA RowsOfATry ==
  ASSUME NEW s \in Strategies, NEW quotes \in Quotes,
         FilledLegs(ledger, s) \in Nat,
         NEW last \in FilledLegs(ledger, s) .. Len(Legs[s])
  PROVE  TryOf(s, FilledLegs(ledger, s), last, IF NeedsMargin(s) THEN 1 ELSE 0,
               TryRows(s, last, quotes))
<1> DEFINE n == FilledLegs(ledger, s)
           fills == FillRows(s, n + 1, last, quotes)
<1>0. n \in Nat /\ last \in Nat /\ last - n \in Nat
  BY StrategyParts
<1>1. TryOf(s, n, last, 0, fills)
  BY FillsOfATry
<1>2. TryRows(s, last, quotes) = MarginRows(s) \o fills
  BY DEF TryRows
<1> HIDE DEF n, fills
<1>3. CASE ~NeedsMargin(s)
  <2>1. TryRows(s, last, quotes) = <<>> \o fills
    BY <1>2, <1>3 DEF MarginRows
  <2>2. <<>> \o fills = fills
    BY <1>1 DEF TryOf
  <2> QED  BY <1>1, <1>3, <2>1, <2>2 DEF n
<1>4. CASE NeedsMargin(s)
  <2> DEFINE add == <<ReserveRow(s)>> \o fills
  <2>1. TryRows(s, last, quotes) = add
    BY <1>2, <1>4 DEF MarginRows
  <2>2. fills \in Seq(BookRow) /\ Len(fills) = last - n
    BY <1>0, <1>1 DEF TryOf
  <2>3. <<ReserveRow(s)>> \in Seq(BookRow) /\ Len(<<ReserveRow(s)>>) = 1
    BY ReserveIsRow
  <2>4. /\ add \in Seq(BookRow) /\ Len(add) = 1 + last - n
        /\ add[1] = ReserveRow(s)
        /\ \A k \in 2 .. Len(add) : add[k] = fills[k - 1]
    BY <1>0, <2>2, <2>3
  <2> HIDE DEF add
  <2>5. ASSUME NEW k \in 2 .. Len(add)
        PROVE  add[k].kind = "fill" /\ add[k].strategy = s /\ add[k].leg = n + k - 1
    <3>1. k - 1 \in 0 + 1 .. Len(fills)
      <4>1. k \in Int /\ 2 <= k /\ k <= 1 + last - n
        BY <1>0, <2>4
      <4>2. Len(fills) = last - n
        BY <2>2
      <4> QED  BY <1>0, <4>1, <4>2
    <3>2. /\ fills[k - 1].kind = "fill" /\ fills[k - 1].strategy = s
          /\ fills[k - 1].leg = n + (k - 1) - 0
      BY <1>1, <3>1 DEF TryOf
    <3> QED  BY <1>0, <2>4, <3>2
  <2>6. TryOf(s, n, last, 1, add)
    BY <2>4, <2>5 DEF TryOf
  <2> QED  BY <1>4, <2>1, <2>6 DEF n
<1> QED  BY <1>3, <1>4

-----------------------------------------------------------------------------
(* A book that a try is added to *)

LEMMA FillsAreFinite ==
  ASSUME NEW rows \in Seq(BookRow), NEW s
  PROVE  /\ IsFiniteSet(Fills(rows, s))
         /\ FilledLegs(rows, s) = Cardinality(Fills(rows, s))
         /\ FilledLegs(rows, s) \in Nat
<1>1. Fills(rows, s) \subseteq 1 .. Len(rows)
  BY DEF Fills
<1>2. IsFiniteSet(1 .. Len(rows))
  BY FS_Interval
<1>3. IsFiniteSet(Fills(rows, s))
  BY <1>1, <1>2, FS_Subset
<1> QED  BY <1>3, FS_CardinalityType DEF FilledLegs, Fills

\* The appended rows, at their places in the longer book.
LEMMA Appended ==
  ASSUME NEW rows \in Seq(BookRow), NEW add \in Seq(BookRow)
  PROVE  /\ rows \o add \in Seq(BookRow)
         /\ Len(rows \o add) = Len(rows) + Len(add)
         /\ \A i \in 1 .. Len(rows) : (rows \o add)[i] = rows[i]
         /\ \A k \in 1 .. Len(add) : (rows \o add)[Len(rows) + k] = add[k]
  OBVIOUS

\* The fills of other strategies stay, and so do the places of those of s.
LEMMA FillsAfterTry ==
  ASSUME NEW rows \in Seq(BookRow), NEW s \in Strategies, NEW n \in Nat,
         NEW last \in Nat, n <= last, NEW reserves \in {0, 1}, NEW add,
         TryOf(s, n, last, reserves, add)
  PROVE  /\ \A t \in Strategies \ {s} : Fills(rows \o add, t) = Fills(rows, t)
         /\ Fills(rows \o add, s) =
              Fills(rows, s) \cup (Len(rows) + reserves + 1 .. Len(rows) + Len(add))
<1> DEFINE new == rows \o add
           fresh == Len(rows) + reserves + 1 .. Len(rows) + Len(add)
<1>1. /\ add \in Seq(BookRow) /\ Len(add) \in Nat /\ Len(add) >= reserves
      /\ Len(rows) \in Nat
  BY DEF TryOf
<1>2. /\ new \in Seq(BookRow)
      /\ Len(new) = Len(rows) + Len(add)
      /\ \A i \in 1 .. Len(rows) : new[i] = rows[i]
      /\ \A k \in 1 .. Len(add) : new[Len(rows) + k] = add[k]
  BY <1>1, Appended
<1> HIDE DEF new
<1>3. DOMAIN new = 1 .. Len(rows) + Len(add) /\ DOMAIN rows = 1 .. Len(rows)
  BY <1>2
<1>4. ASSUME NEW i \in fresh
      PROVE  new[i].kind = "fill" /\ new[i].strategy = s
  <2>1. i - Len(rows) \in reserves + 1 .. Len(add) /\ i - Len(rows) \in 1 .. Len(add)
    BY <1>1
  <2>2. new[i] = add[i - Len(rows)]
    BY <1>1, <1>2, <2>1
  <2> QED  BY <2>1, <2>2 DEF TryOf
<1>5. ASSUME NEW i \in Len(rows) + 1 .. Len(rows) + Len(add), i \notin fresh
      PROVE  new[i].kind # "fill"
  <2>1. reserves = 1 /\ i = Len(rows) + 1 /\ Len(add) >= 1
    BY <1>1, <1>5
  <2>2. new[i] = add[1]
    BY <1>1, <1>2, <2>1
  <2>3. add[1] = ReserveRow(s)
    BY <2>1 DEF TryOf
  <2> QED  BY <2>2, <2>3 DEF ReserveRow
<1>6. \A i \in DOMAIN new : \/ i \in DOMAIN rows /\ i \notin fresh /\ new[i] = rows[i]
                            \/ i \in Len(rows) + 1 .. Len(rows) + Len(add)
  BY <1>1, <1>2, <1>3
<1>7. fresh \subseteq DOMAIN new /\ DOMAIN rows \subseteq DOMAIN new
  BY <1>1, <1>3
<1> HIDE DEF fresh
<1>8. ASSUME NEW t \in Strategies \ {s}
      PROVE  Fills(new, t) = Fills(rows, t)
  BY <1>2, <1>3, <1>4, <1>5, <1>6, <1>7 DEF Fills
<1>9. Fills(new, s) = Fills(rows, s) \cup fresh
  BY <1>2, <1>3, <1>4, <1>5, <1>6, <1>7 DEF Fills
<1> QED  BY <1>8, <1>9 DEF new, fresh

LEMMA LegsAfterTry ==
  ASSUME NEW rows \in Seq(BookRow), NEW s \in Strategies, LegsInOrder(rows, s),
         NEW last \in FilledLegs(rows, s) .. Len(Legs[s]),
         NEW reserves \in {0, 1}, NEW add,
         TryOf(s, FilledLegs(rows, s), last, reserves, add)
  PROVE  /\ FilledLegs(rows \o add, s) = last
         /\ LegsInOrder(rows \o add, s)
<1> DEFINE n == FilledLegs(rows, s)
           new == rows \o add
           old == Fills(rows, s)
           fresh == Len(rows) + reserves + 1 .. Len(rows) + Len(add)
<1>0. /\ n \in Nat /\ last \in Nat /\ n <= last /\ last <= Len(Legs[s])
      /\ Len(Legs[s]) \in Nat
  BY FillsAreFinite, StrategyParts
<1>1. /\ add \in Seq(BookRow) /\ Len(add) = reserves + last - n
      /\ Len(rows) \in Nat /\ Len(add) \in Nat
  BY <1>0 DEF TryOf
<1>2. new \in Seq(BookRow) /\ Fills(new, s) = old \cup fresh
  BY <1>0, <1>1, FillsAfterTry, Appended
<1>3. IsFiniteSet(old) /\ Cardinality(old) = n
  BY FillsAreFinite
<1>4. IsFiniteSet(fresh) /\ Cardinality(fresh) = last - n
  <2> DEFINE from == Len(rows) + reserves + 1
             to == Len(rows) + Len(add)
  <2>1. /\ IsFiniteSet(from .. to)
        /\ Cardinality(from .. to) = IF from > to THEN 0 ELSE to - from + 1
    <3>1. Len(rows) + reserves + 1 \in Int /\ Len(rows) + Len(add) \in Int
      BY <1>1
    <3> QED  BY <3>1, FS_Interval
  <2> QED  BY <1>0, <1>1, <2>1
<1>5. old \subseteq 1 .. Len(rows) /\ old \cap fresh = {}
  <2>1. old \subseteq 1 .. Len(rows)
    BY DEF Fills
  <2>2. \A i \in fresh : i \notin 1 .. Len(rows)
    BY <1>1
  <2> QED  BY <2>1, <2>2
<1>6. Cardinality(Fills(new, s)) = last
  <2>1. Cardinality(old \cup fresh) =
          Cardinality(old) + Cardinality(fresh) - Cardinality(old \cap fresh)
    BY <1>3, <1>4, FS_Union
  <2>2. Cardinality(old \cap fresh) = 0
    BY <1>5, FS_EmptySet
  <2> HIDE DEF old, fresh, new, n
  <2> QED  BY <1>0, <1>2, <1>3, <1>4, <2>1, <2>2
<1>7. FilledLegs(new, s) = last
  BY <1>2, <1>6, FillsAreFinite
<1>8. \A i \in old : new[i] = rows[i]
  BY <1>1, <1>5, Appended
<1>9. ASSUME NEW i \in fresh
      PROVE  /\ new[i].leg = n + (i - Len(rows)) - reserves
             /\ new[i].leg \in n + 1 .. last
             /\ i \in Int
  <2>1. /\ i - Len(rows) \in reserves + 1 .. Len(add)
        /\ i - Len(rows) \in 1 .. Len(add)
        /\ i = Len(rows) + (i - Len(rows))
    BY <1>1
  <2>2. new[i] = add[i - Len(rows)]
    BY <1>1, <2>1, Appended
  <2>3. new[i].leg = n + (i - Len(rows)) - reserves
    BY <2>1, <2>2 DEF TryOf
  <2> DEFINE k == i - Len(rows)
  <2>4. k \in Int /\ reserves + 1 <= k /\ k <= reserves + last - n /\ i = Len(rows) + k
    BY <1>0, <1>1, <2>1
  <2>5. new[i].leg = n + k - reserves
    BY <2>3
  <2> HIDE DEF k, n, new, old, fresh
  <2>6. n + k - reserves \in n + 1 .. last /\ i \in Int
    BY <1>0, <1>1, <2>4
  <2> QED  BY <2>3, <2>5, <2>6
<1>10. \A i \in old : new[i].leg \in 1 .. n
  BY <1>8 DEF LegsInOrder
<1> HIDE DEF n, new, old, fresh
<1>11. ASSUME NEW i \in old \cup fresh, NEW j \in old \cup fresh,
              new[i].leg = new[j].leg
       PROVE  i = j
  <2>1. CASE i \in old /\ j \in old
    BY <1>8, <1>11, <2>1 DEF LegsInOrder, old
  <2>2. CASE i \in fresh /\ j \in fresh
    BY <1>0, <1>1, <1>9, <1>11, <2>2
  <2>3. ASSUME NEW k \in old, NEW l \in fresh PROVE new[k].leg # new[l].leg
    BY <1>0, <1>9, <1>10
  <2> QED  BY <1>11, <2>1, <2>2, <2>3
<1>12. ASSUME NEW l \in 1 .. last
       PROVE  \E i \in old \cup fresh : new[i].leg = l
  <2>1. CASE l \in 1 .. n
    <3>1. PICK i \in old : rows[i].leg = l
      BY <2>1 DEF LegsInOrder, n, old
    <3> QED  BY <1>8, <3>1
  <2>2. CASE l > n
    <3>1. Len(rows) + reserves + (l - n) \in fresh
      BY <1>0, <1>1, <2>2 DEF fresh
    <3>2. n + ((Len(rows) + reserves + (l - n)) - Len(rows)) - reserves = l
      BY <1>0, <1>1
    <3> QED  BY <1>9, <3>1, <3>2
  <2> QED  BY <1>0, <2>1, <2>2
<1>13. \A i \in old \cup fresh : new[i].leg \in 1 .. last
  BY <1>0, <1>9, <1>10
<1>14. last \in 0 .. Len(Legs[s])
  BY <1>0
<1>15. LegsInOrder(new, s)
  BY <1>2, <1>7, <1>11, <1>12, <1>13, <1>14 DEF LegsInOrder
<1> QED  BY <1>7, <1>15 DEF new

\* A short leg is filled by a try that reserves first, or after one that did.
LEMMA MarginAfterTry ==
  ASSUME NEW rows \in Seq(BookRow), NEW s \in Strategies, LegsInOrder(rows, s),
         MarginedFills(rows, s),
         NEW last \in FilledLegs(rows, s) .. Len(Legs[s]),
         NEW reserves \in {0, 1}, NEW add,
         TryOf(s, FilledLegs(rows, s), last, reserves, add),
         reserves = 1 \/ ~HasShorts(s) \/ Margin[s] = 0 \/ last = FilledLegs(rows, s)
  PROVE  MarginedFills(rows \o add, s)
<1> DEFINE n == FilledLegs(rows, s)
           new == rows \o add
           fresh == Len(rows) + reserves + 1 .. Len(rows) + Len(add)
<1>0. /\ n \in Nat /\ last \in Nat /\ n <= last /\ last <= Len(Legs[s])
      /\ Len(Legs[s]) \in Nat /\ DOMAIN Legs[s] = 1 .. Len(Legs[s])
      /\ Margin[s] \in Nat
  BY FillsAreFinite, StrategyParts
<1>1. /\ add \in Seq(BookRow) /\ Len(add) = reserves + last - n
      /\ Len(rows) \in Nat /\ Len(add) \in Nat
  BY <1>0 DEF TryOf
<1>2. new \in Seq(BookRow) /\ Fills(new, s) = Fills(rows, s) \cup fresh
  BY <1>0, <1>1, FillsAfterTry, Appended
<1>3. \A i \in 1 .. Len(rows) : new[i] = rows[i]
  BY <1>1, Appended
<1>4. ASSUME NEW i \in Fills(rows, s),
             Legs[s][new[i].leg].side = "SELL" /\ Margin[s] > 0
      PROVE  \E j \in 1 .. i - 1 : new[j] = ReserveRow(s)
  <2>1. i \in 1 .. Len(rows) /\ new[i] = rows[i]
    BY <1>3 DEF Fills
  <2>2. PICK j \in 1 .. i - 1 : rows[j] = ReserveRow(s)
    BY <1>4, <2>1 DEF MarginedFills
  <2>3. j \in 1 .. Len(rows)
    BY <1>1, <2>1, <2>2
  <2> QED  BY <1>3, <2>2, <2>3
<1>5. ASSUME NEW i \in fresh,
             Legs[s][new[i].leg].side = "SELL" /\ Margin[s] > 0
      PROVE  \E j \in 1 .. i - 1 : new[j] = ReserveRow(s)
  <2>1. /\ i - Len(rows) \in reserves + 1 .. Len(add)
        /\ i - Len(rows) \in 1 .. Len(add)
        /\ i = Len(rows) + (i - Len(rows))
    BY <1>1
  <2>2. new[i] = add[i - Len(rows)]
    BY <1>1, <2>1, Appended
  <2>3. new[i].leg = n + (i - Len(rows)) - reserves
    BY <2>1, <2>2 DEF TryOf
  <2> HIDE DEF n, new, fresh
  <2>4. new[i].leg \in DOMAIN Legs[s] /\ last # n
    <3> DEFINE k == i - Len(rows)
    <3>1. k \in Int /\ reserves + 1 <= k /\ k <= reserves + last - n
      BY <1>0, <1>1, <2>1
    <3> HIDE DEF k
    <3>2. new[i].leg = n + k - reserves
      BY <2>3 DEF k
    <3>3. 1 <= n + k - reserves /\ n + k - reserves <= Len(Legs[s]) /\ last # n
      BY <1>0, <3>1
    <3> QED  BY <1>0, <3>1, <3>2, <3>3
  <2>5. HasShorts(s)
    BY <1>5, <2>4 DEF HasShorts
  <2>6. reserves = 1
    BY <1>0, <1>5, <2>4, <2>5 DEF n
  <2>7. Len(rows) + 1 \in 1 .. i - 1 /\ 1 \in 1 .. Len(add) /\ 1 \in 1 .. reserves
    BY <1>1, <2>1, <2>6
  <2>8. new[Len(rows) + 1] = add[1]
    BY <1>1, <2>7, Appended DEF new
  <2>9. add[1] = ReserveRow(s)
    BY <2>7 DEF TryOf
  <2> QED  BY <2>7, <2>8, <2>9
<1> HIDE DEF new, fresh
<1>6. MarginedFills(new, s)
  BY <1>2, <1>4, <1>5 DEF MarginedFills
<1> QED  BY <1>6 DEF new

\* Nothing a try writes touches what is said of another strategy.
LEMMA OthersAfterTry ==
  ASSUME NEW rows \in Seq(BookRow), NEW s \in Strategies, NEW n \in Nat,
         NEW last \in Nat, n <= last, NEW reserves \in {0, 1}, NEW add,
         TryOf(s, n, last, reserves, add),
         NEW t \in Strategies \ {s}, LegsInOrder(rows, t), MarginedFills(rows, t)
  PROVE  /\ FilledLegs(rows \o add, t) = FilledLegs(rows, t)
         /\ LegsInOrder(rows \o add, t)
         /\ MarginedFills(rows \o add, t)
<1> DEFINE new == rows \o add
<1>1. add \in Seq(BookRow)
  BY DEF TryOf
<1>2. new \in Seq(BookRow) /\ \A i \in 1 .. Len(rows) : new[i] = rows[i]
  BY <1>1, Appended
<1>3. Fills(new, t) = Fills(rows, t)
  BY FillsAfterTry
<1> HIDE DEF new
<1>4. FilledLegs(new, t) = FilledLegs(rows, t)
  BY <1>2, <1>3, FillsAreFinite
<1>5. \A i \in Fills(rows, t) : i \in 1 .. Len(rows) /\ new[i] = rows[i]
  BY <1>2 DEF Fills
<1>6. LegsInOrder(new, t)
  BY <1>3, <1>4, <1>5 DEF LegsInOrder
<1>7. MarginedFills(new, t)
  <2> SUFFICES ASSUME NEW i \in Fills(rows, t),
                      Legs[t][rows[i].leg].side = "SELL" /\ Margin[t] > 0
               PROVE  \E j \in 1 .. i - 1 : new[j] = ReserveRow(t)
    BY <1>3, <1>5 DEF MarginedFills
  <2>1. PICK j \in 1 .. i - 1 : rows[j] = ReserveRow(t)
    BY DEF MarginedFills
  <2>2. j \in 1 .. Len(rows)
    BY <1>5, <2>1
  <2> QED  BY <1>2, <2>1, <2>2
<1> QED  BY <1>4, <1>6, <1>7 DEF new

-----------------------------------------------------------------------------
(* A try keeps the book *)

LEMMA TryKeepsBook ==
  ASSUME Types, BookInv, SeenHolds,
         NEW s \in Strategies, phase[s] = "submitting",
         NEW quotes \in Quotes, NEW last \in Reached(s), FillLegs(s, last, quotes)
  PROVE  /\ ledger' \in Seq(BookRow) /\ Len(ledger') >= Len(ledger)
         /\ writer \in {None, s}
         /\ \A t \in Strategies : LegsInOrder(ledger', t) /\ MarginedFills(ledger', t)
         /\ \A t \in Strategies \ {s} : Whole(ledger, t) => Whole(ledger', t)
         /\ last = Len(Legs[s]) => Whole(ledger', s)
         /\ Whole(ledger, s) => last = Len(Legs[s])
<1> DEFINE n == FilledLegs(ledger, s)
           reserves == IF NeedsMargin(s) THEN 1 ELSE 0
           add == TryRows(s, last, quotes)
<1>1. /\ ledger \in Seq(BookRow) /\ n \in Nat /\ last \in n .. Len(Legs[s])
      /\ Len(Legs[s]) \in Nat /\ last \in Nat /\ n <= last /\ Len(ledger) \in Nat
      /\ Margin[s] \in Nat
  BY FillsAreFinite, StrategyParts DEF Types, Reached
<1>2. ledger' = ledger \o add /\ writer \in {None, s}
  BY DEF FillLegs
<1>3. TryOf(s, n, last, reserves, add)
  BY <1>1, RowsOfATry
<1>4. reserves \in {0, 1}
  OBVIOUS
<1>5. \A t \in Strategies : LegsInOrder(ledger, t) /\ MarginedFills(ledger, t)
  BY DEF BookInv, Book
<1>6. reserves = 1 \/ ~HasShorts(s) \/ Margin[s] = 0 \/ last = n
  <2>1. CASE seen[s] = "registered"
    BY <1>1, <2>1 DEF NeedsMargin
  <2>2. CASE seen[s] = "active"
    <3>1. n = Len(Legs[s])
      BY <2>2 DEF SeenHolds, Whole
    <3> QED  BY <1>1, <3>1
  <2> QED  BY <2>1, <2>2 DEF SeenHolds
<1>7. add \in Seq(BookRow)
  BY <1>3 DEF TryOf
<1>8. ledger' \in Seq(BookRow) /\ Len(ledger') = Len(ledger) + Len(add)
  BY <1>1, <1>2, <1>7, Appended
<1> HIDE DEF reserves, add
<1>9. FilledLegs(ledger', s) = last /\ LegsInOrder(ledger', s)
  BY <1>1, <1>2, <1>3, <1>4, <1>5, LegsAfterTry
<1>10. MarginedFills(ledger', s)
  BY <1>1, <1>2, <1>3, <1>4, <1>5, <1>6, MarginAfterTry
<1>11. ASSUME NEW t \in Strategies \ {s}
       PROVE  /\ FilledLegs(ledger', t) = FilledLegs(ledger, t)
              /\ LegsInOrder(ledger', t) /\ MarginedFills(ledger', t)
  BY <1>1, <1>2, <1>3, <1>4, <1>5, OthersAfterTry
<1>12. Len(ledger') >= Len(ledger)
  BY <1>1, <1>7, <1>8
<1>13. \A t \in Strategies \ {s} : Whole(ledger, t) => Whole(ledger', t)
  BY <1>11 DEF Whole
<1>14. /\ last = Len(Legs[s]) => Whole(ledger', s)
       /\ Whole(ledger, s) => last = Len(Legs[s])
  BY <1>1, <1>9 DEF Whole
<1> QED  BY <1>2, <1>8, <1>9, <1>10, <1>11, <1>12, <1>13, <1>14

\* The rows of a try are of its own strategy, and a reserve is one of them only
\* where the thread read the strategy as registered.
LEMMA TryReservesForRegistered ==
  ASSUME Types, BookInv, SeenHolds,
         NEW s \in Strategies, phase[s] = "submitting",
         NEW quotes \in Quotes, NEW last \in Reached(s), FillLegs(s, last, quotes),
         NEW t \in Strategies, status[t] = "active",
         NEW i \in Len(ledger) + 1 .. Len(ledger')
  PROVE  ledger'[i] # ReserveRow(t)
<1> DEFINE n == FilledLegs(ledger, s)
           reserves == IF NeedsMargin(s) THEN 1 ELSE 0
           add == TryRows(s, last, quotes)
<1>1. /\ ledger \in Seq(BookRow) /\ n \in Nat /\ last \in n .. Len(Legs[s])
      /\ Len(ledger) \in Nat
  BY FillsAreFinite, StrategyParts DEF Types, Reached
<1>2. ledger' = ledger \o add
  BY DEF FillLegs
<1>3. TryOf(s, n, last, reserves, add)
  BY <1>1, RowsOfATry
<1>4. add \in Seq(BookRow)
  BY <1>3 DEF TryOf
<1>5. Len(ledger') = Len(ledger) + Len(add) /\ Len(add) \in Nat
  BY <1>1, <1>2, <1>4, Appended
<1>6. i - Len(ledger) \in 1 .. Len(add) /\ i = Len(ledger) + (i - Len(ledger))
  BY <1>1, <1>5
<1>7. ledger'[i] = add[i - Len(ledger)]
  BY <1>1, <1>2, <1>4, <1>6, Appended
<1>8. ASSUME i - Len(ledger) \in reserves + 1 .. Len(add)
      PROVE  ledger'[i].kind = "fill"
  BY <1>3, <1>7, <1>8 DEF TryOf
<1>9. ASSUME i - Len(ledger) \notin reserves + 1 .. Len(add)
      PROVE  NeedsMargin(s) /\ ledger'[i] = ReserveRow(s)
  <2>1. reserves = 1 /\ i - Len(ledger) \in 1 .. reserves
    BY <1>5, <1>6, <1>9
  <2> QED  BY <1>3, <1>7, <2>1 DEF TryOf
<1>10. ReserveRow(t).kind = "reserve" /\ ReserveRow(t).strategy = t
       /\ ReserveRow(s).strategy = s
  BY DEF ReserveRow
<1>11. NeedsMargin(s) => s # t
  BY DEF NeedsMargin, SeenHolds
<1> QED  BY <1>8, <1>9, <1>10, <1>11

-----------------------------------------------------------------------------
(* Every step keeps the invariant *)

LEMMA InitInv == Init => Inv
<1> SUFFICES ASSUME Init PROVE Inv
  OBVIOUS
<1>1. Types
  BY DEF Init, Types, Statuses, Phases
<1>2. ASSUME NEW s \in Strategies
      PROVE  LegsInOrder(<<>>, s) /\ MarginedFills(<<>>, s)
  <2>1. Fills(<<>>, s) = {}
    BY DEF Fills
  <2>2. <<>> \in Seq(BookRow)
    OBVIOUS
  <2>3. FilledLegs(<<>>, s) = 0
    BY <2>1, <2>2, FillsAreFinite, FS_EmptySet
  <2> QED  BY <2>1, <2>3, StrategyParts DEF LegsInOrder, MarginedFills
<1>3. BookInv
  BY <1>2 DEF Init, BookInv, Book
<1>4. SeenHolds
  BY DEF Init, SeenHolds
<1> QED  BY <1>1, <1>3, <1>4 DEF Inv

\* A step that writes no rows and makes no strategy active keeps the book.
LEMMA QuietStepKeepsBook ==
  ASSUME BookInv, UNCHANGED ledger, writer' # None => UNCHANGED <<writer, saved>>,
         \A t \in Strategies : status'[t] = "active" => status[t] = "active"
  PROVE  BookInv'
<1>1. Book(ledger)'
  BY DEF BookInv, Book
<1>2. ASSUME writer' # None PROVE Book(saved[1])'
  <2>1. Book(saved[1]) /\ saved' = saved
    BY <1>2 DEF BookInv
  <2> QED  BY <2>1 DEF Book
<1> QED  BY <1>1, <1>2 DEF BookInv

LEMMA ChatInv ==
  ASSUME Inv, NEW s \in Strategies,
         Register(s) \/ RefuseChat(s) \/ Withdraw(s)
  PROVE  Inv'
<1> USE DEF Inv
<1>1. Types'
  <2>1. CASE Register(s)
    BY <2>1 DEF Types, Statuses, Phases, Register
  <2>2. CASE RefuseChat(s)
    BY <2>2 DEF Types, Statuses, Phases, RefuseChat
  <2>3. CASE Withdraw(s)
    BY <2>3 DEF Types, Statuses, Phases, Withdraw
  <2> QED  BY <2>1, <2>2, <2>3
<1>2. BookInv'
  <2>1. /\ UNCHANGED ledger /\ UNCHANGED <<writer, saved>>
        /\ \A t \in Strategies : status'[t] = "active" => status[t] = "active"
    BY DEF Types, Register, RefuseChat, Withdraw
  <2> QED  BY <2>1, QuietStepKeepsBook
<1>3. SeenHolds'
  BY DEF Types, SeenHolds, Register, RefuseChat, Withdraw
<1> QED  BY <1>1, <1>2, <1>3

LEMMA SubmitChatInv ==
  ASSUME Inv, NEW s \in Strategies, SubmitChat(s)
  PROVE  Inv'
<1> USE DEF Inv
<1>1. PICK quotes \in Quotes, last \in Reached(s) :
        /\ FillLegs(s, last, quotes)
        /\ status' = IF Complete(s, last) THEN [status EXCEPT ![s] = "active"] ELSE status
  BY DEF SubmitChat
<1>2. /\ s \in ByChat /\ phase[s] = "submitting"
      /\ phase' = [phase EXCEPT ![s] = "done"]
      /\ UNCHANGED <<seen, tries, writer, saved>>
  BY DEF SubmitChat
<1>3. /\ ledger' \in Seq(BookRow)
      /\ writer \in {None, s}
      /\ \A t \in Strategies : LegsInOrder(ledger', t) /\ MarginedFills(ledger', t)
      /\ \A t \in Strategies \ {s} : Whole(ledger, t) => Whole(ledger', t)
      /\ last = Len(Legs[s]) => Whole(ledger', s)
      /\ Whole(ledger, s) => last = Len(Legs[s])
  BY <1>1, <1>2, TryKeepsBook
<1>4. writer = None
  BY <1>2, <1>3 DEF Types
<1>5. status' \in [Strategies -> Statuses]
  BY <1>1 DEF Types, Statuses
<1>6. Types'
  BY <1>2, <1>3, <1>4, <1>5 DEF Types, Phases
<1>7. ASSUME NEW t \in Strategies, status'[t] = "active"
      PROVE  Whole(ledger', t)
  <2>1. CASE t = s
    BY <1>1, <1>3, <1>7, <2>1 DEF Complete, BookInv, Book
  <2>2. CASE t # s
    BY <1>1, <1>3, <1>7, <2>2 DEF Types, BookInv, Book
  <2> QED  BY <2>1, <2>2
<1>8. BookInv'
  BY <1>2, <1>3, <1>4, <1>7 DEF BookInv, Book
<1>9. SeenHolds'
  BY <1>1, <1>2, <1>3 DEF Types, SeenHolds
<1> QED  BY <1>6, <1>8, <1>9

LEMMA CommitFrees ==
  ASSUME Types, NEW s \in Strategies, Commit(s)
  PROVE  writer' # None => UNCHANGED <<writer, saved>>
  BY DEF Commit

LEMMA LoadInv ==
  ASSUME Inv, NEW s \in Strategies, Load(s)
  PROVE  Inv'
<1> USE DEF Inv
<1>1. Types'
  BY DEF Types, Statuses, Phases, Load
<1>2. BookInv'
  BY QuietStepKeepsBook DEF Load
<1>3. status[s] = "active" => Whole(ledger, s)
  BY DEF BookInv, Book
<1>4. SeenHolds'
  BY <1>3 DEF Types, SeenHolds, Load
<1> QED  BY <1>1, <1>2, <1>4

\* The steps of a thread that write no rows.
LEMMA ThreadInv ==
  ASSUME Inv, NEW s \in Strategies,
         \/ FailToResolve(s) \/ Persist(s) \/ RefuseStep(s)
         \/ SecondStep(s) \/ CancelRun(s)
  PROVE  Inv'
<1> USE DEF Inv
<1>1. writer' # None => UNCHANGED <<writer, saved>>
  BY CommitFrees DEF FailToResolve, Persist, RefuseStep, FailStep, SecondStep, CancelRun
<1>2. /\ UNCHANGED <<ledger, seen>>
      /\ status' \in [Strategies -> Statuses]
      /\ phase' \in [Strategies -> Phases]
      /\ tries' \in [Strategies -> Nat]
  <2>1. UNCHANGED <<ledger, seen>>
    BY DEF FailToResolve, Persist, RefuseStep, EndFailedTry, SecondStep, CancelRun
  <2>2. status' \in [Strategies -> Statuses]
    BY DEF Types, Statuses, FailToResolve, Persist, RefuseStep, EndFailedTry, SecondStep,
           CancelRun
  <2>3. phase' \in [Strategies -> Phases]
    BY DEF Types, Phases, FailToResolve, Persist, RefuseStep, EndFailedTry, SecondStep,
           CancelRun
  <2>4. tries' \in [Strategies -> Nat]
    <3>1. \/ tries' = tries \/ tries' = [tries EXCEPT ![s] = @ + 1]
          \/ tries' = [tries EXCEPT ![s] = 0]
      BY DEF FailToResolve, Persist, RefuseStep, EndFailedTry, SecondStep, CancelRun
    <3>2. tries \in [Strategies -> Nat] /\ tries[s] + 1 \in Nat
      BY DEF Types
    <3> HIDE DEF Inv
    <3> QED  BY <3>1, <3>2
  <2> QED  BY <2>1, <2>2, <2>3, <2>4
<1>3. Types'
  BY <1>1, <1>2 DEF Types
<1>4. /\ \A t \in Strategies : status'[t] = "active" => status[t] = "active"
      /\ \A t \in Strategies : phase'[t] = "submitting" => phase[t] = "submitting"
  BY DEF Types, FailToResolve, Persist, RefuseStep, EndFailedTry, SecondStep, CancelRun
<1>5. BookInv'
  BY <1>1, <1>2, <1>4, QuietStepKeepsBook
<1>6. SeenHolds'
  BY <1>2, <1>4 DEF SeenHolds
<1> QED  BY <1>3, <1>5, <1>6

LEMMA StopAtLegInv ==
  ASSUME Inv, NEW s \in Strategies, StopAtLeg(s)
  PROVE  Inv'
<1> USE DEF Inv
<1>1. PICK quotes \in Quotes, last \in Reached(s) \ {Len(Legs[s])} :
        FillLegs(s, last, quotes)
  BY DEF StopAtLeg
<1>2. /\ s \notin ByChat /\ phase[s] = "submitting"
      /\ tries' = [tries EXCEPT ![s] = @ + 1]
      /\ phase' = IF LastTry(s) THEN [phase EXCEPT ![s] = "done"] ELSE phase
      /\ UNCHANGED <<status, seen>>
  BY DEF StopAtLeg, EndFailedTry
<1>3. /\ ledger' \in Seq(BookRow) /\ Len(ledger') >= Len(ledger)
      /\ writer \in {None, s}
      /\ \A t \in Strategies : LegsInOrder(ledger', t) /\ MarginedFills(ledger', t)
      /\ \A t \in Strategies \ {s} : Whole(ledger, t) => Whole(ledger', t)
      /\ ~Whole(ledger, s)
  BY <1>1, <1>2, TryKeepsBook
<1>4. \/ writer' = None
      \/ writer' = s /\ saved' = <<ledger, position>>
      \/ UNCHANGED <<writer, saved>>
  BY CommitFrees DEF StopAtLeg, FailStep
<1>5. Book(ledger)'
  BY <1>2, <1>3 DEF BookInv, Book
<1>6. /\ ledger \in Seq(BookRow) /\ Len(ledger) \in Nat /\ Len(ledger') \in Nat
      /\ writer # None => saved[1] \in Seq(BookRow) /\ Len(saved[1]) <= Len(ledger)
                          /\ Len(saved[1]) \in Nat
  BY <1>3 DEF Types
<1>7. ASSUME writer' # None
      PROVE  /\ saved'[1] \in Seq(BookRow) /\ Len(saved'[1]) <= Len(ledger')
             /\ Book(saved[1])'
  <2>1. CASE writer' = s /\ saved' = <<ledger, position>>
    <3>1. saved'[1] = ledger
      BY <2>1
    <3> QED  BY <1>2, <1>3, <1>6, <3>1 DEF BookInv, Book
  <2>2. CASE UNCHANGED <<writer, saved>>
    <3>1. Book(saved[1])
      BY <1>7, <2>2 DEF BookInv
    <3>2. Book(saved[1])'
      BY <1>2, <2>2, <3>1 DEF Book
    <3>3. saved'[1] \in Seq(BookRow) /\ Len(saved'[1]) <= Len(ledger')
      BY <1>3, <1>6, <1>7, <2>2
    <3> QED  BY <3>2, <3>3
  <2> QED  BY <1>4, <1>7, <2>1, <2>2
<1>8. /\ writer' \in (Strategies \ ByChat) \cup {None}
      /\ phase' \in [Strategies -> Phases] /\ tries' \in [Strategies -> Nat]
  BY <1>2, <1>4 DEF Types, Phases
<1>9. Types'
  BY <1>2, <1>3, <1>7, <1>8 DEF Types
<1>10. BookInv'
  BY <1>5, <1>7 DEF BookInv
<1>11. SeenHolds'
  <2>1. \A t \in Strategies : phase'[t] = "submitting" => phase[t] = "submitting"
    BY <1>2 DEF Types
  <2>2. \A t \in Strategies : Whole(ledger, t) => Whole(ledger', t)
    BY <1>3
  <2> QED  BY <1>2, <2>1, <2>2 DEF SeenHolds
<1> QED  BY <1>9, <1>10, <1>11

LEMMA CompleteStepInv ==
  ASSUME Inv, NEW s \in Strategies, CompleteStep(s)
  PROVE  Inv'
<1> USE DEF Inv
<1>1. PICK quotes \in Quotes, last \in Reached(s) :
        Complete(s, last) /\ FillLegs(s, last, quotes)
  BY DEF CompleteStep
<1>2. /\ phase[s] = "submitting"
      /\ status' = [status EXCEPT ![s] = "active"]
      /\ phase' = [phase EXCEPT ![s] =
                     IF s \in TwoSteps /\ seen[s] # "active" THEN "second" ELSE "done"]
      /\ UNCHANGED <<seen, tries>>
  BY DEF CompleteStep
<1>3. /\ ledger' \in Seq(BookRow)
      /\ writer \in {None, s}
      /\ \A t \in Strategies : LegsInOrder(ledger', t) /\ MarginedFills(ledger', t)
      /\ \A t \in Strategies \ {s} : Whole(ledger, t) => Whole(ledger', t)
      /\ Whole(ledger', s)
  BY <1>1, <1>2, TryKeepsBook DEF Complete
<1>4. writer' = None
  BY <1>3 DEF CompleteStep, Commit
<1>5. Types'
  BY <1>2, <1>3, <1>4 DEF Types, Statuses, Phases
<1>6. BookInv'
  <2>1. \A t \in Strategies : status'[t] = "active" => Whole(ledger', t)
    BY <1>2, <1>3 DEF Types, BookInv, Book
  <2> QED  BY <1>3, <1>4, <2>1 DEF BookInv, Book
<1>7. SeenHolds'
  BY <1>2, <1>3 DEF Types, SeenHolds
<1> QED  BY <1>5, <1>6, <1>7

\* What a crash goes back to is the book as last committed.
LEMMA CrashInv ==
  ASSUME Inv, Crash
  PROVE  Inv'
<1> USE DEF Inv
<1>1. /\ phase' = [s \in Strategies |->
                     IF phase[s] = "idle" /\ tries[s] = 0 THEN "idle" ELSE "done"]
      /\ writer' = None
      /\ UNCHANGED <<status, seen, tries>>
  BY DEF Crash
<1>2. ledger' = IF writer = None THEN ledger ELSE saved[1]
  BY DEF Crash
<1>3. Types'
  BY <1>1, <1>2 DEF Types, Phases
<1>4. BookInv'
  BY <1>1, <1>2 DEF BookInv, Book
<1>5. SeenHolds'
  BY <1>1 DEF SeenHolds
<1> QED  BY <1>3, <1>4, <1>5

LEMMA NextInv == Inv /\ [Next]_vars => Inv'
<1> SUFFICES ASSUME Inv, [Next]_vars PROVE Inv'
  OBVIOUS
<1>1. CASE UNCHANGED vars
  BY <1>1 DEF vars, Inv, Types, BookInv, Book, SeenHolds
<1>2. CASE Crash
  BY <1>2, CrashInv
<1>3. ASSUME NEW s \in Strategies,
             \/ Register(s) \/ RefuseChat(s) \/ SubmitChat(s) \/ Withdraw(s)
             \/ FailToResolve(s) \/ Persist(s) \/ CancelRun(s) \/ Thread(s)
      PROVE  Inv'
  BY <1>3, ChatInv, SubmitChatInv, LoadInv, ThreadInv, StopAtLegInv, CompleteStepInv
     DEF Thread
<1> QED  BY <1>1, <1>2, <1>3 DEF Next

LEMMA SpecInv == Spec => []Inv
  BY InitInv, NextInv, PTL DEF Spec

-----------------------------------------------------------------------------
(* What the invariant says of the book *)

\* However often a strategy is submitted, and whatever of it was rolled back by
\* a crash, no leg of it is filled twice: the legs of submit_option_strategy
\* carry on behind those that have their optstrat:{id}:leg{n} order.
THEOREM LegsFillOnce == Spec => []OneFillPerLeg
<1>1. Inv => OneFillPerLeg
  <2> SUFFICES ASSUME Inv,
                      NEW i \in DOMAIN ledger, NEW j \in DOMAIN ledger,
                      ledger[i].kind = "fill", ledger[j].kind = "fill",
                      ledger[i].strategy = ledger[j].strategy,
                      ledger[i].leg = ledger[j].leg
               PROVE  i = j
    BY DEF OneFillPerLeg
  <2>1. ledger[i] \in BookRow
    BY DEF Inv, Types
  <2>2. PICK s \in Strategies : s = ledger[i].strategy
    BY <2>1 DEF BookRow
  <2>3. i \in Fills(ledger, s) /\ j \in Fills(ledger, s)
    BY <2>2 DEF Fills
  <2>4. LegsInOrder(ledger, s)
    BY DEF Inv, BookInv, Book
  <2> QED  BY <2>3, <2>4 DEF LegsInOrder
<1> QED  BY <1>1, SpecInv, PTL

\* No short leg is in the book before the margin of its strategy: the reserve
\* and the legs are written by one try, in that order, and a try that finds the
\* strategy active has no leg left to fill.
THEOREM ShortsAlwaysMargined == Spec => []ShortIsMargined
<1>1. Inv => ShortIsMargined
  <2> SUFFICES ASSUME Inv, NEW i \in DOMAIN ledger, ledger[i].kind = "fill",
                      Legs[ledger[i].strategy][ledger[i].leg].side = "SELL",
                      Margin[ledger[i].strategy] > 0
               PROVE  \E j \in 1 .. i - 1 : ledger[j] = ReserveRow(ledger[i].strategy)
    BY DEF ShortIsMargined
  <2>1. ledger[i] \in BookRow
    BY DEF Inv, Types
  <2>2. PICK s \in Strategies : s = ledger[i].strategy
    BY <2>1 DEF BookRow
  <2>3. i \in Fills(ledger, s)
    BY <2>2 DEF Fills
  <2>4. MarginedFills(ledger, s)
    BY DEF Inv, BookInv, Book
  <2> QED  BY <2>2, <2>3, <2>4 DEF MarginedFills
<1> QED  BY <1>1, SpecInv, PTL

\* A strategy shown as active has all its legs in the book, even after a crash
\* rolled back what another thread had written: its own commit came first.
THEOREM ActiveAlwaysWhole == Spec => []ActiveIsWhole
<1>1. Inv => ActiveIsWhole
  <2> SUFFICES ASSUME Inv, NEW s \in Strategies, status[s] = "active",
                      NEW l \in DOMAIN Legs[s]
               PROVE  \E j \in DOMAIN ledger : /\ ledger[j].kind = "fill"
                                               /\ ledger[j].strategy = s
                                               /\ ledger[j].leg = l
    BY DEF ActiveIsWhole
  <2>1. LegsInOrder(ledger, s) /\ FilledLegs(ledger, s) = Len(Legs[s])
    BY DEF Inv, BookInv, Book, Whole
  <2>2. l \in 1 .. FilledLegs(ledger, s)
    BY <2>1, StrategyParts
  <2>3. PICK j \in Fills(ledger, s) : ledger[j].leg = l
    BY <2>1, <2>2 DEF LegsInOrder
  <2> QED  BY <2>3 DEF Fills
<1> QED  BY <1>1, SpecInv, PTL

\* Once a strategy is active, no later submission of it takes margin again: the
\* thread that would take it read the row as registered, and a row it read so
\* is made active by that thread alone.
THEOREM MarginNeverTwice == Spec => MarginStopsAtActive
<1> DEFINE NoMargin ==
             \A s \in Strategies :
               status[s] = "active" /\ Len(ledger') > Len(ledger)
               => \A i \in Len(ledger) + 1 .. Len(ledger') : ledger'[i] # ReserveRow(s)
<1>1. ASSUME Inv, [Next]_vars
      PROVE  NoMargin
  <2> USE <1>1
  <2> SUFFICES ASSUME NEW s \in Strategies, status[s] = "active",
                      Len(ledger') > Len(ledger),
                      NEW i \in Len(ledger) + 1 .. Len(ledger')
               PROVE  ledger'[i] # ReserveRow(s)
    OBVIOUS
  <2>0. Len(ledger) \in Nat
    BY DEF Inv, Types
  <2>1. ASSUME NEW t \in Strategies, phase[t] = "submitting",
               NEW quotes \in Quotes, NEW last \in Reached(t), FillLegs(t, last, quotes)
        PROVE  ledger'[i] # ReserveRow(s)
    BY <2>1, TryReservesForRegistered DEF Inv
  <2>2. CASE Crash
    BY <2>0, <2>2 DEF Crash, Inv, Types
  <2>3. CASE UNCHANGED ledger
    BY <2>0, <2>3
  <2>4. ASSUME NEW t \in Strategies, SubmitChat(t) \/ StopAtLeg(t) \/ CompleteStep(t)
        PROVE  ledger'[i] # ReserveRow(s)
    BY <2>1, <2>4 DEF SubmitChat, StopAtLeg, CompleteStep
  <2>5. ASSUME NEW t \in Strategies,
               \/ Register(t) \/ RefuseChat(t) \/ Withdraw(t) \/ FailToResolve(t)
               \/ Persist(t) \/ CancelRun(t) \/ Load(t) \/ RefuseStep(t) \/ SecondStep(t)
        PROVE  UNCHANGED ledger
    BY <2>5 DEF Register, RefuseChat, Withdraw, FailToResolve, Persist, CancelRun, Load,
                RefuseStep, SecondStep
  <2>6. CASE UNCHANGED vars
    BY <2>3, <2>6 DEF vars
  <2> QED  BY <2>2, <2>3, <2>4, <2>5, <2>6 DEF Next, Thread
<1>2. ASSUME Inv, [Next]_vars
      PROVE  [NoMargin]_vars
  BY <1>1, <1>2
<1> HIDE DEF NoMargin
<1>3. Spec => [][NoMargin]_vars
  BY <1>2, SpecInv, PTL DEF Spec
<1> QED  BY <1>3 DEF MarginStopsAtActive, NoMargin

-----------------------------------------------------------------------------
(* The basis of a position and the cash of its fills *)

Position == [quantity : Int, avg_cost : Int, realized_pnl : Int]

FlatHasNoBasis(pos) == pos.quantity = 0 => pos.avg_cost = 0

Within(n, bound) == -bound <= n /\ n <= bound

\* The cash of a number of fills, of so many units in all, is accounted for by a
\* position.
Accounted(cash, fills, units, pos) ==
  /\ fills \in Nat /\ units \in Nat
  /\ Abs(pos.quantity) <= units
  /\ Within(cash - BookedCash(pos), fills * (units + 1))
  /\ FlatHasNoBasis(pos)

\* k is the quotient of n and d, but for a half at most.
Rounds(k, n, d) == Within(2 * (k * d) - 2 * n, d)

LEMMA QuotientRounds ==
  ASSUME NEW n \in Int, NEW d \in Nat \ {0}, NEW k, k = (2 * n + d) \div (2 * d)
  PROVE  k \in Int /\ Rounds(k, n, d)
<1> DEFINE x == 2 * n + d
           y == 2 * d
<1>1. x \in Int /\ y \in Nat \ {0} /\ k = x \div y
  OBVIOUS
<1>2. k \in Int /\ y * k <= x /\ x < y * k + y
  <2> HIDE DEF x, y
  <2>1. \A v \in Int, w \in Nat \ {0} :
          v \div w \in Int /\ w * (v \div w) <= v /\ v < w * (v \div w) + w
    OBVIOUS
  <2> QED  BY <1>1, <2>1
<1>3. y * k = 2 * (k * d) /\ k * d \in Int
  BY <1>2
<1> DEFINE z == k * d
<1>4. 2 * z <= 2 * n + d /\ 2 * n + d < 2 * z + 2 * d /\ z \in Int
  BY <1>2, <1>3
<1> HIDE DEF z
<1>5. Within(2 * z - 2 * n, d)
  BY <1>4 DEF Within
<1> QED  BY <1>2, <1>5 DEF Rounds, z

LEMMA RoundsNegated ==
  ASSUME NEW k \in Int, NEW n \in Int, NEW d \in Nat \ {0}, Rounds(k, -n, d)
  PROVE  Rounds(-k, n, d)
<1> DEFINE z == k * d
<1>1. z \in Int /\ (-k) * d = -z /\ Within(2 * z - 2 * (-n), d)
  BY DEF Rounds
<1> HIDE DEF z
<1>2. Within(2 * (-z) - 2 * n, d)
  BY <1>1 DEF Within
<1> QED  BY <1>1, <1>2 DEF Rounds

LEMMA HalfUpRounds ==
  ASSUME NEW n \in Int, NEW d \in Nat \ {0}
  PROVE  Rounds(HalfUp(n, d), n, d)
<1> DEFINE below == (2 * (-n) + d) \div (2 * d)
           above == (2 * n + d) \div (2 * d)
<1>1. below \in Int /\ Rounds(below, -n, d)
  <2>1. -n \in Int
    OBVIOUS
  <2> QED  BY <2>1, QuotientRounds
<1>2. above \in Int /\ Rounds(above, n, d)
  BY QuotientRounds
<1>3. HalfUp(n, d) = IF n < 0 THEN -below ELSE above
  BY DEF HalfUp
<1> HIDE DEF below, above
<1>4. Rounds(-below, n, d)
  BY <1>1, RoundsNegated
<1> QED  BY <1>2, <1>3, <1>4

LEMMA AveragedIsInteger ==
  ASSUME NEW pos \in Position, NEW signed \in Int, signed # 0, NEW unit \in Int,
         SameDirection(pos, signed)
  PROVE  Averaged(pos, signed, unit) \in Int /\ pos.quantity + signed # 0
<1> DEFINE q == pos.quantity
           a == pos.avg_cost
<1>1. q \in Int /\ a \in Int
  BY DEF Position
<1>2. q = 0 \/ (q > 0 <=> signed > 0)
  BY DEF SameDirection
<1> HIDE DEF q, a
<1>3. q + signed # 0 /\ Abs(q + signed) \in Nat \ {0}
  BY <1>1, <1>2 DEF Abs
<1>4. a * Abs(q) \in Int /\ unit * Abs(signed) \in Int
  <2>1. Abs(q) \in Int /\ Abs(signed) \in Int
    BY <1>1 DEF Abs
  <2> QED  BY <1>1, <2>1
<1>5. a * Abs(q) + unit * Abs(signed) \in Int
  BY <1>4
<1> QED  BY <1>3, <1>5, HalfUpIsInteger DEF Averaged, q, a

LEMMA RealisedIsInteger ==
  ASSUME NEW pos \in Position, NEW signed \in Int, NEW unit \in Int
  PROVE  Realised(pos, signed, unit) \in Int
<1>1. Min2(Abs(pos.quantity), Abs(signed)) \in Int
  BY DEF Position, Min2, Abs
<1>2. unit - pos.avg_cost \in Int /\ pos.avg_cost - unit \in Int
  BY DEF Position
<1>3. \A a, b \in Int : a * b \in Int
  OBVIOUS
<1> QED  BY <1>1, <1>2, <1>3 DEF Realised

\* A fill leaves a position, and a flat one without a basis.
LEMMA UpsertIsPosition ==
  ASSUME NEW pos \in Position, NEW signed \in Int, signed # 0, NEW unit \in Int
  PROVE  /\ UpsertPosition(pos, signed, unit) \in Position
         /\ FlatHasNoBasis(UpsertPosition(pos, signed, unit))
<1>1. CASE SameDirection(pos, signed)
  <2> DEFINE rest == pos.quantity + signed
             basis == Averaged(pos, signed, unit)
  <2>1. UpsertPosition(pos, signed, unit) =
          [pos EXCEPT !.quantity = rest, !.avg_cost = basis]
    BY <1>1 DEF UpsertPosition
  <2>2. basis \in Int /\ rest # 0
    BY <1>1, AveragedIsInteger
  <2>3. rest \in Int
    BY DEF Position
  <2> HIDE DEF rest, basis
  <2> QED  BY <2>1, <2>2, <2>3 DEF Position, FlatHasNoBasis
<1>2. CASE ~SameDirection(pos, signed)
  <2> DEFINE rest == pos.quantity + signed
             basis == IF rest = 0 THEN 0
                      ELSE IF rest > 0 <=> pos.quantity > 0 THEN pos.avg_cost ELSE unit
             gained == pos.realized_pnl + Realised(pos, signed, unit)
  <2>1. UpsertPosition(pos, signed, unit) =
          [quantity |-> rest, avg_cost |-> basis, realized_pnl |-> gained]
    BY <1>2 DEF UpsertPosition
  <2>2. rest \in Int /\ basis \in Int /\ (rest = 0 => basis = 0)
    BY DEF Position
  <2>3. gained \in Int
    BY RealisedIsInteger DEF Position
  <2> HIDE DEF rest, basis, gained
  <2> QED  BY <2>1, <2>2, <2>3 DEF Position, FlatHasNoBasis
<1> QED  BY <1>1, <1>2

\* What a fill takes from the cash that a position stands for is what its units
\* cost, to the rounding of an average.
LEMMA UpsertKeepsValue ==
  ASSUME NEW pos \in Position, NEW signed \in Int, signed # 0, NEW unit \in Int
  PROVE  Within(2 * (BookedCash(UpsertPosition(pos, signed, unit))
                       - (BookedCash(pos) - unit * signed)),
                Abs(pos.quantity + signed))
<1> DEFINE q == pos.quantity
           a == pos.avg_cost
           r == pos.realized_pnl
           new == UpsertPosition(pos, signed, unit)
<1>1. q \in Int /\ a \in Int /\ r \in Int
  BY DEF Position
<1>2. CASE SameDirection(pos, signed)
  <2> DEFINE b == Averaged(pos, signed, unit)
             d == Abs(q + signed)
             sum == a * Abs(q) + unit * Abs(signed)
             err == b * d - sum
  <2>1. b \in Int /\ q + signed # 0
    BY <1>2, AveragedIsInteger
  <2>2. BookedCash(new) = r - b * (q + signed)
    BY <1>2 DEF UpsertPosition, BookedCash, Position
  <2>3. q = 0 \/ (q > 0 <=> signed > 0)
    BY <1>2 DEF SameDirection
  <2>4. b = HalfUp(sum, d)
    BY DEF Averaged
  <2>5. BookedCash(pos) = r - a * q
    BY DEF BookedCash
  <2> HIDE DEF b, q, a, r, new
  <2>6. d \in Nat \ {0} /\ Abs(q) \in Int /\ Abs(signed) \in Int
    BY <1>1, <2>1 DEF Abs
  <2> HIDE DEF d
  <2>7. sum \in Int /\ b * d \in Int /\ a * q \in Int /\ unit * signed \in Int
    BY <1>1, <2>1, <2>6
  <2>8. Within(2 * err, d)
    <3>1. Within(2 * (b * d) - 2 * sum, d)
      <4> HIDE DEF sum
      <4>1. Rounds(b, sum, d)
        BY <2>4, <2>6, <2>7, HalfUpRounds
      <4> QED  BY <4>1 DEF Rounds
    <3>2. 2 * err = 2 * (b * d) - 2 * sum
      <4> DEFINE z == b * d
      <4> HIDE DEF sum, z
      <4>1. 2 * (z - sum) = 2 * z - 2 * sum
        BY <2>7 DEF z
      <4> QED  BY <4>1 DEF z
    <3> QED  BY <3>1, <3>2
  <2>9. b * (q + signed) = (a * q + unit * signed) + err \/
        b * (q + signed) = (a * q + unit * signed) - err
    <3>1. CASE q >= 0 /\ signed > 0
      <4>1. d = q + signed /\ sum = a * q + unit * signed
        BY <1>1, <3>1 DEF Abs, d
      <4> HIDE DEF sum
      <4> QED  BY <2>7, <4>1
    <3>2. CASE q <= 0 /\ signed < 0
      <4>1. d = -(q + signed) /\ sum = a * (-q) + unit * (-signed)
        BY <1>1, <3>2 DEF Abs, d
      <4>2. /\ b * (q + signed) = -(b * d)
            /\ a * (-q) = -(a * q) /\ unit * (-signed) = -(unit * signed)
        BY <1>1, <2>1, <4>1
      <4> DEFINE v == a * q
                 w == unit * signed
                 z == b * d
      <4>3. sum = (-v) + (-w) /\ b * (q + signed) = -z
        BY <4>1, <4>2
      <4>4. v \in Int /\ w \in Int /\ z \in Int
        BY <2>7
      <4>5. err = z - sum
        OBVIOUS
      <4> HIDE DEF v, w, z, sum, err
      <4>6. (v + w) - err = -z
        BY <4>3, <4>4, <4>5
      <4> QED  BY <4>3, <4>6 DEF v, w
    <3> QED  BY <1>1, <2>3, <3>1, <3>2
  <2>10. err \in Int
    BY <2>7
  <2> HIDE DEF err, sum
  <2>11. ASSUME NEW v \in Int, NEW w \in Int, NEW z,
                z = (v + w) + err \/ z = (v + w) - err
         PROVE  Within(2 * ((r - z) - ((r - v) - w)), d)
    BY <1>1, <2>6, <2>8, <2>10, <2>11 DEF Within
  <2>12. Within(2 * ((r - b * (q + signed)) - ((r - a * q) - unit * signed)), d)
    BY <2>7, <2>9, <2>11
  <2> QED  BY <2>2, <2>5, <2>12 DEF new, d, q
<1>3. CASE ~SameDirection(pos, signed)
  <2> DEFINE closed == Min2(Abs(q), Abs(signed))
             gain == IF q > 0 THEN unit - a ELSE a - unit
             b == IF q + signed = 0 THEN 0
                  ELSE IF q + signed > 0 <=> q > 0 THEN a ELSE unit
  <2>1. BookedCash(new) = (r + gain * closed) - b * (q + signed)
    BY <1>3 DEF UpsertPosition, BookedCash, Realised
  <2>2. q # 0 /\ ~(q > 0 <=> signed > 0)
    BY <1>3 DEF SameDirection
  <2>3. BookedCash(pos) = r - a * q
    BY DEF BookedCash
  <2> HIDE DEF q, a, r, new
  <2>4. gain * closed - b * (q + signed) = -(a * q) - unit * signed
    <3>1. CASE q > 0 /\ signed < 0 /\ q + signed >= 0
      <4>1. gain = unit - a /\ closed = -signed /\ b * (q + signed) = a * (q + signed)
        BY <1>1, <3>1 DEF Min2, Abs
      <4> HIDE DEF gain, closed, b
      <4> QED  BY <1>1, <3>1, <4>1
    <3>2. CASE q > 0 /\ signed < 0 /\ q + signed < 0
      <4>1. gain = unit - a /\ closed = q /\ b = unit
        BY <1>1, <3>2 DEF Min2, Abs
      <4> HIDE DEF gain, closed, b
      <4> QED  BY <1>1, <3>2, <4>1
    <3>3. CASE q < 0 /\ signed > 0 /\ q + signed <= 0
      <4>1. gain = a - unit /\ closed = signed /\ b * (q + signed) = a * (q + signed)
        BY <1>1, <3>3 DEF Min2, Abs
      <4> HIDE DEF gain, closed, b
      <4> QED  BY <1>1, <3>3, <4>1
    <3>4. CASE q < 0 /\ signed > 0 /\ q + signed > 0
      <4>1. gain = a - unit /\ closed = -q /\ b = unit
        BY <1>1, <3>4 DEF Min2, Abs
      <4> HIDE DEF gain, closed, b
      <4> QED  BY <1>1, <3>4, <4>1
    <3> QED  BY <1>1, <2>2, <3>1, <3>2, <3>3, <3>4
  <2>5. gain \in Int /\ closed \in Int /\ b \in Int
    BY <1>1 DEF Min2, Abs
  <2> HIDE DEF gain, closed, b
  <2>6. \A v, w \in Int : v * w \in Int
    OBVIOUS
  <2>7. /\ gain * closed \in Int /\ b * (q + signed) \in Int
        /\ a * q \in Int /\ unit * signed \in Int
    BY <1>1, <2>5, <2>6
  <2>8. (r + gain * closed) - b * (q + signed) = (r - a * q) - unit * signed
    BY <1>1, <2>4, <2>7
  <2>9. BookedCash(new) - (BookedCash(pos) - unit * signed) = 0
    <3>1. BookedCash(new) = (r - a * q) - unit * signed
      BY <2>1, <2>8
    <3>2. (r - a * q) - unit * signed \in Int
      BY <1>1, <2>7
    <3> QED  BY <2>3, <3>1, <3>2
  <2>10. Abs(q + signed) \in Nat
    BY <1>1 DEF Abs
  <2> QED  BY <2>9, <2>10 DEF Within, new, q
<1> QED  BY <1>2, <1>3

\* An amount rounded as a whole and the same amount with a part of it rounded
\* differ by at most one.
LEMMA RoundedTwice ==
  ASSUME NEW value \in Int, NEW due \in Int, NEW base \in Nat \ {0},
         NEW charges \in Int, Rounds(charges, due, base),
         NEW whole \in Int, Rounds(whole, value * base + due, base)
  PROVE  Within(whole - (value + charges), 1)
<1> DEFINE w == whole * base
           c == charges * base
           v == value * base
           n == whole - (value + charges)
<1>1. w \in Int /\ c \in Int /\ v \in Int /\ n \in Int
  OBVIOUS
<1>2. n * base = w - (v + c)
  OBVIOUS
<1> HIDE DEF w, c, v
<1>3. -base <= w - (v + c) /\ w - (v + c) <= base
  BY <1>1 DEF Rounds, Within, w, c, v
<1>4. \A k \in Int : (k >= 2 => k * base > base) /\ (k <= -2 => k * base < -base)
  <2> TAKE k \in Int
  <2>1. ASSUME k >= 2 PROVE k * base > base
    <3>1. (k - 2) * base >= 0 /\ k * base = (k - 2) * base + 2 * base /\ (k - 2) * base \in Int
      BY <2>1
    <3> QED  BY <3>1
  <2>2. ASSUME k <= -2 PROVE k * base < -base
    <3>1. (-2 - k) * base >= 0 /\ k * base = -((-2 - k) * base) - 2 * base /\ (-2 - k) * base \in Int
      BY <2>2
    <3> QED  BY <3>1
  <2> QED  BY <2>1, <2>2
<1>5. -base <= n * base /\ n * base <= base
  BY <1>2, <1>3
<1> HIDE DEF n
<1>6. -1 <= n /\ n <= 1
  BY <1>1, <1>4, <1>5
<1> QED  BY <1>6 DEF Within, n

LEMMA BasisOfCash ==
  ASSUME NEW cash \in Int, NEW worth \in Int, Within(cash - worth, 1),
         NEW lots \in Nat \ {0}, NEW unit \in Int, Rounds(unit, worth, lots)
  PROVE  Within(2 * (unit * lots - cash), 2 + lots)
<1> DEFINE z == unit * lots
<1>1. z \in Int /\ Within(2 * z - 2 * worth, lots)
  BY DEF Rounds
<1> HIDE DEF z
<1>2. Within(2 * (z - cash), 2 + lots)
  BY <1>1 DEF Within
<1> QED  BY <1>2 DEF z

\* The cash of a leg and the basis of its units differ by what is rounded.
LEMMA LegParts ==
  ASSUME NEW s \in Strategies, NEW i \in 1 .. Len(Legs[s]), NEW quotes \in Quotes
  PROVE  /\ Legs[s][i].symbol \in Symbols
         /\ Signed(s, i) \in Int /\ Signed(s, i) # 0
         /\ Lots[s] \in Nat \ {0} /\ Abs(Signed(s, i)) = Lots[s]
         /\ UnitCost(s, i, quotes) \in Int
         /\ FillRow(s, i, quotes).amount \in Int
         /\ Within(2 * (FillRow(s, i, quotes).amount + UnitCost(s, i, quotes) * Signed(s, i)),
                   2 + Lots[s])
<1> DEFINE value == PremiumValue(s, i, quotes)
           due == Charges(s, i, quotes)
           base == RateBase
           charges == HalfUp(due, base)
           lots == Lots[s]
           unit == UnitCost(s, i, quotes)
           cash == NetCashflow(s, i, quotes)
<1>1. /\ Legs[s][i].symbol \in Symbols /\ Legs[s][i].side \in {"BUY", "SELL"}
      /\ lots \in Nat \ {0} /\ base \in Nat \ {0}
  BY StrategyParts, LotsArePositive, OptionAssumption
<1>2. /\ value \in Int /\ value * base \in Int /\ due \in Int
      /\ charges \in Int /\ unit \in Int /\ cash \in Int
  BY LegFigures
<1>3. Signed(s, i) = IF Legs[s][i].side = "BUY" THEN lots ELSE -lots
  BY DEF Signed
<1>4. Rounds(charges, due, base)
  <2> HIDE DEF due, base
  <2> QED  BY <1>1, <1>2, HalfUpRounds
<1>5. FillRow(s, i, quotes).amount = cash
  BY DEF FillRow
<1>6. CASE Legs[s][i].side = "BUY"
  <2> DEFINE paid == HalfUp(value * base + due, base)
             worth == value + charges
  <2>1. cash = -paid /\ unit = HalfUp(worth, lots) /\ Signed(s, i) = lots
    BY <1>3, <1>6 DEF NetCashflow, UnitCost
  <2> HIDE DEF value, due, charges, lots, base, unit, cash
  <2>2. value * base + due \in Int /\ worth \in Int
    BY <1>2
  <2>3. paid \in Int /\ Rounds(paid, value * base + due, base)
    BY <1>1, <2>2, HalfUpIsInteger, HalfUpRounds
  <2>4. Rounds(unit, worth, lots)
    <3> HIDE DEF worth
    <3> QED  BY <1>1, <2>1, <2>2, HalfUpRounds
  <2> HIDE DEF paid
  <2>5. Within(paid - worth, 1)
    BY <1>1, <1>2, <1>4, <2>3, RoundedTwice
  <2> HIDE DEF worth
  <2>6. Within(2 * (unit * lots - paid), 2 + lots)
    BY <1>1, <1>2, <2>2, <2>3, <2>4, <2>5, BasisOfCash
  <2>7. -paid + unit * lots = unit * lots - paid
    <3>1. unit * lots \in Int
      BY <1>1, <1>2
    <3> QED  BY <2>3, <3>1
  <2>8. Within(2 * (cash + unit * Signed(s, i)), 2 + lots)
    BY <2>1, <2>6, <2>7
  <2>9. Signed(s, i) \in Int /\ Signed(s, i) # 0 /\ Abs(Signed(s, i)) = lots
    BY <1>1, <2>1 DEF Abs
  <2> QED  BY <1>1, <1>2, <1>5, <2>8, <2>9 DEF unit, lots
<1>7. CASE Legs[s][i].side = "SELL"
  <2> DEFINE got == HalfUp(value * base - due, base)
             worth == value - charges
  <2>1. cash = got /\ unit = HalfUp(worth, lots) /\ Signed(s, i) = -lots
    BY <1>3, <1>7 DEF NetCashflow, UnitCost
  <2> HIDE DEF value, due, charges, lots, base, unit, cash
  <2>2. value * base - due \in Int /\ worth \in Int /\ -due \in Int /\ -charges \in Int
    BY <1>2
  <2>3. got \in Int /\ Rounds(got, value * base + (-due), base)
    <3>1. value * base - due = value * base + (-due)
      BY <1>2
    <3>2. got \in Int /\ Rounds(got, value * base - due, base)
      BY <1>1, <2>2, HalfUpIsInteger, HalfUpRounds
    <3> HIDE DEF got
    <3> QED  BY <3>1, <3>2
  <2>4. Rounds(unit, worth, lots)
    <3> HIDE DEF worth
    <3> QED  BY <1>1, <2>1, <2>2, HalfUpRounds
  <2> HIDE DEF got
  <2>5. Rounds(-charges, -due, base)
    <3>1. -(-due) = due
      BY <1>2
    <3> QED  BY <1>1, <1>2, <1>4, <2>2, <3>1, RoundsNegated
  <2>6. Within(got - (value + (-charges)), 1)
    BY <1>1, <1>2, <2>2, <2>3, <2>5, RoundedTwice
  <2>7. value + (-charges) = worth
    BY <1>2
  <2> HIDE DEF worth
  <2>8. Within(2 * (unit * lots - got), 2 + lots)
    BY <1>1, <1>2, <2>2, <2>3, <2>4, <2>6, <2>7, BasisOfCash
  <2>9. got + unit * (-lots) = -(unit * lots - got)
    <3>1. unit * lots \in Int /\ unit * (-lots) = -(unit * lots)
      BY <1>1, <1>2
    <3> QED  BY <2>3, <3>1
  <2>10. Within(2 * (cash + unit * Signed(s, i)), 2 + lots)
    <3> DEFINE z == unit * lots - got
    <3>1. z \in Int
      BY <1>1, <1>2, <2>3
    <3>2. cash + unit * Signed(s, i) = -z /\ Within(2 * z, 2 + lots)
      BY <2>1, <2>8, <2>9
    <3> HIDE DEF z
    <3> QED  BY <1>1, <3>1, <3>2 DEF Within
  <2>11. Signed(s, i) \in Int /\ Signed(s, i) # 0 /\ Abs(Signed(s, i)) = lots
    BY <1>1, <2>1 DEF Abs
  <2> QED  BY <1>1, <1>2, <1>5, <2>10, <2>11 DEF unit, lots
<1> QED  BY <1>1, <1>6, <1>7

\* A fill, its cash and its units stay accounted for.
LEMMA FillAccounted ==
  ASSUME NEW cash \in Int, NEW fills \in Nat, NEW units \in Nat, NEW pos \in Position,
         Accounted(cash, fills, units, pos),
         NEW lots \in Nat \ {0}, NEW signed \in Int, Abs(signed) = lots,
         NEW unit \in Int, NEW amount \in Int,
         Within(2 * (amount + unit * signed), 2 + lots)
  PROVE  Accounted(cash + amount, fills + 1, units + lots, UpsertPosition(pos, signed, unit))
<1> DEFINE new == UpsertPosition(pos, signed, unit)
           old == BookedCash(pos)
           booked == BookedCash(new)
           held == pos.quantity
           w == unit * signed
           bound == fills * (units + 1)
           more == (fills + 1) * ((units + lots) + 1)
<1>1. signed # 0 /\ held \in Int /\ w \in Int
  BY DEF Abs, Position
<1>2. new \in Position /\ FlatHasNoBasis(new)
  BY <1>1, UpsertIsPosition
<1>3. new.quantity = held + signed
  BY DEF UpsertPosition, Position
<1>4. old \in Int /\ booked \in Int
  <2>1. \A p \in Position : BookedCash(p) \in Int
    BY DEF Position, BookedCash
  <2> HIDE DEF new
  <2> QED  BY <1>2, <2>1
<1>5. Within(2 * (booked - (old - w)), Abs(held + signed))
  BY <1>1, UpsertKeepsValue
<1>6. Within(cash - old, bound) /\ Abs(held) <= units
  BY DEF Accounted
<1>7. Within(2 * (amount + w), 2 + lots)
  OBVIOUS
<1> HIDE DEF new, old, booked, held, w
<1>8. Abs(held + signed) <= units + lots
  BY <1>1, <1>6 DEF Abs
<1>9. more >= bound + (units + lots) + 1 /\ more \in Int /\ bound \in Int
  <2>1. more = fills * (units + 1) + fills * lots + (units + lots) + 1
    OBVIOUS
  <2>2. fills * lots \in Nat /\ fills * (units + 1) \in Nat
    OBVIOUS
  <2> HIDE DEF more
  <2> QED  BY <2>1, <2>2
<1> HIDE DEF more, bound
<1>10. Abs(held + signed) \in Int
  BY <1>1 DEF Abs
<1>11. Within((cash + amount) - booked, more)
  <2> DEFINE h == Abs(held + signed)
  <2>1. h \in Int /\ h <= units + lots /\ Within(2 * (booked - (old - w)), h)
    BY <1>5, <1>8, <1>10
  <2> HIDE DEF h
  <2> QED  BY <1>1, <1>4, <1>6, <1>7, <1>9, <2>1 DEF Within
<1>12. Abs(new.quantity) <= units + lots
  BY <1>3, <1>8
<1>13. fills + 1 \in Nat /\ units + lots \in Nat
  OBVIOUS
<1> QED  BY <1>2, <1>11, <1>12, <1>13 DEF Accounted, new, booked, more

Held == [Symbols -> Position]

\* A leg changes the position of its own option only.
LEMMA LegFills ==
  ASSUME NEW s \in Strategies, NEW i \in 1 .. Len(Legs[s]), NEW quotes \in Quotes,
         NEW held \in Held
  PROVE  /\ LegFilled(held, s, i, quotes) \in Held
         /\ LegFilled(held, s, i, quotes)[Legs[s][i].symbol] =
              UpsertPosition(held[Legs[s][i].symbol], Signed(s, i), UnitCost(s, i, quotes))
         /\ \A y \in Symbols \ {Legs[s][i].symbol} :
              LegFilled(held, s, i, quotes)[y] = held[y]
<1> DEFINE sym == Legs[s][i].symbol
           new == UpsertPosition(held[sym], Signed(s, i), UnitCost(s, i, quotes))
<1>1. sym \in Symbols /\ held[sym] \in Position
  BY LegParts DEF Held
<1>2. new \in Position
  BY <1>1, LegParts, UpsertIsPosition
<1>3. LegFilled(held, s, i, quotes) = [held EXCEPT ![sym] = new]
  BY DEF LegFilled
<1> HIDE DEF sym, new
<1>4. /\ [held EXCEPT ![sym] = new] \in Held
      /\ [held EXCEPT ![sym] = new][sym] = new
      /\ \A y \in Symbols \ {sym} : [held EXCEPT ![sym] = new][y] = held[y]
  BY <1>1, <1>2 DEF Held
<1> QED  BY <1>3, <1>4 DEF sym, new

\* The recursion of PositionsAfter, from the positions g before each leg.
HeldStep(g, s, from, i, quotes) ==
  IF i < from THEN position ELSE LegFilled(g[i - 1], s, i, quotes)

FillsUp(g, s, from, to, quotes) ==
  g = [i \in from - 1 .. to |-> HeldStep(g, s, from, i, quotes)]

LEMMA FillsUpExists ==
  ASSUME NEW s, NEW quotes, NEW from \in Nat, NEW to \in Nat, from <= to + 1
  PROVE  \E g : FillsUp(g, s, from, to, quotes)
<1> DEFINE F == {k \in Nat : \E g : FillsUp(g, s, from, from - 1 + k, quotes)}
<1>1. 0 \in F
  <2> DEFINE g == [i \in from - 1 .. from - 1 + 0 |-> position]
  <2>1. \A i \in from - 1 .. from - 1 + 0 : i < from
    OBVIOUS
  <2>2. FillsUp(g, s, from, from - 1 + 0, quotes)
    BY <2>1 DEF FillsUp, HeldStep
  <2> HIDE DEF g
  <2> QED  BY <2>2
<1>2. ASSUME NEW k \in Nat, k \in F
      PROVE  k + 1 \in F
  <2> DEFINE D == from - 1 .. from - 1 + k
             E == from - 1 .. from - 1 + (k + 1)
  <2>1. PICK g : g = [i \in D |-> HeldStep(g, s, from, i, quotes)]
    BY <1>2 DEF FillsUp
  <2> DEFINE h == [i \in E |-> HeldStep(g, s, from, i, quotes)]
  <2>2. /\ D \subseteq E
        /\ \A i \in E : i >= from => i - 1 \in D
        /\ \A i \in E : ~(i < from) <=> i >= from
    OBVIOUS
  <2> HIDE DEF D, E
  <2>3. \A i \in D : g[i] = HeldStep(g, s, from, i, quotes)
    BY <2>1
  <2>4. \A i \in E : h[i] = HeldStep(g, s, from, i, quotes)
    OBVIOUS
  <2>5. \A i \in D : h[i] = g[i]
    BY <2>2, <2>3, <2>4
  <2>6. \A i \in E : HeldStep(g, s, from, i, quotes) = HeldStep(h, s, from, i, quotes)
    BY <2>2, <2>5 DEF HeldStep
  <2>7. h = [i \in E |-> HeldStep(h, s, from, i, quotes)]
    BY <2>6
  <2> HIDE DEF h
  <2>8. \E f : FillsUp(f, s, from, from - 1 + (k + 1), quotes)
    BY <2>7 DEF FillsUp, E
  <2> QED  BY <2>8
<1>3. to - from + 1 \in F
  <2> HIDE DEF F
  <2>1. \A k \in Nat : k \in F
    BY <1>1, <1>2, NaturalsByInduction
  <2> QED  BY <2>1
<1>4. from - 1 + (to - from + 1) = to
  OBVIOUS
<1> QED  BY <1>3, <1>4

LEMMA FillsUpAgree ==
  ASSUME NEW s, NEW quotes, NEW from \in Nat, NEW to \in Nat, from <= to,
         NEW g, FillsUp(g, s, from, to, quotes),
         NEW h, FillsUp(h, s, from, to - 1, quotes)
  PROVE  g[to - 1] = h[to - 1]
<1> DEFINE F == {k \in Nat : from - 1 + k <= to - 1 => g[from - 1 + k] = h[from - 1 + k]}
<1>1. /\ \A i \in from - 1 .. to : g[i] = HeldStep(g, s, from, i, quotes)
      /\ \A i \in from - 1 .. to - 1 : h[i] = HeldStep(h, s, from, i, quotes)
  BY DEF FillsUp
<1>2. 0 \in F
  <2>1. /\ from - 1 \in from - 1 .. to /\ from - 1 \in from - 1 .. to - 1
        /\ from - 1 < from /\ from - 1 + 0 = from - 1
    OBVIOUS
  <2> QED  BY <1>1, <2>1 DEF HeldStep
<1>3. ASSUME NEW k \in Nat, k \in F
      PROVE  k + 1 \in F
  <2> SUFFICES ASSUME from - 1 + (k + 1) <= to - 1
               PROVE  g[from - 1 + (k + 1)] = h[from - 1 + (k + 1)]
    OBVIOUS
  <2> DEFINE i == from - 1 + (k + 1)
  <2>1. /\ i \in from - 1 .. to /\ i \in from - 1 .. to - 1 /\ ~(i < from)
        /\ i - 1 = from - 1 + k /\ from - 1 + k <= to - 1
    OBVIOUS
  <2>2. g[from - 1 + k] = h[from - 1 + k]
    BY <1>3, <2>1
  <2> HIDE DEF i, F
  <2> QED  BY <1>1, <2>1, <2>2 DEF HeldStep, i
<1>4. to - from \in F
  <2> HIDE DEF F
  <2>1. \A k \in Nat : k \in F
    BY <1>2, <1>3, NaturalsByInduction
  <2> QED  BY <2>1
<1>5. from - 1 + (to - from) = to - 1
  OBVIOUS
<1> QED  BY <1>4, <1>5

\* PositionsAfter takes one leg at a time.
LEMMA PositionsBefore ==
  ASSUME NEW s, NEW quotes, NEW from \in Nat \ {0}
  PROVE  PositionsAfter(s, from, from - 1, quotes) = position
<1> DEFINE G == CHOOSE g : FillsUp(g, s, from, from - 1, quotes)
<1>1. FillsUp(G, s, from, from - 1, quotes)
  <2>1. from - 1 \in Nat /\ from <= (from - 1) + 1
    OBVIOUS
  <2>2. \E g : FillsUp(g, s, from, from - 1, quotes)
    BY <2>1, FillsUpExists
  <2> QED  BY <2>2
<1>2. PositionsAfter(s, from, from - 1, quotes) = G[from - 1]
  BY DEF PositionsAfter, FillsUp, HeldStep
<1> HIDE DEF G
<1>3. from - 1 \in from - 1 .. from - 1 /\ from - 1 < from
  OBVIOUS
<1> QED  BY <1>1, <1>2, <1>3 DEF FillsUp, HeldStep

LEMMA PositionsAfterLeg ==
  ASSUME NEW s, NEW quotes, NEW from \in Nat \ {0}, NEW to \in Nat, from <= to
  PROVE  PositionsAfter(s, from, to, quotes) =
           LegFilled(PositionsAfter(s, from, to - 1, quotes), s, to, quotes)
<1> DEFINE G == CHOOSE g : FillsUp(g, s, from, to, quotes)
           H == CHOOSE g : FillsUp(g, s, from, to - 1, quotes)
<1>1. FillsUp(G, s, from, to, quotes) /\ FillsUp(H, s, from, to - 1, quotes)
  <2>1. to - 1 \in Nat /\ from <= (to - 1) + 1 /\ from <= to + 1
    OBVIOUS
  <2>2. /\ \E g : FillsUp(g, s, from, to, quotes)
        /\ \E g : FillsUp(g, s, from, to - 1, quotes)
    BY <2>1, FillsUpExists
  <2> QED  BY <2>2
<1>2. /\ PositionsAfter(s, from, to, quotes) = G[to]
      /\ PositionsAfter(s, from, to - 1, quotes) = H[to - 1]
  BY DEF PositionsAfter, FillsUp, HeldStep
<1> HIDE DEF G, H
<1>3. G[to - 1] = H[to - 1]
  BY <1>1, FillsUpAgree
<1>4. to \in from - 1 .. to /\ ~(to < from)
  OBVIOUS
<1>5. G[to] = LegFilled(G[to - 1], s, to, quotes)
  BY <1>1, <1>4 DEF FillsUp, HeldStep
<1> QED  BY <1>2, <1>3, <1>5

\* The three figures that are summed over the fills of an option.
Figures == {"cash", "fills", "units"}

FigureOf(row, y, of) ==
  IF ~IsFillOf(row, y) THEN 0
  ELSE IF of = "cash" THEN row.amount ELSE IF of = "units" THEN Lots[row.strategy] ELSE 1

FiguresOf(rows, y, of) == [i \in DOMAIN rows |-> FigureOf(rows[i], y, of)]

\* What the first k rows come to.
UpTo(rows, k, y, of) == SumFunctionOnSet(FiguresOf(rows, y, of), 1 .. k)

LEMMA FigureIsInteger ==
  ASSUME NEW rows \in Seq(BookRow), NEW y, NEW of, NEW i \in 1 .. Len(rows)
  PROVE  FiguresOf(rows, y, of)[i] = FigureOf(rows[i], y, of) /\ FigureOf(rows[i], y, of) \in Int
<1>1. rows[i] \in BookRow /\ i \in DOMAIN rows
  OBVIOUS
<1>2. rows[i].amount \in Int /\ rows[i].strategy \in Strategies
  BY <1>1 DEF BookRow
<1>3. Lots[rows[i].strategy] \in Int
  BY <1>2, LotsArePositive
<1> QED  BY <1>1, <1>2, <1>3 DEF FiguresOf, FigureOf

LEMMA SumsOfAll ==
  ASSUME NEW rows \in Seq(BookRow), NEW y
  PROVE  /\ CashMoved(rows, y) = UpTo(rows, Len(rows), y, "cash")
         /\ FillsCounted(rows, y) = UpTo(rows, Len(rows), y, "fills")
         /\ UnitsTraded(rows, y) = UpTo(rows, Len(rows), y, "units")
<1>1. DOMAIN rows = 1 .. Len(rows) /\ IsFiniteSet(1 .. Len(rows))
  BY FS_Interval
<1> DEFINE cash == [i \in DOMAIN rows |-> rows[i].amount]
           ones == [i \in DOMAIN rows |-> 1]
           units == [i \in DOMAIN rows |-> Lots[rows[i].strategy]]
           Of(figure) == [i \in DOMAIN rows |-> IF IsFillOf(rows[i], y) THEN figure[i] ELSE 0]
<1>2. \A i \in 1 .. Len(rows) :
        /\ Of(cash)[i] = FiguresOf(rows, y, "cash")[i]
        /\ Of(ones)[i] = FiguresOf(rows, y, "fills")[i]
        /\ Of(units)[i] = FiguresOf(rows, y, "units")[i]
  BY <1>1 DEF FiguresOf, FigureOf
<1>3. /\ CashMoved(rows, y) = SumFunctionOnSet(Of(cash), 1 .. Len(rows))
      /\ FillsCounted(rows, y) = SumFunctionOnSet(Of(ones), 1 .. Len(rows))
      /\ UnitsTraded(rows, y) = SumFunctionOnSet(Of(units), 1 .. Len(rows))
  BY <1>1 DEF CashMoved, FillsCounted, UnitsTraded, SumOverFills
<1> HIDE DEF Of, cash, ones, units
<1>4. SumFunctionOnSet(Of(cash), 1 .. Len(rows)) = UpTo(rows, Len(rows), y, "cash")
  BY <1>1, <1>2, SumAgrees DEF UpTo
<1>5. SumFunctionOnSet(Of(ones), 1 .. Len(rows)) = UpTo(rows, Len(rows), y, "fills")
  BY <1>1, <1>2, SumAgrees DEF UpTo
<1>6. SumFunctionOnSet(Of(units), 1 .. Len(rows)) = UpTo(rows, Len(rows), y, "units")
  BY <1>1, <1>2, SumAgrees DEF UpTo
<1> QED  BY <1>3, <1>4, <1>5, <1>6

LEMMA SumsOfPrefix ==
  ASSUME NEW rows \in Seq(BookRow), NEW add \in Seq(BookRow), NEW y, NEW of
  PROVE  UpTo(rows \o add, Len(rows), y, of) = UpTo(rows, Len(rows), y, of)
<1> DEFINE new == rows \o add
<1>1. /\ new \in Seq(BookRow) /\ Len(rows) \in Nat /\ Len(rows) <= Len(new)
      /\ \A i \in 1 .. Len(rows) : new[i] = rows[i] /\ i \in 1 .. Len(new)
  BY Appended
<1> HIDE DEF new
<1>2. \A i \in 1 .. Len(rows) : FiguresOf(new, y, of)[i] = FiguresOf(rows, y, of)[i]
  BY <1>1, FigureIsInteger
<1>3. IsFiniteSet(1 .. Len(rows))
  <2>1. 1 \in Int /\ Len(rows) \in Int
    BY <1>1
  <2> QED  BY <2>1, FS_Interval
<1>4. UpTo(new, Len(rows), y, of) = UpTo(rows, Len(rows), y, of)
  BY <1>2, <1>3, SumAgrees DEF UpTo
<1> QED  BY <1>4 DEF new

LEMMA SumsOfNextRow ==
  ASSUME NEW rows \in Seq(BookRow), NEW y, NEW of, NEW k \in Nat, k + 1 <= Len(rows)
  PROVE  /\ UpTo(rows, k + 1, y, of) = UpTo(rows, k, y, of) + FigureOf(rows[k + 1], y, of)
         /\ UpTo(rows, k, y, of) \in Int /\ FigureOf(rows[k + 1], y, of) \in Int
<1>1. /\ 1 .. k + 1 = (1 .. k) \cup {k + 1} /\ k + 1 \notin 1 .. k
      /\ \A i \in (1 .. k) \cup {k + 1} : i \in 1 .. Len(rows)
  OBVIOUS
<1>2. \A i \in (1 .. k) \cup {k + 1} :
        FiguresOf(rows, y, of)[i] = FigureOf(rows[i], y, of) /\ FiguresOf(rows, y, of)[i] \in Int
  BY <1>1, FigureIsInteger
<1>3. IsFiniteSet(1 .. k)
  BY FS_Interval
<1>4. SumFunctionOnSet(FiguresOf(rows, y, of), (1 .. k) \cup {k + 1})
        = SumFunctionOnSet(FiguresOf(rows, y, of), 1 .. k) + FiguresOf(rows, y, of)[k + 1]
  BY <1>1, <1>2, <1>3, SumWith
<1>5. SumFunctionOnSet(FiguresOf(rows, y, of), 1 .. k) \in Int
  BY <1>2, <1>3, SumType
<1> QED  BY <1>1, <1>2, <1>4, <1>5 DEF UpTo

\* The first k rows and positions that account for them.
MatchesUpTo(rows, k, held) ==
  /\ held \in Held
  /\ \A y \in Symbols : Accounted(UpTo(rows, k, y, "cash"), UpTo(rows, k, y, "fills"),
                                  UpTo(rows, k, y, "units"), held[y])

\* A book and its positions.
Matches(rows, held) == MatchesUpTo(rows, Len(rows), held)

LEMMA AmountsOfATry ==
  ASSUME NEW s \in Strategies, NEW quotes \in Quotes,
         FilledLegs(ledger, s) \in Nat,
         NEW last \in FilledLegs(ledger, s) .. Len(Legs[s]),
         NEW k \in 1 .. last - FilledLegs(ledger, s)
  PROVE  TryRows(s, last, quotes)[(IF NeedsMargin(s) THEN 1 ELSE 0) + k]
           = FillRow(s, FilledLegs(ledger, s) + k, quotes)
<1> DEFINE n == FilledLegs(ledger, s)
           fills == FillRows(s, n + 1, last, quotes)
<1>0. n \in Nat /\ last \in Nat /\ last - n \in Nat /\ k \in Nat
  BY StrategyParts
<1>1. TryOf(s, n, last, 0, fills)
  BY FillsOfATry
<1>2. Count(n + 1, last) = [l \in 1 .. last - n |-> n + l]
  BY <1>0 DEF Count
<1>3. fills[k] = FillRow(s, n + k, quotes)
  BY <1>2 DEF FillRows
<1>4. TryRows(s, last, quotes) = MarginRows(s) \o fills
  BY DEF TryRows
<1>5. fills \in Seq(BookRow) /\ Len(fills) = last - n
  BY <1>0, <1>1 DEF TryOf
<1> HIDE DEF n, fills
<1>6. CASE ~NeedsMargin(s)
  <2>1. TryRows(s, last, quotes) = fills
    BY <1>4, <1>5, <1>6 DEF MarginRows
  <2> QED  BY <1>0, <1>3, <1>6, <2>1 DEF n
<1>7. CASE NeedsMargin(s)
  <2>1. TryRows(s, last, quotes) = <<ReserveRow(s)>> \o fills
    BY <1>4, <1>7 DEF MarginRows
  <2>2. <<ReserveRow(s)>> \in Seq(BookRow) /\ Len(<<ReserveRow(s)>>) = 1
    BY ReserveIsRow
  <2>3. k \in 1 .. Len(fills)
    BY <1>0, <1>5 DEF n
  <2>4. (<<ReserveRow(s)>> \o fills)[1 + k] = fills[k]
    BY <1>5, <2>2, <2>3, Appended
  <2> QED  BY <1>3, <1>7, <2>1, <2>4 DEF n
<1> QED  BY <1>6, <1>7

LEMMA NextPlace ==
  ASSUME NEW base \in Nat, NEW n \in Nat, NEW last \in Nat, NEW k \in Nat, k + 1 <= last - n
  PROVE  /\ base + k \in Nat /\ (base + k) + 1 = base + (k + 1)
         /\ (base + k) + 1 <= base + (last - n)
         /\ base + (k + 1) \in 1 .. base + (last - n)
         /\ base + last - n = base + (last - n)
  OBVIOUS

\* Leg by leg, a try moves the cash that its positions account for.
LEMMA TryMatches ==
  ASSUME Inv, Matches(ledger, position),
         NEW s \in Strategies, phase[s] = "submitting",
         NEW quotes \in Quotes, NEW last \in Reached(s)
  PROVE  Matches(ledger \o TryRows(s, last, quotes),
                 PositionsAfter(s, FilledLegs(ledger, s) + 1, last, quotes))
<1> DEFINE n == FilledLegs(ledger, s)
           reserves == IF NeedsMargin(s) THEN 1 ELSE 0
           add == TryRows(s, last, quotes)
           new == ledger \o add
           base == Len(ledger) + reserves
           At(k) == PositionsAfter(s, n + 1, n + k, quotes)
           Good(k) == MatchesUpTo(new, base + k, At(k))
           F == {k \in Nat : k <= last - n => Good(k)}
<1>1. /\ ledger \in Seq(BookRow) /\ n \in Nat /\ last \in n .. Len(Legs[s])
      /\ Len(Legs[s]) \in Nat /\ last \in Nat /\ last - n \in Nat /\ Len(ledger) \in Nat
  BY FillsAreFinite, StrategyParts DEF Inv, Types, Reached
<1>2. TryOf(s, n, last, reserves, add)
  BY <1>1, RowsOfATry
<1>3. \A k \in 1 .. last - n : add[reserves + k] = FillRow(s, n + k, quotes)
  BY <1>1, AmountsOfATry
<1>4. reserves \in {0, 1} /\ base \in Nat
  BY <1>1
<1>5. add \in Seq(BookRow) /\ Len(add) = reserves + last - n
  BY <1>2 DEF TryOf
<1>6. /\ new \in Seq(BookRow) /\ Len(new) = base + (last - n)
      /\ \A k \in 1 .. Len(add) : new[Len(ledger) + k] = add[k]
  <2>1. /\ new \in Seq(BookRow) /\ Len(new) = Len(ledger) + Len(add)
        /\ \A k \in 1 .. Len(add) : new[Len(ledger) + k] = add[k]
    <3> HIDE DEF add
    <3> QED  BY <1>1, <1>5, Appended
  <2>2. Len(ledger) + (reserves + last - n) = (Len(ledger) + reserves) + (last - n)
    <3>1. Len(ledger) \in Int /\ reserves \in Int /\ last \in Int /\ n \in Int
      BY <1>1, <1>4
    <3> HIDE DEF new, add, n, reserves, F, At, Good
    <3> QED  BY <3>1
  <2> HIDE DEF new, add, n, reserves, F, At, Good
  <2> QED  BY <1>5, <2>1, <2>2
<1>7. 0 \in F
  <2>1. At(0) = position
    <3>1. n + 1 \in Nat \ {0} /\ n + 0 = (n + 1) - 1
      BY <1>1
    <3> HIDE DEF n
    <3> QED  BY <3>1, PositionsBefore
  <2>2. ASSUME NEW y \in Symbols, NEW of \in Figures
        PROVE  UpTo(new, base + 0, y, of) = UpTo(ledger, Len(ledger), y, of)
    <3>1. UpTo(new, Len(ledger), y, of) = UpTo(ledger, Len(ledger), y, of)
      BY <1>1, <1>5, SumsOfPrefix
    <3>2. CASE reserves = 0
      <4>1. base + 0 = Len(ledger)
        BY <1>1, <3>2
      <4> QED  BY <3>1, <4>1
    <3>3. CASE reserves = 1
      <4>1. add[1] = ReserveRow(s) /\ Len(add) >= 1
        <5>1. 1 \in 1 .. reserves
          BY <3>3
        <5>2. add[1] = ReserveRow(s)
          BY <1>2, <5>1 DEF TryOf
        <5> HIDE DEF add, n, reserves
        <5> QED  BY <1>1, <1>5, <3>3, <5>2
      <4> HIDE DEF new, add, n, reserves
      <4>2. new[Len(ledger) + 1] = ReserveRow(s) /\ Len(ledger) + 1 <= Len(new)
        BY <1>1, <1>5, <1>6, <3>3, <4>1
      <4>3. FigureOf(new[Len(ledger) + 1], y, of) = 0
        BY <4>2 DEF FigureOf, IsFillOf, ReserveRow
      <4>4. /\ UpTo(new, Len(ledger) + 1, y, of) = UpTo(new, Len(ledger), y, of) + 0
            /\ UpTo(new, Len(ledger), y, of) \in Int
        BY <1>1, <1>6, <4>2, <4>3, SumsOfNextRow
      <4>5. base + 0 = Len(ledger) + 1
        BY <1>1, <3>3
      <4> QED  BY <3>1, <4>4, <4>5
    <3> QED  BY <1>4, <3>2, <3>3
  <2> HIDE DEF At, base, new
  <2> QED  BY <2>1, <2>2 DEF Matches, MatchesUpTo, Figures
<1>8. ASSUME NEW k \in Nat, k \in F
      PROVE  k + 1 \in F
  <2> SUFFICES ASSUME k + 1 <= last - n PROVE Good(k + 1)
    <3> HIDE DEF Good
    <3> QED  OBVIOUS
  <2>1. Good(k)
    BY <1>1, <1>8
  <2> DEFINE i == n + (k + 1)
             sym == Legs[s][i].symbol
             unit == UnitCost(s, i, quotes)
             signed == Signed(s, i)
  <2>2. /\ i \in Nat /\ i \in 1 .. Len(Legs[s]) /\ i \in n + 1 .. Len(Legs[s])
        /\ n + 1 <= i /\ n + 1 \in Nat \ {0} /\ i - 1 = n + k
        /\ k + 1 \in 1 .. last - n
    <3> DEFINE legs == Len(Legs[s])
    <3>1. n \in Nat /\ last \in Nat /\ n <= last /\ last <= legs /\ legs \in Nat
      BY <1>1
    <3> HIDE DEF n, Good, legs
    <3>2. k + 1 \in 1 .. last - n /\ k + 1 <= last - n
      BY <3>1
    <3>3. n + (k + 1) \in Nat /\ n + (k + 1) <= legs /\ (n + (k + 1)) - 1 = n + k
      BY <3>1, <3>2
    <3> QED  BY <3>1, <3>2, <3>3 DEF legs
  <2>3. At(k + 1) = LegFilled(At(k), s, i, quotes)
    BY <2>2, PositionsAfterLeg
  <2>4. /\ sym \in Symbols /\ signed \in Int /\ signed # 0 /\ unit \in Int
        /\ Lots[s] \in Nat \ {0} /\ Abs(signed) = Lots[s]
        /\ FillRow(s, i, quotes).amount \in Int
        /\ Within(2 * (FillRow(s, i, quotes).amount + unit * signed), 2 + Lots[s])
    BY <2>2, LegParts
  <2>6. new[base + (k + 1)] = FillRow(s, i, quotes)
    <3>1. add[reserves + (k + 1)] = FillRow(s, i, quotes)
      BY <1>3, <2>2
    <3> HIDE DEF new, add, n, reserves, i
    <3>2. reserves + (k + 1) \in 1 .. Len(add)
      <4>1. reserves \in Nat /\ n \in Nat /\ last \in Nat /\ Len(add) = reserves + last - n
        BY <1>1, <1>4, <1>5
      <4>2. k + 1 <= last - n
        OBVIOUS
      <4> HIDE DEF F, Good
      <4> QED  BY <4>1, <4>2, NextPlace
    <3>3. Len(ledger) + (reserves + (k + 1)) = base + (k + 1)
      BY <1>1, <1>4
    <3> QED  BY <1>6, <3>1, <3>2, <3>3
  <2> HIDE DEF new, base, n, i, At
  <2>7. ASSUME NEW y \in Symbols, NEW of \in Figures
        PROVE  /\ UpTo(new, base + (k + 1), y, of)
                    = UpTo(new, base + k, y, of) + FigureOf(FillRow(s, i, quotes), y, of)
               /\ UpTo(new, base + k, y, of) \in Int
    <3>1. base + k \in Nat /\ (base + k) + 1 = base + (k + 1) /\ (base + k) + 1 <= Len(new)
      <4>1. base \in Nat /\ n \in Nat /\ last \in Nat /\ Len(new) = base + (last - n)
        BY <1>1, <1>4, <1>6
      <4>2. k + 1 <= last - n
        OBVIOUS
      <4> HIDE DEF F, Good
      <4> QED  BY <4>1, <4>2, NextPlace
    <3> QED  BY <1>6, <2>6, <3>1, SumsOfNextRow
  <2> DEFINE amount == FillRow(s, i, quotes).amount
  <2>8. /\ \A y \in Symbols \ {sym}, of \in Figures : FigureOf(FillRow(s, i, quotes), y, of) = 0
        /\ FigureOf(FillRow(s, i, quotes), sym, "cash") = amount
        /\ FigureOf(FillRow(s, i, quotes), sym, "fills") = 1
        /\ FigureOf(FillRow(s, i, quotes), sym, "units") = Lots[s]
    BY DEF FigureOf, IsFillOf, FillRow
  <2>9. At(k) \in Held /\ At(k)[sym] \in Position
    BY <2>1, <2>4 DEF Held, MatchesUpTo
  <2>10. /\ At(k + 1) \in Held
         /\ At(k + 1)[sym] = UpsertPosition(At(k)[sym], signed, unit)
         /\ \A y \in Symbols \ {sym} : At(k + 1)[y] = At(k)[y]
    BY <2>2, <2>3, <2>9, LegFills
  <2> HIDE DEF sym, unit, signed, amount
  <2>11. ASSUME NEW y \in Symbols
         PROVE  Accounted(UpTo(new, base + k, y, "cash"), UpTo(new, base + k, y, "fills"),
                          UpTo(new, base + k, y, "units"), At(k)[y])
    BY <2>1 DEF MatchesUpTo
  <2>12. ASSUME NEW y \in Symbols
         PROVE  Accounted(UpTo(new, base + (k + 1), y, "cash"),
                          UpTo(new, base + (k + 1), y, "fills"),
                          UpTo(new, base + (k + 1), y, "units"), At(k + 1)[y])
    <3> DEFINE cash == UpTo(new, base + k, y, "cash")
               fills == UpTo(new, base + k, y, "fills")
               units == UpTo(new, base + k, y, "units")
    <3>1. Accounted(cash, fills, units, At(k)[y]) /\ fills \in Nat /\ units \in Nat
      BY <2>11 DEF Accounted
    <3>2. CASE y = sym
      <4>1. /\ UpTo(new, base + (k + 1), y, "cash") = cash + amount /\ cash \in Int
            /\ UpTo(new, base + (k + 1), y, "fills") = fills + 1
            /\ UpTo(new, base + (k + 1), y, "units") = units + Lots[s]
        BY <2>7, <2>8, <3>2 DEF Figures
      <4>2. amount \in Int /\ Within(2 * (amount + unit * signed), 2 + Lots[s])
        BY <2>4 DEF amount
      <4> HIDE DEF cash, fills, units
      <4>3. Accounted(cash + amount, fills + 1, units + Lots[s],
                      UpsertPosition(At(k)[sym], signed, unit))
        BY <2>4, <2>9, <3>1, <3>2, <4>1, <4>2, FillAccounted
      <4> QED  BY <2>10, <3>2, <4>1, <4>3
    <3>3. CASE y # sym
      <4>1. \A of \in Figures : UpTo(new, base + (k + 1), y, of) = UpTo(new, base + k, y, of)
        BY <2>7, <2>8, <3>3
      <4> QED  BY <2>10, <3>1, <3>3, <4>1 DEF Figures
    <3> QED  BY <3>2, <3>3
  <2> QED  BY <2>10, <2>12 DEF MatchesUpTo
<1>9. Good(last - n)
  <2>1. last - n \in F
    <3> HIDE DEF F
    <3>1. \A k \in Nat : k \in F
      BY <1>7, <1>8, NaturalsByInduction
    <3> QED  BY <1>1, <3>1
  <2> QED  BY <1>1, <2>1
<1>10. n + (last - n) = last
  BY <1>1
<1> QED  BY <1>6, <1>9, <1>10 DEF Matches

\* The committed book, too, accounts for its positions.
MatchInv ==
  /\ Matches(ledger, position)
  /\ writer # None => Matches(saved[1], saved[2])

LEMMA InitMatches == Init => MatchInv
<1> SUFFICES ASSUME Init PROVE MatchInv
  OBVIOUS
<1>1. 1 .. Len(<<>>) = {}
  OBVIOUS
<1>2. \A y \in Symbols, of \in Figures : UpTo(<<>>, Len(<<>>), y, of) = 0
  BY <1>1, SumEmpty DEF UpTo
<1>3. position \in Held /\ \A y \in Symbols : position[y] = Flat
  BY DEF Init, Held, Position, Flat
<1>4. Accounted(0, 0, 0, Flat)
  BY DEF Accounted, BookedCash, Flat, FlatHasNoBasis, Within, Abs
<1> QED  BY <1>2, <1>3, <1>4 DEF Init, MatchInv, Matches, MatchesUpTo, Figures

LEMMA FillLegsMatches ==
  ASSUME Inv, Matches(ledger, position),
         NEW s \in Strategies, phase[s] = "submitting",
         NEW quotes \in Quotes, NEW last \in Reached(s), FillLegs(s, last, quotes)
  PROVE  Matches(ledger', position')
  BY TryMatches DEF FillLegs

LEMMA NextMatches ==
  ASSUME Inv, MatchInv, [Next]_vars
  PROVE  MatchInv'
<1>1. CASE UNCHANGED vars
  BY <1>1 DEF vars, MatchInv
<1>2. CASE Crash
  BY <1>2 DEF Crash, MatchInv
<1>3. ASSUME NEW s \in Strategies,
             \/ Register(s) \/ RefuseChat(s) \/ Withdraw(s) \/ FailToResolve(s)
             \/ Persist(s) \/ CancelRun(s) \/ Load(s) \/ RefuseStep(s) \/ SecondStep(s)
      PROVE  MatchInv'
  <2>1. UNCHANGED <<ledger, position>>
    BY <1>3 DEF Register, RefuseChat, Withdraw, FailToResolve, Persist, CancelRun, Load,
                RefuseStep, SecondStep
  <2>2. writer' # None => UNCHANGED <<writer, saved>>
    BY <1>3, CommitFrees DEF Inv, Register, RefuseChat, Withdraw, FailToResolve, Persist,
                CancelRun, Load, RefuseStep, FailStep, SecondStep
  <2> QED  BY <2>1, <2>2 DEF MatchInv
<1>4. ASSUME NEW s \in Strategies, SubmitChat(s)
      PROVE  MatchInv'
  <2>1. Matches(ledger', position') /\ UNCHANGED <<writer, saved>>
    BY <1>4, FillLegsMatches DEF SubmitChat, MatchInv
  <2> QED  BY <2>1 DEF MatchInv
<1>5. ASSUME NEW s \in Strategies, CompleteStep(s)
      PROVE  MatchInv'
  <2>1. Matches(ledger', position')
    BY <1>5, FillLegsMatches DEF CompleteStep, MatchInv
  <2>2. writer' # None => UNCHANGED <<writer, saved>>
    BY <1>5, CommitFrees DEF Inv, CompleteStep
  <2> QED  BY <2>1, <2>2 DEF MatchInv
<1>6. ASSUME NEW s \in Strategies, StopAtLeg(s)
      PROVE  MatchInv'
  <2>1. Matches(ledger', position')
    BY <1>6, FillLegsMatches DEF StopAtLeg, MatchInv
  <2>2. \/ writer' = None
        \/ writer' = s /\ saved' = <<ledger, position>>
        \/ UNCHANGED <<writer, saved>>
    BY <1>6, CommitFrees DEF Inv, StopAtLeg, FailStep
  <2>3. <<ledger, position>>[1] = ledger /\ <<ledger, position>>[2] = position
    OBVIOUS
  <2> QED  BY <2>1, <2>2, <2>3 DEF MatchInv
<1> QED  BY <1>1, <1>2, <1>3, <1>4, <1>5, <1>6 DEF Next, Thread

\* The cash that an option's fills moved is the realised profit less the basis of
\* what is open, to what to_money rounds, through every retry, partial fill, flip
\* and crash: _upsert_option_position loses and invents nothing else.
THEOREM BasisAlwaysMatchesCash == Spec => []BasisMatchesCash
<1>1. ASSUME Inv, MatchInv
      PROVE  BasisMatchesCash
  <2>1. ASSUME NEW y \in Symbols
        PROVE  /\ Abs(CashMoved(ledger, y) - BookedCash(position[y]))
                    <= FillsCounted(ledger, y) * (UnitsTraded(ledger, y) + 1)
               /\ position[y].quantity = 0 => position[y].avg_cost = 0
    <3> DEFINE cash == CashMoved(ledger, y)
               booked == BookedCash(position[y])
               bound == FillsCounted(ledger, y) * (UnitsTraded(ledger, y) + 1)
    <3>1. ledger \in Seq(BookRow)
      BY <1>1 DEF Inv, Types
    <3>2. position[y] \in Position /\ Accounted(cash, FillsCounted(ledger, y),
                                              UnitsTraded(ledger, y), position[y])
      BY <1>1, <3>1, SumsOfAll DEF MatchInv, Matches, MatchesUpTo, Held
    <3>3. Within(cash - booked, bound) /\ FlatHasNoBasis(position[y])
      BY <3>2 DEF Accounted
    <3>4. cash - booked \in Int /\ bound \in Int
      <4>1. cash \in Int
        <5>1. \A i \in 1 .. Len(ledger) : FiguresOf(ledger, y, "cash")[i] \in Int
          BY <3>1, FigureIsInteger
        <5>2. IsFiniteSet(1 .. Len(ledger))
          BY <3>1, FS_Interval
        <5> QED  BY <3>1, <5>1, <5>2, SumsOfAll, SumType DEF UpTo
      <4>2. booked \in Int
        <5>1. \A p \in Position : BookedCash(p) \in Int
          BY DEF Position, BookedCash
        <5> QED  BY <3>2, <5>1
      <4>3. bound \in Int
        BY <3>2 DEF Accounted
      <4> HIDE DEF cash, booked
      <4> QED  BY <4>1, <4>2, <4>3
    <3> HIDE DEF cash, booked, bound
    <3>5. Abs(cash - booked) <= bound
      BY <3>3, <3>4 DEF Within, Abs
    <3> QED  BY <3>3, <3>5 DEF cash, booked, bound, FlatHasNoBasis
  <2> QED  BY <2>1 DEF BasisMatchesCash
<1>2. Inv /\ MatchInv => BasisMatchesCash
  BY <1>1
<1>3. Inv /\ MatchInv /\ [Next]_vars => MatchInv'
  BY NextMatches
<1> QED  BY <1>2, <1>3, InitMatches, SpecInv, PTL DEF Spec

=============================================================================
