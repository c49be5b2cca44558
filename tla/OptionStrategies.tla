------------------------- MODULE OptionStrategies -------------------------
(***************************************************************************)
(* Multi-leg option strategies in the paper book.                          *)
(*                                                                         *)
(* A strategy is registered by a chat confirmation or by a step of a       *)
(* workflow run, and its legs are then filled one after the other against  *)
(* the live chain: src/pivot/backend/paper/options_routing.py, driven by   *)
(* routers/option_strategies.py and by the action.place_option_strategy    *)
(* executor of workflows/steps/actions.py.                                 *)
(*                                                                         *)
(* A chat request runs on the event loop, from its first statement to its  *)
(* last, without giving it up; a workflow step runs on a thread of its own *)
(* and may be tried twice by the engine.  What a failed first try wrote    *)
(* stays in the open transaction of that thread, and the lock on the       *)
(* account row keeps every other writer of the book out until it commits.  *)
(*                                                                         *)
(* Cash is abstracted: a debit that the free cash may or may not cover is  *)
(* a choice.  PaperSessions is the model of the cash columns.              *)
(***************************************************************************)
EXTENDS Integers, FiniteSets, Sequences, Functions

CONSTANTS
    Strategies,    \* the rows of option_strategies that may come to exist
    ByChat,        \* those a chat registers; a workflow run registers the others
    TwoSteps,      \* runs with a second strategy step after the first
    Template,      \* per strategy: what the duplicate guard compares
    Legs,          \* per strategy: the sequence of its [side, symbol] legs
    Lots,          \* per strategy: the units traded on every leg
    Margin,        \* per strategy: margin_estimate
    Premiums,      \* the mid prices a tradable quote may show
    HalfSpread,    \* what a fill pays of the spread on top of the mid
    Tick,          \* the least price of a sale
    Brokerage,     \* the charge of an order whatever its size, with its tax
    Rate,          \* per side: the charges that grow with the premium paid
    RateBase,      \* ... in this fraction of it
    MaxTries       \* max_retries + 1 of the step

Symbols == UNION {{Legs[s][i].symbol : i \in DOMAIN Legs[s]} : s \in Strategies}

None == "none"
NoQuote == 0    \* a missing, illiquid or stale quote, or no market or no chain at all

ASSUME OptionAssumption ==
    /\ ByChat \subseteq Strategies
    /\ TwoSteps \subseteq Strategies \ ByChat
    /\ \A s \in Strategies :
          /\ Legs[s] \in Seq([side : {"BUY", "SELL"}, symbol : Symbols]) \ {<<>>}
          /\ Lots[s] \in Nat \ {0}
          /\ Margin[s] \in Nat
    /\ Premiums \subseteq Nat \ {0}
    /\ HalfSpread \in Nat /\ Tick \in Nat
    /\ Brokerage \in Nat
    /\ Rate \in [{"BUY", "SELL"} -> Nat] /\ RateBase \in Nat \ {0}
    /\ MaxTries \in Nat \ {0}
    /\ None \notin Strategies

VARIABLES
    status,     \* option_strategies.status, "absent" before the row exists
    ledger,     \* the reserve rows and the fills of the book, in order
    position,   \* paper_positions of the option symbols
    phase,      \* where the request or the step that drives the strategy is
    seen,       \* the status its session has in memory
    tries,      \* attempts of the step so far
    writer,     \* the strategy whose thread holds the account row, uncommitted
    saved       \* ledger and positions as last committed, while it does

vars == <<status, ledger, position, phase, seen, tries, writer, saved>>

Flat == [quantity |-> 0, avg_cost |-> 0, realized_pnl |-> 0]

Init ==
    /\ status = [s \in Strategies |-> "absent"]
    /\ ledger = <<>>
    /\ position = [y \in Symbols |-> Flat]
    /\ phase = [s \in Strategies |-> "idle"]
    /\ seen = [s \in Strategies |-> "absent"]
    /\ tries = [s \in Strategies |-> 0]
    /\ writer = None
    /\ saved = <<>>

-----------------------------------------------------------------------------
(***************************************************************************)
(* Legs and positions.                                                     *)
(***************************************************************************)

Min2(a, b) == IF a < b THEN a ELSE b
Abs(n) == IF n < 0 THEN -n ELSE n

\* A submission that does not look for the orders of an earlier one.
NoLegKeys(rows, s) == 0

\* Legs are filled in order and a try stops at the first one refused, so the
\* legs that have an order with the key optstrat:{id}:leg{n} are the first ones.
FilledLegs(rows, s) ==
    Cardinality({i \in DOMAIN rows : rows[i].kind = "fill" /\ rows[i].strategy = s})

HasShorts(s) == \E i \in DOMAIN Legs[s] : Legs[s][i].side = "SELL"

\* to_money: the nearest amount, halves away from zero.
HalfUp(n, d) ==
    IF n < 0 THEN -((2 * (-n) + d) \div (2 * d)) ELSE (2 * n + d) \div (2 * d)

\* _fill_price: the mid and most of the half-spread, against the order.
FillPrice(side, mid) ==
    IF side = "BUY" THEN mid + HalfSpread
    ELSE IF mid - HalfSpread < Tick THEN Tick ELSE mid - HalfSpread

PremiumValue(s, i, quotes) ==
    FillPrice(Legs[s][i].side, quotes[Legs[s][i].symbol]) * Lots[s]

\* _option_charges of a leg, in RateBase-ths: a flat part and one that grows.
Charges(s, i, quotes) ==
    Brokerage * RateBase + Rate[Legs[s][i].side] * PremiumValue(s, i, quotes)

\* The cash of a leg is rounded once, as a whole.
NetCashflow(s, i, quotes) ==
    LET value == PremiumValue(s, i, quotes) * RateBase
    IN  IF Legs[s][i].side = "BUY"
        THEN -HalfUp(value + Charges(s, i, quotes), RateBase)
        ELSE HalfUp(value - Charges(s, i, quotes), RateBase)

\* What a unit of the leg cost or brought: the charges are rounded, and then
\* what one of the units has of the value with them.
UnitCost(s, i, quotes) ==
    LET value == PremiumValue(s, i, quotes)
        charges == HalfUp(Charges(s, i, quotes), RateBase)
    IN  IF Legs[s][i].side = "BUY" THEN HalfUp(value + charges, Lots[s])
                                   ELSE HalfUp(value - charges, Lots[s])

\* A first fill, or one that adds to the position.
SameDirection(pos, signed) ==
    pos.quantity = 0 \/ (pos.quantity > 0 <=> signed > 0)

\* The basis of two lots in one, per unit.
Averaged(pos, signed, unit) ==
    HalfUp(pos.avg_cost * Abs(pos.quantity) + unit * Abs(signed), Abs(pos.quantity + signed))

\* What a fill against the position realises on the part it closes.
Realised(pos, signed, unit) ==
    (IF pos.quantity > 0 THEN unit - pos.avg_cost ELSE pos.avg_cost - unit)
        * Min2(Abs(pos.quantity), Abs(signed))

\* A fill that crosses zero leaves the basis of the position it closed.
BasisSurvivesTheFlip(pos, signed, unit) ==
    LET rest == pos.quantity + signed
    IN  IF SameDirection(pos, signed)
        THEN [pos EXCEPT !.quantity = rest, !.avg_cost = Averaged(pos, signed, unit)]
        ELSE [quantity |-> rest, avg_cost |-> pos.avg_cost,
              realized_pnl |-> pos.realized_pnl + Realised(pos, signed, unit)]

\* _upsert_option_position: a fill in the direction of the position averages
\* the basis; one against it realises the closed part and, when it crosses
\* zero, opens the remainder at its own price.
UpsertPosition(pos, signed, unit) ==
    LET rest == pos.quantity + signed
    IN  IF SameDirection(pos, signed)
        THEN [pos EXCEPT !.quantity = rest, !.avg_cost = Averaged(pos, signed, unit)]
        ELSE [quantity |-> rest,
              avg_cost |-> IF rest = 0 THEN 0
                           ELSE IF rest > 0 <=> pos.quantity > 0 THEN pos.avg_cost
                           ELSE unit,
              realized_pnl |-> pos.realized_pnl + Realised(pos, signed, unit)]

\* signed_qty of a leg.
Signed(s, i) == IF Legs[s][i].side = "BUY" THEN Lots[s] ELSE -Lots[s]

FillRow(s, i, quotes) ==
    [kind |-> "fill", strategy |-> s, leg |-> i, amount |-> NetCashflow(s, i, quotes)]

ReserveRow(s) == [kind |-> "reserve", strategy |-> s, leg |-> 0, amount |-> -Margin[s]]

Count(from, to) == [k \in 1 .. to - from + 1 |-> from + k - 1]

\* The rows of legs from .. to.
FillRows(s, from, to, quotes) ==
    [k \in DOMAIN Count(from, to) |-> FillRow(s, Count(from, to)[k], quotes)]

\* The positions once a leg of s is filled on top of `held`.
LegFilled(held, s, i, quotes) ==
    [held EXCEPT ![Legs[s][i].symbol] =
        UpsertPosition(@, Signed(s, i), UnitCost(s, i, quotes))]

\* The positions that legs from .. to leave, one after the other.
PositionsAfter(s, from, to, quotes) ==
    LET held[i \in from - 1 .. to] ==
            IF i < from THEN position ELSE LegFilled(held[i - 1], s, i, quotes)
    IN  held[to]

-----------------------------------------------------------------------------
(***************************************************************************)
(* submit_option_strategy.                                                 *)
(***************************************************************************)

Quotes == [Symbols -> Premiums \cup {NoQuote}]

Tradable(s, quotes) == \A i \in DOMAIN Legs[s] : quotes[Legs[s][i].symbol] # NoQuote

\* Without the look at the status the margin is taken whenever it is submitted.
MarginAtEverySubmit(s) == HasShorts(s) /\ Margin[s] > 0

NeedsMargin(s) == HasShorts(s) /\ Margin[s] > 0 /\ seen[s] = "registered"

MarginRows(s) == IF NeedsMargin(s) THEN <<ReserveRow(s)>> ELSE <<>>

\* The margin is reserved after the legs are filled.
LegsThenMargin(s, last, quotes) ==
    FillRows(s, FilledLegs(ledger, s) + 1, last, quotes) \o MarginRows(s)

\* What a try that fills the legs up to `last` adds to the book.
TryRows(s, last, quotes) ==
    MarginRows(s) \o FillRows(s, FilledLegs(ledger, s) + 1, last, quotes)

\* A try that gets past the quotes and the margin.  It stops before the end
\* only at a debit that the free cash does not cover.
FillLegs(s, last, quotes) ==
    /\ writer \in {None, s}
    /\ Tradable(s, quotes)
    /\ last < Len(Legs[s]) => NetCashflow(s, last + 1, quotes) < 0
    /\ ledger' = ledger \o TryRows(s, last, quotes)
    /\ position' = PositionsAfter(s, FilledLegs(ledger, s) + 1, last, quotes)

Reached(s) == FilledLegs(ledger, s) .. Len(Legs[s])

\* A strategy with any leg filled counts as open.
AnyLegFilled(s, last) == last > 0

Complete(s, last) == last = Len(Legs[s])

-----------------------------------------------------------------------------
(***************************************************************************)
(* A chat registers a strategy: one request on the event loop.             *)
(***************************************************************************)

LoopFree == \A s \in ByChat : phase[s] # "submitting"

\* find_open_duplicate: a double click gets the registered row back.
Duplicate(s) ==
    \E t \in Strategies : Template[t] = Template[s] /\ status[t] = "registered"

\* Validation, gate and duplicate guard passed; persist_option_strategy commits.
Register(s) ==
    /\ s \in ByChat /\ phase[s] = "idle" /\ LoopFree
    /\ ~Duplicate(s)
    /\ status' = [status EXCEPT ![s] = "registered"]
    /\ phase' = [phase EXCEPT ![s] = "submitting"]
    /\ seen' = [seen EXCEPT ![s] = "registered"]
    /\ UNCHANGED <<ledger, position, tries, writer, saved>>

\* Market closed, no chain, a leg without a quote, no cash for the margin.
RefuseChat(s) ==
    /\ s \in ByChat /\ phase[s] = "submitting"
    /\ phase' = [phase EXCEPT ![s] = "done"]
    /\ UNCHANGED <<status, ledger, position, seen, tries, writer, saved>>

\* The router commits whatever the submission left, complete or not.
SubmitChat(s) ==
    /\ s \in ByChat /\ phase[s] = "submitting"
    /\ \E quotes \in Quotes, last \in Reached(s) :
          /\ FillLegs(s, last, quotes)
          /\ status' = IF Complete(s, last) THEN [status EXCEPT ![s] = "active"] ELSE status
    /\ phase' = [phase EXCEPT ![s] = "done"]
    /\ UNCHANGED <<seen, tries, writer, saved>>

\* withdraw_option_strategy looks at the status alone.
Withdraw(s) ==
    /\ LoopFree
    /\ status[s] = "registered"
    /\ status' = [status EXCEPT ![s] = "withdrawn"]
    /\ UNCHANGED <<ledger, position, phase, seen, tries, writer, saved>>

-----------------------------------------------------------------------------
(***************************************************************************)
(* A workflow step registers and submits a strategy, on its own thread.    *)
(***************************************************************************)

\* The retry limit is compared with the tries before this one.
LastTry(s) == tries[s] + 1 = MaxTries

\* The failed step is left without the commit that stores its failure.
LeaveOpen(s) == UNCHANGED <<writer, saved>>

\* A commit of s's thread: what it wrote is durable, the account row is free.
Commit(s) == IF writer = s THEN writer' = None /\ saved' = <<>>
                           ELSE UNCHANGED <<writer, saved>>

\* The engine stores a failed step, and with it whatever the tries wrote.
FailStep(s) == Commit(s)

\* No expiry, no chain, or the pre-trade gate: this try is spent.
FailToResolve(s) ==
    /\ s \notin ByChat /\ phase[s] = "idle"
    /\ tries' = [tries EXCEPT ![s] = @ + 1]
    /\ phase' = IF LastTry(s) THEN [phase EXCEPT ![s] = "done"] ELSE phase
    /\ UNCHANGED <<status, ledger, position, seen, writer, saved>>

Persist(s) ==
    /\ s \notin ByChat /\ phase[s] = "idle"
    /\ status' = [status EXCEPT ![s] = "registered"]
    /\ phase' = [phase EXCEPT ![s] = "loading"]
    /\ UNCHANGED <<ledger, position, seen, tries, writer, saved>>

\* The session reads the row once and keeps it until its next commit.  The
\* step of a strategy that is withdrawn by now succeeds without submitting it.
Load(s) ==
    /\ phase[s] = "loading"
    /\ seen' = [seen EXCEPT ![s] = status[s]]
    /\ phase' = [phase EXCEPT ![s] =
                    IF status[s] \in {"registered", "active"} THEN "submitting" ELSE "done"]
    /\ UNCHANGED <<status, ledger, position, tries, writer, saved>>

\* A try that fails: the last one is stored as the step's failure.
EndFailedTry(s) ==
    /\ tries' = [tries EXCEPT ![s] = @ + 1]
    /\ phase' = IF LastTry(s) THEN [phase EXCEPT ![s] = "done"] ELSE phase
    /\ UNCHANGED <<status, seen>>

RefuseStep(s) ==
    /\ s \notin ByChat /\ phase[s] = "submitting"
    /\ EndFailedTry(s)
    /\ IF LastTry(s) THEN FailStep(s) ELSE UNCHANGED <<writer, saved>>
    /\ UNCHANGED <<ledger, position>>

\* A leg is refused after others were filled: nothing is rolled back.
StopAtLeg(s) ==
    /\ s \notin ByChat /\ phase[s] = "submitting"
    /\ \E quotes \in Quotes, last \in Reached(s) \ {Len(Legs[s])} :
          FillLegs(s, last, quotes)
    /\ EndFailedTry(s)
    /\ IF LastTry(s) THEN FailStep(s)
       ELSE IF ledger' # ledger /\ writer = None
       THEN /\ writer' = s
            /\ saved' = <<ledger, position>>
       ELSE UNCHANGED <<writer, saved>>

\* All legs are filled; the status the row has by now is not looked at.
CompleteStep(s) ==
    /\ s \notin ByChat /\ phase[s] = "submitting"
    /\ \E quotes \in Quotes, last \in Reached(s) :
          Complete(s, last) /\ FillLegs(s, last, quotes)
    /\ status' = [status EXCEPT ![s] = "active"]
    /\ phase' = [phase EXCEPT ![s] =
                    IF s \in TwoSteps /\ seen[s] # "active" THEN "second" ELSE "done"]
    /\ Commit(s)
    /\ UNCHANGED <<seen, tries>>

\* A later strategy step of the run looks its strategy up by the run alone,
\* finds the one of the earlier step and submits that again.
SecondStep(s) ==
    /\ phase[s] = "second"
    /\ phase' = [phase EXCEPT ![s] = "loading"]
    /\ tries' = [tries EXCEPT ![s] = 0]
    /\ UNCHANGED <<status, ledger, position, seen, writer, saved>>

\* The engine looks for a cancellation before every try, and stores it.
CancelRun(s) ==
    /\ s \notin ByChat /\ tries[s] > 0 /\ phase[s] \in {"idle", "submitting"}
    /\ phase' = [phase EXCEPT ![s] = "done"]
    /\ Commit(s)
    /\ UNCHANGED <<status, ledger, position, seen, tries>>

\* The process dies: the open transaction is rolled back, and what was under
\* way is not resumed by anything.
Crash ==
    /\ \E s \in Strategies : phase[s] \in {"loading", "submitting", "second"}
    /\ phase' = [s \in Strategies |->
                    IF phase[s] = "idle" /\ tries[s] = 0 THEN "idle" ELSE "done"]
    /\ IF writer = None THEN UNCHANGED <<ledger, position>>
       ELSE ledger' = saved[1] /\ position' = saved[2]
    /\ writer' = None /\ saved' = <<>>
    /\ UNCHANGED <<status, seen, tries>>

Thread(s) ==
    \/ Load(s) \/ RefuseStep(s) \/ StopAtLeg(s) \/ CompleteStep(s) \/ SecondStep(s)

Next ==
    \/ \E s \in Strategies :
          \/ Register(s) \/ RefuseChat(s) \/ SubmitChat(s) \/ Withdraw(s)
          \/ FailToResolve(s) \/ Persist(s) \/ CancelRun(s) \/ Thread(s)
    \/ Crash

Spec == Init /\ [][Next]_vars

\* A thread that has begun goes on: no step of it waits for anything but the row.
FairSpec == Spec /\ \A s \in Strategies : WF_vars(Thread(s))

-----------------------------------------------------------------------------
(***************************************************************************)
(* Properties.                                                             *)
(***************************************************************************)

\* However often a strategy is submitted (a retry after a refused leg, a second
\* step of the run), no leg of it is filled twice: the optstrat:{id}:leg{n}
\* keys at work.
OneFillPerLeg ==
    \A i, j \in DOMAIN ledger :
       /\ ledger[i].kind = "fill" /\ ledger[j].kind = "fill"
       /\ ledger[i].strategy = ledger[j].strategy /\ ledger[i].leg = ledger[j].leg
       => i = j

\* No short leg is in the book without the margin of its strategy reserved
\* before it, whatever was refused, cancelled or rolled back on the way.
ShortIsMargined ==
    \A i \in DOMAIN ledger :
       LET s == ledger[i].strategy IN
       /\ ledger[i].kind = "fill" /\ Legs[s][ledger[i].leg].side = "SELL"
       /\ Margin[s] > 0
       => \E j \in 1 .. i - 1 : ledger[j] = ReserveRow(s)

\* A strategy that is shown as active has every one of its legs in the book.
ActiveIsWhole ==
    \A s \in Strategies : status[s] = "active" =>
       \A i \in DOMAIN Legs[s] :
          \E j \in DOMAIN ledger : /\ ledger[j].kind = "fill"
                                   /\ ledger[j].strategy = s /\ ledger[j].leg = i

IsFillOf(row, y) == row.kind = "fill" /\ Legs[row.strategy][row.leg].symbol = y

\* The sum of a figure over the fills of one option.
SumOverFills(rows, y, figure) ==
    SumFunctionOnSet([i \in DOMAIN rows |-> IF IsFillOf(rows[i], y) THEN figure[i] ELSE 0],
                     DOMAIN rows)

CashMoved(rows, y) == SumOverFills(rows, y, [i \in DOMAIN rows |-> rows[i].amount])
UnitsTraded(rows, y) == SumOverFills(rows, y, [i \in DOMAIN rows |-> Lots[rows[i].strategy]])
FillsCounted(rows, y) == SumOverFills(rows, y, [i \in DOMAIN rows |-> 1])

\* What a position says the trades in its option came to.
BookedCash(pos) == pos.realized_pnl - pos.avg_cost * pos.quantity

\* Whatever the strategies do to one option (add to it, close it in part, cross
\* from long to short), the cash its fills moved is the realised profit less the
\* basis of what is still open, and nothing open has no basis.  The basis is per
\* unit and rounded, at every fill by at most half the least amount for a unit of
\* the fill and for a unit then held, and the cash of a fill once more: a fill
\* costs at most one least amount, and one for every unit traded so far.  Beyond
\* that _upsert_option_position loses and invents nothing.
BasisMatchesCash ==
    \A y \in Symbols :
       /\ Abs(CashMoved(ledger, y) - BookedCash(position[y]))
            <= FillsCounted(ledger, y) * (UnitsTraded(ledger, y) + 1)
       /\ position[y].quantity = 0 => position[y].avg_cost = 0

\* Once a strategy is active, no later submission of it takes margin again:
\* the status flip that the comment at the reserve counts on.
MarginStopsAtActive ==
    [][\A s \in Strategies :
          status[s] = "active" /\ Len(ledger') > Len(ledger)
          => \A i \in Len(ledger) + 1 .. Len(ledger') : ledger'[i] # ReserveRow(s)]_vars

\* A thread that failed with rows written does not keep the account locked.
AccountIsFreed == \A s \in Strategies : writer = s ~> writer = None

=============================================================================
