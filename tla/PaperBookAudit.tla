--------------------------- MODULE PaperBookAudit ---------------------------
(***************************************************************************)
(* What an auditor of the paper book recomputes: the sums over its orders, *)
(* its fills and its positions, and what its loops must reach.             *)
(***************************************************************************)
EXTENDS PaperBook, FiniteSets, Functions

\* The orders of an account are the rows of a table.
ASSUME OrdersAssumption == IsFiniteSet(OrderIds)

FillIndices == DOMAIN fills

\* The account's reserve is exactly what its resting orders hold.
ReserveIsHeldByOrders ==
  /\ cash_reserved = SumFunctionOnSet(reserved_cash, OrderIds)
  /\ OnlyRestingHold

Signed(f) == IF f.side = "BUY" THEN f.qty ELSE -f.qty

Cashflows == [i \in FillIndices |-> fills[i].cashflow]
SignedQuantities == [i \in FillIndices |-> Signed(fills[i])]

FillsOf(o) == {i \in FillIndices : fills[i].order = o}
FillsOn(s) == {i \in FillIndices : fills[i].symbol = s}

\* The fill journal explains the book: reserves and releases create and destroy
\* no money, a position is the net of its symbol's fills, and every filled order,
\* and no other, has one fill, for what its row asked.
FillsExplainBook ==
  /\ cash_settled = SeedCapital + SumFunctionOnSet(Cashflows, FillIndices)
  /\ \A s \in Symbols :
       position[s] = SumFunctionOnSet(SignedQuantities, FillsOn(s))
  /\ \A o \in OrderIds :
       /\ Cardinality(FillsOf(o)) = IF status[o] = "filled" THEN 1 ELSE 0
       /\ \A i \in FillsOf(o) : /\ fills[i].symbol = request[o].symbol
                                /\ fills[i].side = request[o].side
                                /\ fills[i].qty = request[o].qty

\* One cancels the other: of a bracket's two legs at most one ever fills, and
\* once it has, the other is not left resting when the transaction ends.
BracketExitsOnce ==
  \A g \in Groups :
    LET legs == {o \in OrderIds : status[o] # "absent" /\ request[o].group = g}
        done == {o \in legs : status[o] = "filled"}
    IN /\ Cardinality(done) <= 1
       /\ Idle /\ done # {} => \A o \in legs : status[o] # "resting"

-----------------------------------------------------------------------------
(* The scheduler runs the tick again and again while the market is open, and  *)
(* the loops inside a transaction run to their end.  Of the price feed only    *)
(* this: a queued MARKET order that is looked at again and again finds a quote *)
(* on some look.  No limit and no trigger need ever be reached, and an order   *)
(* of another type may meet no quote at all.                                   *)
FireQueued(o) ==
  \E mark \in Prices : Fire(o, mark) /\ request[o].type = "MARKET"

Fairness ==
  /\ SF_vars(StartTick)
  /\ \A o \in OrderIds :
       /\ WF_vars(CancelNext(o))
       /\ WF_vars(\E mark \in Marks : Skip(o, mark) \/ Fire(o, mark))
       /\ SF_vars(FireQueued(o))

FairSpec == Spec /\ Fairness

\* A MARKET order queued for the open is not forgotten, though orders placed
\* before it may rest for ever: if the market keeps opening on an account in paper
\* mode, it fills, is rejected, or is cancelled (broker.py, the market-hours gate;
\* evaluator.py, the loop over the resting orders).
QueuedMarketSettles ==
  \A o \in OrderIds :
    []<>(marketOpen /\ mode = "paper") =>
      ((status[o] = "resting" /\ request[o].type = "MARKET") ~> status[o] \in Terminal)

=============================================================================
