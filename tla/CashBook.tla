------------------------------- MODULE CashBook -------------------------------
(***************************************************************************)
(* What a cash book promises, whatever orders are: money is free or held   *)
(* for one order, an order's hold comes back whole or is spent on that     *)
(* order's one purchase, and no hold or purchase overdraws the book.  A    *)
(* sale is settled whatever is free, and takes at most its fee.            *)
(***************************************************************************)
EXTENDS Integers

CONSTANTS
  Orders, Capital,
  Fee      \* the most a sale can cost beyond what it brings

VARIABLES
  free,    \* money nothing holds; less than none once sales have cost it
  hold,    \* money held per order
  bought,  \* the orders whose purchase has been paid
  sold     \* the orders whose sale has been settled

vars == <<free, hold, bought, sold>>

Init ==
  /\ free = Capital
  /\ hold = [o \in Orders |-> 0]
  /\ bought = {} /\ sold = {}

Settled == bought \cup sold

\* Set free money aside for an order that has not been settled.
Hold(o) ==
  /\ o \notin Settled /\ hold[o] = 0
  /\ 0 <= free' /\ free' < free
  /\ hold' = [hold EXCEPT ![o] = free - free']
  /\ UNCHANGED <<bought, sold>>

\* Give an order's money back.
Release(o) ==
  /\ hold[o] > 0
  /\ free' = free + hold[o]
  /\ hold' = [hold EXCEPT ![o] = 0]
  /\ UNCHANGED <<bought, sold>>

\* Pay for an order, once, by an amount that the free money and its hold cover.
Buy(o) ==
  /\ o \notin Settled
  /\ 0 <= free' /\ free' < free + hold[o]
  /\ hold' = [hold EXCEPT ![o] = 0]
  /\ bought' = bought \cup {o}
  /\ UNCHANGED sold

\* Settle an order that never held money, once, for its proceeds less its costs.
Sell(o) ==
  /\ o \notin Settled /\ hold[o] = 0
  /\ free' >= free - Fee
  /\ sold' = sold \cup {o}
  /\ UNCHANGED <<hold, bought>>

Next == \E o \in Orders : Hold(o) \/ Release(o) \/ Buy(o) \/ Sell(o)

Spec == Init /\ [][Next]_vars

=============================================================================
