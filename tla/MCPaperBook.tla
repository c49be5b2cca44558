----------------------------- MODULE MCPaperBook -----------------------------
(* Instances of the paper book for TLC. *)
EXTENDS PaperBookAudit, TLC

CONSTANTS s1, s2

Ask(symbol, side, type, qty, limit, trigger) ==
  [symbol |-> symbol, side |-> side, type |-> type, qty |-> qty,
   limit |-> limit, trigger |-> trigger, group |-> None]

\* Cheap at 10, dear at 20, and a tenth of the value on top of the flat charge.
MCPrices == {10, 20}

MCRequests ==
  { Ask(s1, "BUY",  "MARKET", 1, None, None),
    Ask(s1, "SELL", "MARKET", 1, None, None),
    Ask(s1, "BUY",  "LIMIT",  2, 10,   None),
    Ask(s1, "SELL", "LIMIT",  2, 20,   None),
    Ask(s1, "BUY",  "SL",     1, 10,   20) }

MCBrackets == { [symbol |-> s1, side |-> "SELL", qty |-> 1, stoploss |-> 10, target |-> 20] }

OrderSymmetry == Permutations(OrderIds)

=============================================================================
