------------------------- MODULE MCOptionStrategies -------------------------
(* Small sets of strategies for TLC. *)
EXTENDS OptionStrategies, TLC

CONSTANTS s1, s2, s3

L(side, symbol) == [side |-> side, symbol |-> symbol]

\* The same credit spread by a chat and by a run that has two strategy steps;
\* a long call by another run, which trades the short option the other way.
MCLegs == (s1 :> <<L("SELL", "near"), L("BUY", "far")>>) @@
          (s2 :> <<L("SELL", "near"), L("BUY", "far")>>) @@
          (s3 :> <<L("BUY", "near")>>)
MCLots == (s1 :> 3) @@ (s2 :> 3) @@ (s3 :> 6)
MCMargin == (s1 :> 5) @@ (s2 :> 5) @@ (s3 :> 0)
MCRate == ("BUY" :> 1) @@ ("SELL" :> 2)
MCTemplate == (s1 :> "spread") @@ (s2 :> "spread") @@ (s3 :> "call")

=============================================================================
