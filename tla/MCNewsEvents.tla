---------------------------- MODULE MCNewsEvents ----------------------------
(* One spec, of one of three kinds, and two articles. *)
EXTENDS NewsEvents

CONSTANTS s1, wire, post

MCSource == [a \in Articles |-> IF a = wire THEN "agency" ELSE "channel"]
MCStory == [a \in Articles |-> a]
MCSays == [a \in Articles |-> IF a = post THEN {"YES", "RETRACTION"} ELSE {"YES"}]

T(tier, primary, hold, market, window) ==
  [tier |-> tier, workflow |-> TRUE, keywords |-> Articles, primary |-> primary,
   confirmations |-> 1, hold |-> hold, market |-> market, window |-> window, ignore |-> FALSE]

\* Tier 2 with an agency, Tier 3 that also wants a second source, and a price.
Confirmed == T(2, {"agency"}, TRUE, "no", 1)
Backed == T(3, {"agency"}, TRUE, "no", 1)
MarketPrice ==
  [T(3, {}, FALSE, "watched", 0) EXCEPT !.confirmations = 0, !.ignore = TRUE]

MCPortfolios == { [s \in Specs |-> t] : t \in {Confirmed, Backed, MarketPrice} }
=============================================================================
