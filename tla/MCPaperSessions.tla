--------------------------- MODULE MCPaperSessions ---------------------------
(* Two sessions and a handful of orders for TLC. *)
EXTENDS PaperSessions

CONSTANTS buy, sale, limit, listing

\* A purchase, a sale, a resting buy and an allotted issue.
MCCashflow == (buy :> -3) @@ (sale :> 2) @@ (limit :> -4) @@ (listing :> -2)

=============================================================================
