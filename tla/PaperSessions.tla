---------------------------- MODULE PaperSessions ----------------------------
(***************************************************************************)
(* One paper account and the transactions that change its cash.            *)
(*                                                                         *)
(* The event loop (manual orders, the resting-order tick), the threads of  *)
(* the workflow engine and the listing-credit poller each work on the      *)
(* account through a session of their own.  A session reads the row once,  *)
(* waits for prices, computes the new cash columns in Python and writes    *)
(* them as values; nothing reads the row again and nothing locks it before *)
(* the first write.  PostgreSQL makes a second writer wait for the first   *)
(* one's commit (READ COMMITTED), no more.                                 *)
(*                                                                         *)
(* PaperBook models the same operations one at a time and in full; this    *)
(* module keeps of them what the interleaving of two transactions shows.   *)
(***************************************************************************)
EXTENDS Integers, FiniteSets, Sequences, SequencesExt

CONSTANTS
    Sessions,    \* threads with a database session
    Orders,      \* order rows that may come to exist, each with its request id
    Resting,     \* the LIMIT and SL buys among them; the others are MARKET
    Listings,    \* the MARKET buys that credit an IPO allotment
    Cashflow,    \* per order: what its fill moves, charges included (an integer,
                 \* negative for the purchases in Resting and Listings)
    Seed         \* starting capital

None == "none"

VARIABLES
    account,    \* paper_accounts as committed: [available, settled, reserved]
    status,     \* paper_orders.status as committed, "absent" before the insert
    ledger,     \* paper_ledger as committed
    session     \* per session: what it is doing and its copy of the account

vars == <<account, status, ledger, session>>

Closed == [at |-> "closed"]

Init ==
    /\ account = [available |-> Seed, settled |-> Seed, reserved |-> 0]
    /\ status = [o \in Orders |-> "absent"]
    /\ ledger = <<[amount |-> Seed, balance_after |-> Seed]>>
    /\ session = [x \in Sessions |-> Closed]

-----------------------------------------------------------------------------
(***************************************************************************)
(* Opening a transaction: the rows are read, then prices are fetched.      *)
(***************************************************************************)

Reads(x, o, work) ==
    session' = [session EXCEPT ![x] = [at |-> "read", work |-> work, order |-> o,
                                       copy |-> account, rows |-> <<>>,
                                       outcome |-> status[o]]]

\* The unique index on client_request_id: a second insert of the same id waits
\* for the first one's transaction, and is answered with its order.
Inserting(o) ==
    \E x \in Sessions : session[x] # Closed /\ session[x].order = o
                        /\ session[x].work = "place"

\* place_order: the account is read, then the order row is inserted.
Place(x, o) ==
    /\ session[x] = Closed /\ o \notin Listings
    /\ status[o] = "absent" /\ ~Inserting(o)
    /\ Reads(x, o, "place")
    /\ UNCHANGED <<account, status, ledger>>

\* credit_listed_allotment of a due allotment.  book_credited is set with the
\* outcome, rejected or filled, so it is the order's status that tells it.
CreditListing(x, o) ==
    /\ session[x] = Closed /\ o \in Listings
    /\ status[o] = "absent" /\ ~Inserting(o)
    /\ Reads(x, o, "place")
    /\ UNCHANGED <<account, status, ledger>>

\* evaluate_resting_orders, for an order whose price has crossed.
Evaluate(x, o) ==
    /\ session[x] = Closed
    /\ status[o] = "resting"
    /\ Reads(x, o, "fill")
    /\ UNCHANGED <<account, status, ledger>>

\* _paper_cancel_orders of a workflow step.
Cancel(x, o) ==
    /\ session[x] = Closed
    /\ status[o] = "resting"
    /\ Reads(x, o, "cancel")
    /\ UNCHANGED <<account, status, ledger>>

-----------------------------------------------------------------------------
(***************************************************************************)
(* Writing: the first flush takes the lock of the row and keeps it.        *)
(***************************************************************************)

\* A session that moved no cash has not written the account row.
Holds(x) == session[x].at = "written" /\ session[x].rows # <<>>

Need(o) == IF Cashflow[o] < 0 THEN -Cashflow[o] ELSE 0

\* A move of cash on a copy of the account, with its ledger row.
Move(work, available, settled, reserved) ==
    LET after == [available |-> work.copy.available + available,
                  settled   |-> work.copy.settled + settled,
                  reserved  |-> work.copy.reserved + reserved]
    IN  [work EXCEPT !.copy = after,
                     !.rows = Append(@, [amount |-> available,
                                         balance_after |-> after.available])]

Release(work) == Move(work, Need(work.order), 0, -Need(work.order))

\* execute_market_fill, against the free cash of the copy.
MarketFill(work) ==
    LET flow == Cashflow[work.order] IN
    IF Need(work.order) > work.copy.available
    THEN [work EXCEPT !.outcome = "rejected"]
    ELSE [Move(work, flow, flow, 0) EXCEPT !.outcome = "filled"]

RestBuy(work) ==
    IF Need(work.order) > work.copy.available
    THEN [work EXCEPT !.outcome = "rejected"]
    ELSE [Move(work, -Need(work.order), 0, Need(work.order)) EXCEPT !.outcome = "resting"]

\* The whole Python side of the operation, on the copy read at its start.
Computed(work) ==
    CASE work.work = "place" /\ work.order \in Resting -> RestBuy(work)
      [] work.work = "place" /\ work.order \notin Resting -> MarketFill(work)
      [] work.work = "fill" -> MarketFill(Release(work))
      [] work.work = "cancel" -> [Release(work) EXCEPT !.outcome = "cancelled"]

Flush(x) ==
    /\ session[x].at = "read"
    /\ Computed(session[x]).rows # <<>> => \A y \in Sessions : ~Holds(y)
    /\ session' = [session EXCEPT ![x] = [Computed(session[x]) EXCEPT !.at = "written"]]
    /\ UNCHANGED <<account, status, ledger>>

\* The columns that changed are written with the values of the copy: settled
\* cash moves only with a fill, reserved cash only with a reserve or release.
Written(work) ==
    [available |-> IF work.rows = <<>> THEN account.available ELSE work.copy.available,
     settled   |-> IF work.outcome = "filled" THEN work.copy.settled ELSE account.settled,
     reserved  |-> IF work.order \in Resting /\ work.rows # <<>>
                   THEN work.copy.reserved ELSE account.reserved]

Commit(x) ==
    LET work == session[x] IN
    /\ work.at = "written"
    /\ account' = Written(work)
    /\ status' = [status EXCEPT ![work.order] = work.outcome]
    /\ ledger' = ledger \o work.rows
    /\ session' = [session EXCEPT ![x] = Closed]

\* An error or the end of the process: nothing of the transaction remains.
Rollback(x) ==
    /\ session[x] # Closed
    /\ session' = [session EXCEPT ![x] = Closed]
    /\ UNCHANGED <<account, status, ledger>>

Next ==
    \E x \in Sessions :
       \/ \E o \in Orders :
             Place(x, o) \/ CreditListing(x, o) \/ Evaluate(x, o) \/ Cancel(x, o)
       \/ Flush(x) \/ Commit(x) \/ Rollback(x)

Spec == Init /\ [][Next]_vars

-----------------------------------------------------------------------------
\* The replay invariant that PaperLedgerEntry states: the amounts of the ledger
\* add up to the account's free cash, whoever wrote the rows.
LedgerReplaysAcrossSessions ==
    FoldLeft(LAMBDA sum, row : sum + row.amount, 0, ledger) = account.available

=============================================================================
