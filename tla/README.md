# A formal model of the Second Star trading backend

This directory holds TLA+ specifications of the parts of `src/pivot/backend`
that keep money and decide when an order may leave: the paper broker's book,
the workflow engine, what fires a workflow (schedules, watchers, news), and the
option strategies. TLC checks them on small instances; TLAPS proves their
safety properties for every instance.

    tlc -config PaperBook.cfg MCPaperBook.tla        # one run
    tlapm WorkflowEngine_proofs.tla                  # the proofs of one module

Paths below are relative to `src/pivot/backend` unless they start with `docs/`
or name a file at the top of `src/`.

## 1. The system

Second Star lets a user describe trading automations in a chat, runs them as
*workflows*, and fills their orders in a simulated (*paper*) account or sends
them to a broker. One uvicorn process serves HTTP, runs an APScheduler, and
executes workflow runs in worker threads; PostgreSQL (SQLite in tests) keeps
everything that survives a restart.

| Component | State it keeps | Operations | Talks to | Modelled in |
|---|---|---|---|---|
| Paper book: `paper/broker.py`, `fills.py`, `evaluator.py`, `jobs.py`, `accounts.py` | cash triple, orders, positions, ledger, fills | place (market, resting, GTT, bracket), fill, cancel, tick | called by routing, by workflow actions, by the scheduler's tick | `PaperBook`, `CashBook`, `PaperBookAudit`, `PaperSessions` |
| Routing: `paper/routing.py` | none (account mode in the book) | choose paper or broker, build the idempotency key | book, brokers | `PaperBook` (paper branches), `WorkflowEngine` (paper, live and registered orders of a step) |
| Engine: `workflows/engine.py` | run and step rows; cancel flags and locks in memory | execute, resume, retry, pause, terminate | step executors; approvals and runs routers write the same rows | `WorkflowEngine`, `PooledLock` |
| Approvals, run control: `routers/approvals.py`, `routers/runs.py` | approval rows | decide, cancel | engine (a task; a flag; direct writes to the run) | `WorkflowEngine`, `ApprovalDesk` |
| Scheduler, watchers: `workflows/scheduler.py` | `next_run_at`, fire-once keys in step configs | poll schedules, scan triggers, fire runs | engine | `WorkflowTriggers` |
| Editing: `routers/workflows.py` | workflows and steps | create, patch, activate, pause, archive, delete, run | scheduler, engine | `WorkflowTriggers` |
| News events: `news_events/` | specs, articles, classifications, fired events; price-feed registrations in memory | parse, activate, cancel, ingest, classify, fire, retract | engine (starts and cancels runs) | `NewsEvents` |
| Option strategies: `paper/options_routing.py`, `routers/option_strategies.py` | strategy rows, legs in the book, margin reserve | register, submit, fill legs, withdraw | book, engine (a step) | `OptionStrategies` |
| IPO simulation: `paper/ipo_sim.py`, `ipo_fills.py` | applications, allotments | apply, allot, credit on listing | book | `PaperSessions` (the credit) |
| Brokers, market data, chat and agents, macro and earnings feeds, authentication, backtesters, view markets, front end | sessions, caches | I/O, numerics and presentation | — | not modelled |

`PROJECT.json` lists every component with its status and the reason for what is
left out.

### What is hard

* **Interleaving.** A run row is written by its loop (a thread), by a decision
  (on the event loop) and by a cancel request (a thread-pool thread), each with
  a blind `UPDATE`. The paper cash is read, changed in Python and written back
  without a row lock. The news funnel keeps one database session over many
  awaits, while requests, the price feed and a watcher thread commit around it.
* **Failure.** The cancel flags, the lock table, the task queue and the feed's
  registrations are process memory. A fill may be rejected after its reserve was
  released; an order's answer may be lost after the broker took it; the legs of
  a strategy are filled one by one and not undone.
* **Ordering.** The evaluator acts on a list it read once while its own fills
  cancel entries further down. An approval can be given before its run is
  recorded as waiting. A fire-once key is stored in one transaction and the run
  created in another, by a job that works on copies of the configs.
* **Timeouts and retries.** Step retries with a stable key; approvals that
  expire; a run's time budget, measured afresh on resume; a second submission of
  a half-filled strategy.

### What makes the parts correct

* Book: cash, ledger, fills and positions agree; a reserve is given back
  exactly once; nothing is sold short; a bracket exits once; a closed order
  stays closed; an order queued for the open settles.
* Engine: no order passes an unapproved gate; a step makes one paper order, and
  live ones only by its own retries; a run has one driver; two runs of a
  single-instance workflow do not overlap; a run settles; approvals take effect.
* Triggers: an occasion fires one run; a due instant is served unless the
  workflow is stopped; what the list of workflows shows is what the poll will
  do; a key that says "fired" stands for a run.
* News: a spec starts at most one run, out of a recorded fire, on evidence that
  is in the table; a rule that is satisfied is acted on; the queue drains.
* Options: a leg is filled once; a short leg is margined; "active" means whole;
  the basis of a position explains the cash its fills moved, to its roundings.

## 2. The modules

| Module | Models |
|---|---|
| `PaperBook` | one account's book: state, operations, safety and action properties |
| `CashBook` | the abstract cash book it implements: hold, release, buy, sell |
| `PaperBookAudit` | the sums an auditor recomputes, fairness, liveness |
| `PaperSessions` | the same book's cash under concurrent database sessions |
| `WorkflowEngine` | engine loops, approvals, cancellation, crashes |
| `ApprovalDesk` | the abstract approval desk it implements: ask, skip, answer, send |
| `PooledLock` | the PostgreSQL form of the single-instance lock, on pooled connections |
| `WorkflowTriggers` | the life of a workflow, its schedules and its watchers |
| `NewsEvents` | specs that fire on articles or market prices, and what may still stop their run |
| `OptionStrategies` | multi-leg strategies: registration, legs, retries, withdrawal |
| `MC...` | instances of these for TLC |
| `PaperBook_proofs`, `PaperBookCash_proofs`, `PaperBookAudit_proofs` | the theorems about the book: its types and cash; what it reserves, and the refinement of `CashBook`; the audit sums |
| `FiniteSums` | lemmas about sums over finite sets, for the audit and for the cash of an option |
| `WorkflowEngine_proofs`, `WorkflowTriggers_proofs`, `NewsEvents_proofs`, `OptionStrategies_proofs` | the theorems about these modules |

The modules meet at narrow places, and each takes the other's side as a free
choice. `WorkflowTriggers` and `NewsEvents` end where a run row exists, which is
`CreateRun` of `WorkflowEngine`. A paper order of `WorkflowEngine` is known by its
idempotency key, and `PaperBook` is the book behind that key. `PaperSessions` and
`PooledLock` open up an atomicity that `PaperBook` and `WorkflowEngine` assume
(one transaction at a time; a lock that excludes) and show what becomes of it.

A definition with a longer name just before another (`CridPerAttempt` before
`Crid`) is a deliberately faulty variant. Each property of a passing run is
refuted once its model definition is replaced by one of these, which shows that
the property speaks about the code.

### PaperBook

The variables are the columns: `cash_available`, `cash_reserved`,
`cash_settled` of the account; `status`, `request`, `intended_price`,
`reserved_cash` per order, `blotter` for `created_at` order; `position`;
`ledger` and `fills`, the append-only journals. An order is named by the
`client_request_id` its caller presents, so that a replay is an action that
finds the row and changes nothing.

| Action | Code |
|---|---|
| `PlaceMarket`, `PlaceResting` | `PaperBroker.place_order`, the MARKET and the resting branch |
| `PlaceBracket` | `submit_gtt_oco_for_user`, paper branch |
| `CancelOrder` | `action.cancel_orders`, one order of its list |
| `Squareoff`, `SquareoffRetry`, `CancelNext` | `_paper_squareoff` for one symbol; its replay; `_paper_cancel_protective_sells` |
| `StartTick`, `Skip`, `Fire`, `CancelNext` | `tick_paper_accounts`; one iteration of `evaluate_resting_orders`; cancelling the OCO siblings |
| `SetMode`, `ExchangeSession` | `set_account_mode`; `is_market_open` |

A transaction is one step, except that the loops inside one take a step per
iteration (`pass`, `cancelling`) while everything else waits (`Idle`). A
transaction that fails and rolls back (the tick's savepoint) leaves the state in
which it began, so it is a behaviour without those steps. A mark is any of
`Prices`, or none, at each look: the feed is not assumed to be consistent within
a pass. Money is an integer in the ledger's unit; charges are a flat part and a
rate rounded half up, as `_charges` and `to_money` make them. Average cost, P&L
and attribution are left out: no guard reads them.

`CashBook` is the abstract specification: money is free or held for one order,
and every step of the book holds some, gives a hold back, pays for a purchase, or
settles a sale. Holds and purchases are covered by what is free; a sale is not
gated and may cost up to its flat charge, so the free money can go below zero by
sales and by nothing else. `ImplementsCashBook` is the refinement, by the account's
columns, the orders' reserves and the filled orders.

### PaperSessions

The manual orders and the tick (event loop), the engine's threads and the
listing-credit poller each have a session. `Place`, `CreditListing`, `Evaluate`
and `Cancel` open a transaction and take a copy of the account; `Flush` runs the
Python of the operation on the copy and takes the row lock PostgreSQL gives to a
first writer; `Commit` writes the columns that changed as values; `Rollback` is
an error or the end of the process. The isolation is READ COMMITTED.

### WorkflowEngine

`run_status`, `step_status`, `decision`, `expired` and `orders` are the
database and the broker; `tasks`, `loop`, `lock`, `cancel_flags` and
`cancelling` are memory, which `Crash` empties. One action is one committed
transaction or one access to shared memory. `loop[w]` is a worker thread with a
program counter: `lock`, `boundary` (before a step), `attempt`, `record` (the
order is out, its result not yet committed), `pause_step` and `pause_run` (the
approval row is committed, the step and the run are not), `terminate`,
`finally`.

* A plan is a sequence of step kinds. `task` stands for every step without
  effect on this state (fetches, notifications, triggers); `gate` is
  `wait.approval`; `gated_order` is an order with `requires_approval`.
* `Decide` is one step: the handler is `async` and does not await between its
  check and its commit. `post_cancel_run` runs in a thread pool and is three:
  `ReadForCancel`, `FlagCancel`, `DirectCancel`.
* Where an order goes is looked up at every send (`submit_order`): to the paper
  book, to a live broker, or nowhere, when automation is off for the user and the
  order is only registered. So `PlaceOrder` takes any route of `Routes` at every
  try, and an account that is switched between two tries is covered.
* `orders` is what the sends of a step have opened, in order. The paper book
  answers a key it has seen with the order it opened then; a live broker opens an
  order for every send it accepts, since Kite takes no key (`kite/orders.py:35-39`).
  What a broker does with an order it took is external.
* A send may be followed by a lost answer or a failing audit row: the order is out
  and the try has failed.
* The time budget may run out at any boundary; `OutOfTime` is always possible.
* Left out: the event bus, the context bag, backoff times, edits of a workflow
  during its runs, and the PostgreSQL form of the lock, which is `PooledLock`.

`ApprovalDesk` is the abstract specification: the gates of a run open one after
the other, each is answered once, and an order, sent for the first time or again,
passes open gates only, never while an answer is outstanding or negative. It has no
threads, statuses, tries or restarts. `ImplementsApprovalDesk` is the refinement: a
gate is the approval row together with the step's own row (`GateOf`: a step that is
skipped has no approval), and what was sent is the number of orders of each step
(`DeskSent`). How many those may be is `ResendsAreRetries`: one on paper, and for a
step without an approval no more of any kind than one execution has tries. A step
with an approval is left out of the second half, for the reason in section 6
(*More orders than tries*).

The news watcher (`news_events/pipeline/retraction.py:91-107`) is a third writer of
decisions: it rejects the open approvals of a run it retracts, without touching the
run. It is an action of `NewsEvents` and not of this module.

### PooledLock

A run borrows a connection for each transaction and gives it back at every
commit; the pool hands out the connection that came back last. `Begin`,
`TryLock`, `Statement`, `Commit`, `Terminate`, `Unlock` and `Close` follow one
run through `_run_loop`, `_single_instance_lock` and `_terminate`; `Recycle` is
`pool_recycle`; the guests are the process's other sessions. PostgreSQL's side
(a session-level lock is re-entrant, outlives the transaction and is unlocked
only by its holder) is external.

### WorkflowTriggers

Time is a count of instants. A workflow has a status, a version, its trigger
steps with `next_run` and a fire-once key (`latch`) each, the summary
`next_run_at`, and `expires_at`. `job` is what each periodic job (the poll, and
one per family of watchers) holds in memory between its transactions: the
entries it has read, as they were.

| Action | Code |
|---|---|
| `Activate`, `Pause`, `Archive` | the routes, with the `upsert_workflow_schedule` each of them ends in (arming, and the pause of a spent one-time agent) |
| `Patch`, `Delete`, `RunNow` | `patch_workflow` with steps, `delete_workflow`, `run_workflow` |
| `StartPoll`, `FireOne` | `_poll_due_workflows` with the sweep of expired workflows; `_fire_one` |
| `Scan`, `PassOver`, `Match` | the scan of a watcher; an entry with nothing to report; one with an occurrence |
| `PersistLatch`, `FireWatch`, `ClearLatch`, `SetExpiry` | the `_persist_*` writers, `_fire_watch_run`, `_clear_macro_fired` and its earnings twin, `_persist_workflow_expires_at` |
| `Tick`, `Crash` | the clock; a restart, after which the jobs begin anew |

What a price, a text or an indicator says is a free choice (`PassOver` or
`Match`). `seen` and `again` in a run are history that the code does not keep:
the version whose steps it fired for, and whether that fire had a run before.

### NewsEvents

`terms` are a spec's keyword set, tier, sources and retraction policy; `state`,
`row`, `fired`, `runs` and `approval` are the tables. `tick` is the funnel job:
its batch, its `drafts` (verdicts written in a session that has not committed)
and `mem` (the specs in that session's identity map, which a commit expires).
`feed`, `scan` and `ws` are the Polymarket client's registrations, a reconcile
pass and the fire handler; `watch` is what a retraction scan has read.

| Action | Code |
|---|---|
| `Answer`, `Activate`, `Cancel` | `specs.py`: disambiguation, `activate_spec`, `cancel_spec` |
| `Ingest` | `_persist_items`: the article, and a pending row for every active spec whose keywords pass it |
| `LoadBatch`, `Postpone`, `Dismiss`, `Classify`, `EndBatch` | `process_pending`; `_process_one` with its early exits |
| `Classify`, `Signal`, `Handoff`, `Link` | `evaluate_firing` and `fire_spec`: the rule of the tier, the market's signal, the fire, the run, the link |
| `ReconcileRead`, `ReconcileApply` | the supervisor's pass over specs with a token |
| `Price`, `FeedLoad`, `FeedFire`, `FeedHandoff`, `FeedLink` | a tick of the price feed and its handler |
| `WatchRead`, `WatchHandle` | `retraction.py`, one scan and one fired event of it |
| `OpenApproval`, `AnswerApproval` | the engine and the user, as far as the watcher reads them |
| `Pass`, `Crash` | the clock; a restart |

What runs on the event loop between two awaits is one action; the watcher has a
thread. An article's verdict is any of `Says`. `DbAhead` is how far the
database's clock (which stamps articles) is ahead of the program's (which stamps
fires): the comparison of the two is what the watcher decides by.

### OptionStrategies

`status` is the row's, `seen` the copy of it that the driving session has in its
identity map; `ledger` holds the reserve rows and the fills, `position` the
signed positions. A thread that failed with rows written keeps the account row
locked until the engine stores the failure (`writer`, `saved`).

| Action | Code |
|---|---|
| `Register`, `SubmitChat`, `RefuseChat` | the chat's confirmation, on the event loop |
| `FailToResolve`, `Persist`, `Load` | `action.place_option_strategy` up to the submission |
| `RefuseStep`, `StopAtLeg`, `CompleteStep` | `submit_option_strategy`: refused before the first leg, at a leg, or whole |
| `SecondStep` | a later strategy step of the same run, which finds the first one's row |
| `CancelRun`, `Withdraw`, `Crash` | the engine's check before a try; `withdraw_option_strategy`; a restart |

Whether the free cash covers a debit is a choice; `PaperSessions` has the cash. The
money of a fill is computed as the code computes it: the mid moved against the
order by a part of the spread (`FillPrice`, with `HalfSpread` the part that is paid),
charges that are a flat amount per order and a rate on the premium (`Charges`), the
cash of the leg rounded once as a whole (`NetCashflow`), and the basis per unit from
charges that are rounded first and a quotient that is rounded again (`UnitCost`,
`Averaged`). One unit of the model's money is the least amount `to_money` keeps.

## 3. The runs

Twelve runs: eight that pass and four in which the code does not do what a
comment or document says (`PROJECT.json` quotes the line).

| Run | Shows | Instance |
|---|---|---|
| `book` | type, cash identity, long-only, ledger replay, reserves held by resting orders, journal and position sums with one fill per filled order, OCO; final states, overdrafts by sales only, LIMIT buys that find their cash at the fill, refinement of `CashBook` | 3 orders, 1 symbol, prices 10 and 20, seed 66, flat charge 11, 5 requests, 1 bracket |
| `book_live` | an order queued for the open settles | 2 orders, seed 30 |
| `engine_gated` | gates, one driver, no order but by a retry, refinement of `ApprovalDesk`; runs settle, an approval is acted on | 1 run of skip-gate-gated order-order, 2 loops, 1 retry, 1 crash, an account that is paper or live at each try |
| `engine_shared` | isolation of two runs without approvals, no leaked lock | 2 runs of condition-task-order, 2 loops, 1 crash, all three routes |
| `engine_revived` | *violated*: a cancelled run sends nothing | 1 run, 2 loops, 1 crash |
| `triggers` | the summary is what the poll will do; an occasion fires once; a key stands for a run | 1 workflow of four trigger lists (a schedule with a release, a one-time agent, an IPO, news), 2 instants, 1 edit, 1 expiry, 1 crash |
| `triggers_live` | a due instant is served; a one-time agent ends | 3 instants, schedules with a release, 1 crash |
| `triggers_siblings` | *violated*: two one-time schedules of one workflow both fire | 3 instants |
| `options` | one fill per leg, margin before a short, active is whole, basis and cash; margin stops at active, the account row is freed | one credit spread by a chat and by a run of two strategy steps, a long call of twice the size that trades the short option the other way; mid prices 1200 and 2400, 2 tries |
| `news` | at most one run, out of a recorded fire; state and audit agree; durable evidence; no missed rule; a cancel is lost only to a fire in flight; the queue drains, the window closes | 1 spec of one of three kinds, 2 articles, 3 instants, 1 crash |
| `sessions_lost` | *violated*: the ledger adds up to the account | 2 sessions, a buy, a sale, a resting buy, a listing credit |
| `lock_pooled` | *violated*: two runs of a single-instance workflow are kept apart | 2 runs, 1 other session, 3 connections |

`CHECK_DEADLOCK FALSE` everywhere: with every id used and the market closed,
every run ended, or the clock at its bound, the system has nothing left to do.

**Bounds of the book.** Three orders are enough for a bracket and the buy that
opens its position, for two exits that race for one position, and for a
replayed id next to a live one. Two prices lie on both sides of each limit and
trigger. The seed of 66 pays for two purchases of 33 each, the dear share or two
cheap ones with their charges, and for nothing after them, so reserves, rejections
and releases all occur. The flat charge of 11 is more than a share brings at the
price of 10: a sale then costs a seller money, and the free cash goes below zero,
which is the case that `OnlySalesOverdraw` and `LimitBuyKeepsItsCash` are about.
`OrderIds` is a symmetric set: no constant names an order.

**Bounds of the engine.** Two loops are what the races need: one that is
pausing or retrying and one that resumes or competes. One retry and one crash reach
each point where an order can be sent again, and two routes let each try find a
different account; a registered order, which nothing sends, is met in `engine_shared`.
The order that has a gate of its own is not retried in `engine_gated`, to keep the run
small: the one behind it is, on both routes, and an execution repeated by a
resumption is left to the theorem `OnlyRetriesResend`. `RunSymmetry` is used only with
interchangeable runs; runs with liveness properties use no symmetry.

**Bounds of the triggers.** Two instants let a poll read entries at one and
fire them at the next, when the schedule has moved on; two versions are an edit
between the read and the fire; one crash falls between every two transactions.
`ListingEnd` and the expiry lie inside the clock's range, so that the expiry an
IPO sets and the one a user sets are both met. The liveness run drops edits'
versions, not pauses, and takes one instant more.

**Bounds of the news.** The articles differ in source and story: one is from
the agency the rule names, the other may say YES or retract. Two sources are
what the widest rule asks for. `Lookback` 0 makes a verdict grow old while
another is awaited; `DbAhead` 1 is the case in which an article that came before
a fire is stamped after it. The three kinds of spec are confirmed by a named
source, backed by a second one, and priced by a market.

**Bounds of the options.** A chat's and a run's strategy share a template, for
the duplicate guard, and share symbols in opposite directions with the third, so
that a fill extends a position, closes it in part, closes it, and crosses zero.
Lots of three and six units, a flat charge of 236 and rates in thousandths leave
remainders at every division: cash, unit costs and averages are all rounded in the
run, and differ from each other.

**Fairness.**

* `PaperBookAudit!FairSpec`: the tick is a cron job that comes back every five
  minutes of every session (`SF` on `StartTick`, since the market closes in
  between); an iteration that is due is executed. Of the price feed only
  this is assumed, of each queued MARKET order by itself: looked at again and again,
  it finds a quote on some look (`FireQueued`). No limit or trigger need ever be
  reached and no other order need ever have a quote, so whatever rests before the
  queued one may rest for ever.
* `WorkflowEngine!FairSpec`: a thread goes on; the thread pool serves a task, as
  often as threads become free (`SF`); a request that began is finished. Nothing
  makes a user decide, cancel or start a run, and no approval is made to expire.
* `WorkflowTriggers!FairSpec`: time passes, and an interval job (`max_instances=1`,
  `coalesce=True`) comes round and finishes what it began. `WF` is enough: the
  scan that a job begins is its own state, which nothing but a crash takes away.
* `OptionStrategies!FairSpec`: a workflow thread that has begun goes on.
* `NewsEvents!FairSpec`: time passes; the funnel and the watcher run again and
  again. `SF` on judging a row: a row that comes up in every batch does not fail
  its embedding in all of them. Neither the feed nor ingest is made to run.

**Liveness and crashes.** `DueIsServed`, `QueueDrains`, `WindowCloses` and
`AccountIsFreed` hold across the crash of their runs. `RunsSettle` and
`ApprovalIsActedOn` speak of a process that lives: nothing takes up a run that
a crash left behind (section 6).

## 4. The proofs

Seven modules hold 35 theorems (`FiniteSums` holds only lemmas), for every value
of the constants that satisfies the named assumptions of the specification
(`RequestsAssumption`, `PlanAssumption`, `TriggerAssumption` and so on); TLC
evaluates those in the runs.

| Theorem | States |
|---|---|
| `PaperBook_proofs!TypeCorrect` | `Spec => []TypeOK` |
| `CashIdentityHolds` | `Spec => []CashIdentity` |
| `NeverShort` | `Spec => []LongOnly` |
| `LedgerAlwaysReplays` | `Spec => []LedgerReplays` |
| `ClosedForGood` | `Spec => TerminalIsFinal` |
| `NothingElseOverdraws` | `Spec => OnlySalesOverdraw` |
| `PaperBookCash_proofs!LimitBuysKeepTheirCash` | `Spec => LimitBuyKeepsItsCash` |
| `BookImplementsCashBook` | `Spec => ImplementsCashBook` |
| `PaperBookAudit_proofs!ReserveAlwaysHeldByOrders` | `Spec => []ReserveIsHeldByOrders` |
| `FillsAlwaysExplainBook` | `Spec => []FillsExplainBook` |
| `BracketsExitOnce` | `Spec => []BracketExitsOnce` |
| `WorkflowEngine_proofs!EngineTypeCorrect` | `Spec => []TypeOK` |
| `NoLockIsLeaked` | `Spec => []NoLockLeak` |
| `OnlyRetriesResend` | `Spec => []ResendsAreRetries` |
| `FirstExecutionsAreIsolated` | `Spec => []FirstIsolation` |
| `UngatedWorkflowsAreIsolated` | `Spec => []UngatedIsolation` |
| `IsolationWithoutApprovals` | `NoApprovals => (Spec => []RunIsolation)` |
| `GatesAlwaysHold` | `Spec => []GateHolds` |
| `NeverTwoDrivers` | `Spec => []OneDriver` |
| `EngineImplementsApprovalDesk` | `Spec => ImplementsApprovalDesk` |
| `WorkflowTriggers_proofs!TriggersTypeCorrect` | `Spec => []TypeOK` |
| `SummaryNeverStale` | `Spec => []ArmedTogether` |
| `KeysStandForRuns` | `Spec => []LatchMeansRun` |
| `OncePerOccasion` | `Spec => []FiresOnce` |
| `NewsEvents_proofs!NewsTyped` | `Spec => []TypeOK` |
| `StateFollowsAudit` | `Spec => []AuditMatchesState` |
| `CancelYieldsOnlyToFires` | `Spec => CancelLostOnlyInFlight` |
| `RunsAlwaysAudited` | `Spec => []RunsAreAudited` |
| `EvidenceAlwaysDurable` | `Spec => []EvidenceIsDurable` |
| `NoFireIsMissed` | `Spec => []NoMissedFire` |
| `OptionStrategies_proofs!LegsFillOnce` | `Spec => []OneFillPerLeg` |
| `ShortsAlwaysMargined` | `Spec => []ShortIsMargined` |
| `ActiveAlwaysWhole` | `Spec => []ActiveIsWhole` |
| `MarginNeverTwice` | `Spec => MarginStopsAtActive` |
| `BasisAlwaysMatchesCash` | `Spec => []BasisMatchesCash` |

**The book.** The inductive invariant is `BookInv`: the type invariant, the cash
identity, long-only, the replay of the ledger, and `OnlyRestingHold` (an order
that holds cash is resting). The last is what makes a release safe: without it a
filled order could give back its reserve again, and the ledger could not be
followed through `Fire`. The lemmas follow the code: what `execute_market_fill`
does to the book (`ExecuteFillEffect`), growing and releasing the ledger, one
lemma per placing, cancelling and firing operation, then `BookNext` with one step
per action. `NothingElseOverdraws` is an action property: `CashSteps` says of every step
that it leaves the free cash as it was, raises it, leaves it at zero or more, or is
a filled sale that takes the flat charge at most.

**Its cash.** A LIMIT buy is not rejected at the fill because of what it holds:
`HoldsItsLimit` says that an order's reserve is the cost at its limit, and the
cost grows with the price. If sales have not overdrawn the free cash by then, the
released reserve pays for the fill; nothing is assumed of prices or charges. The
refinement of `CashBook` takes each action to a hold, a release, a purchase, a sale
or a stutter, by the same facts.

**The audit.** `SumFunctionOnSet` is a recursive function over sets, and induction
over data is not something these provers do with a scheme. `FiniteSums` does it
by minimal counterexample instead: the subsets (or numbers) a statement holds of
form a set, and a well-founded order gives the least one outside it. That yields
the two facts an audit needs: a sum changes by what one element changes, and a
sum over a larger set grows by the new element. `ReserveIsHeldByOrders` and the
cash and position sums of `FillsExplainBook` then go step by step, with the fact
that a fill's row has a new index and an order has one iff it is filled.
`BracketExitsOnce` needs the evaluator's pass in its invariant: while one leg's
siblings are being cancelled, the ones still resting are those left to cancel.

**The engine.** `EngineTyped` adds to the type invariant what a loop's own record
may be. `LockInv` adds that a held lock is held by the loop that is on a run of
that workflow. Isolation rests on `ExecutesLocked`: a first execution that works on a run of a
single-instance workflow holds its lock, and a resumed one, which goes on without
the lock, takes it from nobody. So two first executions never overlap
(`FirstIsolation`), with any approvals; and since only a decision on a gated step
resumes a run (`OnlyGatedResume`), a run whose workflow asks for no approval is
alone (`UngatedIsolation`), which for `NoApprovals` is `RunIsolation`. The gates are
the deepest result: `GateHolds` is not inductive, and what it needs is that a loop in front of a
step has passed the gates behind it (`PassedBehind`), which another loop of the
same run could undo by writing an earlier step's row. So it is proved together
with `OneDriver`, as `DrivenInv`: a task, a working loop and a pending approval of a
run exclude each other. `RowsKept` collects what no step of the engine takes
back (an approval, a passed gate).

`OnlyRetriesResend` has two halves. That a step has one paper order rests on the key,
which no try changes (`KeysKept`). That a step without an approval has no more orders
of any kind than one execution has tries is a matter of who may still send it:
`SentIsHeld` says that such a step, once an order of it is out, is recorded as
succeeded, or its run is closed to every loop to come, or the loop that tries it is
still on it; `TriesCounted` bounds its orders by the attempts of that loop. For a
gated step the first of these fails: the success can be written over by the loop
that asked for the approval.

The refinement of `ApprovalDesk` goes by the same invariant, with one part more:
`SkippedUnasked`, that a step recorded as skipped has no approval outstanding or
refused. An order, a repeated one too, is one the desk sends because a loop about to
send has passed every gate before its step (`PassedBehind`) and no answer of its run
is outstanding or negative while a loop works on it (`OneDriver`); an approval is asked
for in the order of the plan for the same reason. Pausing, retrying, cancelling,
terminating and crashing are stutters, save that recording a skip is a `Skip`.

**The triggers.** `TriggersTyped` types the jobs' entries as well. `ArmedTogether` is
inductive with it. `LatchMeansRun` follows from `KeysBacked`, which counts a job's
entry at `fire` or `clear` as backing only if the key is the one it stored.
`FiresOnce` is proved by `FireInv`: a run that exists is accounted for
(`RunsAccounted`: its schedule is armed past its instant, or its occurrence is the
stored key or an older one), and what each job still holds is fresh with
respect to the runs that exist (`JobFresh`). `Progress` is what no step undoes: the
clock, the versions, and the steps of a version.

**The news.** The invariant is built in layers, each proved from those below.
`Types` types the funnel's batch and drafts and the handlers' copies. `Audited` adds
that state and audit row agree; `VerdictSteps` says which steps can fire at all.
`Queued` describes the funnel's memory (`BatchInv`): the batch has no row twice, each
row of it is still to come, a spec that its session remembers as closed is closed,
and drafts are verdicts of rows that are pending in the table. `Started` says that
of a fire that is not linked yet at most one handler is on its way to the run, and
whether the run exists by then. The evidence of a fire is durable because a stored
YES stays (`YesOnlyStays`) and a fire commits the drafts it rests on. `Decided` is
the deepest:
it keeps the rule unsatisfied both by the verdicts as the session sees them
(`DraftsDecided`) and by those that are stored (`RowsDecided`), since a crash goes
back from the first to the second. It rests on the rule as a monotone predicate of
the set of YES articles (`Meets`, `MeetsMore`): a rule that more verdicts do not
satisfy is not satisfied by fewer.

**The strategies.** `Book(rows)` says of a sequence of rows that each strategy's
filled legs are the first ones, once each (`LegsInOrder`), that a short one comes
after its margin (`MarginedFills`), and that an active strategy has them all. The
invariant says it twice, of the ledger and of the last commit while a thread
holds the account row, because a crash goes from one to the other. `SeenHolds` is
what makes the second submission safe: a thread that read the row as registered
is the only one that can make it active, and one that read it as active finds
every leg filled. `TryOf` is what a try appends, and three lemmas carry the parts of
the book over it.

`BasisAlwaysMatchesCash` goes leg by leg. `HalfUpRounds` bounds what one rounding
moves, and `BasisOfCash` what a leg's two roundings and the one of its cash come to
together. `UpsertKeepsValue` is the algebra of `_upsert_option_position`: a fill takes
from the value of a position (what it has realised, less the basis of what is open)
what its units cost, to the rounding of the average of the units then held, whether
it adds, closes in part, closes, or crosses zero. `FillAccounted` puts the two
together: a fill adds to the difference between cash and position at most one least
amount, and one for every unit traded up to it. `PositionsAfterLeg` takes the
recursion over the legs apart and `SumsOfNextRow` the sums over the rows, and
`TryMatches` runs them side by side; `MatchInv` says of the ledger and of the last
commit that their cash and positions match.

**Assumptions of the proofs.** Beside the ones the code's types give: the symbolic
`None` is not a value of any domain it stands next to (`NoneAssumption`,
`OptionAssumption`, `NewsAssumption`); the orders are finitely many
(`OrdersAssumption`), without which no sum over them is defined.

**Model-checked only.**

* All liveness: fairness and `ENABLED` are out of the prover's reach.
* `PaperSessions` and `PooledLock` exist for the behaviours in which the code
  breaks a promise, so there is no invariant of theirs to prove.

## 5. The plan

Done: the book, the engine, the triggers, the news events, the option
strategies, concurrent sessions and the pooled lock are modelled and checked;
every safety property that a passing run checks is proved. What is left:

1. What `PaperSessions` and `PooledLock` do keep: the book's invariants with one
   session, and the lock's with one connection per run.
2. The retraction watcher's decisions in `WorkflowEngine`, beside the router's.
3. Runs that exhibit the two live-order disagreements of section 6.

### Not modelled

* **Brokers, market data, feeds, chat and agents** are adapters to services
  outside the repository: their answers are free choices of the models. They are
  the larger part of the source (`services/chat_service.py`,
  `agents/tool_executor.py` and `agents/tools.py` alone are 17,000 lines), with
  little state of their own, so the map covers a small share of the whole.
* **Backtesters, the condition language, valuation, view markets** compute
  numbers from price series, sequentially; unit tests reach what they do.
* **Registry, references, schemas, linting** are pure checks of a workflow before
  it is saved; the models take any plan their assumptions allow.
* **The event bus and the run stream** deliver copies of committed state that
  nothing reads back.
* **Authentication, migrations, front end** are outside the trading core.
* Inside the modelled parts: the stateless price and indicator watchers (a level
  that holds is not an occasion), the Kalshi feed, the resolution mode of a market
  spec, the news source fetchers, the allotment draw, average cost and P&L of
  shares, marking to market.

## 6. Disagreements

Where the code does something else than it says, or than its tests and
documents say. Four have runs; the rest were met while modelling, and the models
follow the code.

### Book

* **Lost cash** (`sessions_lost`). Two sessions read the account before either has
  committed; the later commit overwrites the other's cash columns while both
  ledger rows stay. `models.py:625-633` says that the amounts of the ledger
  reconstruct the cash.
* A sale at a price below its flat charges moves the free cash *down*, without a
  gate (`paper/fills.py:155`). An account at zero goes below it, which the gates of
  every other path exclude (`OnlySalesOverdraw`), and a limit buy that rests
  meanwhile may then be rejected for cash it had reserved (`LimitBuyKeepsItsCash`).
* A stop-buy reserves at its limit and fires at the mark: with a limit under its
  trigger it fills above its limit, or is rejected for want of cash after it had
  reserved some (`paper/broker.py:267`).
* The paper square-off cancels the protective orders whether or not the exit
  filled, and the retry it raises for presents the id of the rejected order and is
  answered with that (`workflows/steps/actions.py:95`).

### Engine

* **A cancelled run comes back** (`engine_revived`). Approving the pending approval
  of a cancelled run sets it running, and its order is sent.
* **A second live order.** `workflows/steps/actions.py:3-6` says that
  the broker "can reject duplicates on retry", and `paper/routing.py:154-158` that a
  retried step dedups against its prior placement. Kite has no such key
  (`kite/orders.py:35-39`), and the Kite helper is called without one
  (`paper/routing.py:328-340`): a try whose order was taken and whose answer was lost
  is repeated as a second order.
* **More orders than tries.** The loop that asks for an approval
  commits the approval row before the step's. Approved in between, another loop sends
  the order and records the step's success, and the first then writes
  `awaiting_approval` over it (`workflows/engine.py:588-598`). A later approval of the
  run resumes it at that step (`engine.py:359-390`), which sends the order again with
  a fresh budget; `actions.py:8-10` allows for one retry. On paper the key catches it.
* **The pooled lock** (`lock_pooled`). The advisory lock stays with a connection
  that goes back to the pool, so a second run may be granted it; and an unlock on
  another connection has no effect, so that later runs are cancelled until the
  connection is recycled. `docs/ARCHITECTURE.md:307` and
  `docs/SYSTEM_WALKTHROUGH.md:367` count on it.
* The in-process lock is given up at a pause and not taken on resume
  (`workflows/engine.py:296`): a second run may execute while an approved one goes
  on. `RunIsolation` is therefore checked, and proved, for workflows without
  approvals; with them it is proved of first executions (`FirstIsolation`).
* A rejection given between the approval's commit and the run's is overwritten:
  the pausing loop sets the run to waiting for ever.
* A cancel request that reads a run as running just before its loop pauses sets a
  flag that the loop's `finally` clears; the accepted request has no effect.
* `recover_stale_runs` (`workflows/engine.py:170`) is called by nothing: a run that a
  crash leaves running stays running, though `engine.py:538` relies on it.
* Nothing ends a run whose approval expired, which
  `docs/SYSTEM_WALKTHROUGH.md:548` says "terminates as `cancelled`".
* The engine reads the steps a workflow has now (`engine.py:328-332`), not those of
  the run's version, which `routers/workflows.py:1052-1054` says runs keep.

### Triggers

* **A dropped sibling** (`triggers_siblings`). Firing one of two one-time schedules
  re-arms, and may pause, the workflow with the other one due.
* The expiry-day key is a string handed to a writer that stores numbers and maps of
  numbers (`workflows/scheduler.py:949`, `1612-1618`): it is never stored, and the trigger
  fires at every poll of the day. `FiresOnce` excepts it.
* `scheduler.py:1785` calls the event trigger "at-least-once"; the key is stored
  before the run is created, so it is at most once. The IPO watcher does the same.

### News

* The retraction watcher can hardly see a retraction: a fired spec gets no new
  rows (`pipeline/keyword.py:100-109` loads active specs) and the funnel skips the rows it
  has. `pipeline/retraction.py:4-6` and the docstring of `RetractionPolicy` describe
  the watch over the window; the tests insert the rows by hand. What it can see is a
  row of the firing batch, or one stamped later by the database's clock.
* `retraction.py:16-18` and `94-95` say the engine reads the rejected approval and
  halts the run. It does so only on a decision made by `decide_approval`; the
  watcher's write leaves the run waiting.
* The watcher acts on what it read at the start of its scan. A run linked, or an
  approval opened, a moment later is missed, and the fire counts as handled for
  good.
* A cancel that commits while a fire is under way is overwritten by it
  (`pipeline/funnel.py:167`); `CancelLostOnlyInFlight` says it is lost nowhere else.
* `funnel.py:252-253`: "next ingest re-evaluates". It does not: an article that is
  stored is not ingested again.
* `ingest.py:141-143`: "Roll back this row and continue". The rollback takes the whole
  transaction, with the rows of the same call that were flushed before.
* The evidence recorded for the confirming articles may be two of one source,
  though the rule counted sources (`pipeline/aggregate.py:318`).
* A Tier 3 spec held back by a contrary verdict is not looked at again when that
  verdict grows old. `NoMissedFire` excepts it.
* A spec made from a market's page has an empty keyword set, which lets every
  article through; and the signal of its threshold ignores the direction "below".
* `news_events/workers/poller.py:84-86` says the first fetch comes after 10 s;
  `next_run_time=None` adds the job paused.

### Options

All in `paper/options_routing.py` unless another file is named.

* A retry after a refused leg reserves the margin again, since the strategy is
  still registered (334-340 says "once — idempotent").
* Nothing releases the reserve. "A withdrawn-before-active strategy never reserves"
  (25-26) does not hold: the reserve is committed before the legs, and the withdrawal
  looks at the status only (`routers/option_strategies.py:298`).
* "Every leg must be quotable and affordable before the first fill" (275-276): quotes are
  checked first, cash is not.
* The refusal says "re-deploy it once the market opens" (301); the duplicate guard
  then answers with the registered row and submits nothing.
* A second strategy step of a run finds the first one's row by the run alone and
  submits that again; its own structure is never registered
  (`workflows/steps/actions.py:1723-1734`).
* Success overwrites a withdrawal that came in between with "active".
