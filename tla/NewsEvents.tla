------------------------------ MODULE NewsEvents ------------------------------
(***************************************************************************)
(* Workflows that fire on news (news_events/): a spec describes an event,  *)
(* articles are matched against it, judged by a language model and added   *)
(* up; once the rule of its tier is met the spec fires, once, and starts a *)
(* run of its workflow.  A price on a prediction market may fire it too.   *)
(* For a while after that a retraction may still stop the run.             *)
(*                                                                         *)
(* Five parties share the tables: requests of the user, the ingest of      *)
(* articles, the funnel job, the feed of market prices with its            *)
(* supervisor, and the retraction watcher in a thread of its own.  The     *)
(* first four run on one event loop, so what they do between two awaits is *)
(* one action here.  The funnel keeps one session for a whole batch: its   *)
(* verdicts are drafts until it commits, and it goes on using the states   *)
(* of specs it has read until a commit expires them.                       *)
(*                                                                         *)
(* A definition that stands just before another, under a longer name, is a *)
(* faulty variant of it that the runs must refute; the model uses none.    *)
(***************************************************************************)
EXTENDS Naturals, Sequences, FiniteSets

CONSTANTS
  Specs,
  Articles,
  Source,      \* NewsArticle.source_id
  Story,       \* NewsArticle.title_hash
  Says,        \* the verdicts the classifier may give on an article
  Portfolios,  \* the terms the users' specs may have been created with
  Lookback,    \* DEFAULT_LOOKBACK_MINUTES
  BatchSize,   \* DEFAULT_BATCH_SIZE
  DbAhead,     \* how far the database's clock is ahead of the program's
  MaxTime,     \* bound: the last instant
  MaxCrashes,  \* bound: process crashes
  None

\* A YES below min_confidence weighs as little as an unrelated article, and an
\* AMBIGUOUS as much as a NO: four verdicts are enough.
Verdicts == {"YES", "NO", "RETRACTION", "UNRELATED"}
SpecStates == {"pending_disambiguation", "draft", "active", "fired", "cancelled"}

\* What a spec asks for: keyword_set, as the articles it lets through,
\* resolution_criteria and retraction_policy.  A market's price is asked for
\* when the spec has a threshold, and watched when it also names a token.
Terms ==
  [tier : 1 .. 3, workflow : BOOLEAN, keywords : SUBSET Articles,
   primary : SUBSET {Source[a] : a \in Articles}, confirmations : Nat, hold : BOOLEAN,
   market : {"no", "asked", "watched"}, window : Nat, ignore : BOOLEAN]

\* A NewsFiredEvent row.
FiredEvent ==
  [at : Nat, ends : Nat, evidence : SUBSET Articles, linked : BOOLEAN,
   status : {"none", "handled"},
   action : {"none", "window_expired", "ignore", "workflow_run_missing", "cancelled",
             "no_pending_approvals"}]

ASSUME NewsAssumption ==
  /\ Portfolios \subseteq [Specs -> Terms]
  /\ Says \in [Articles -> SUBSET Verdicts]
  /\ Lookback \in Nat /\ BatchSize \in Nat \ {0} /\ DbAhead \in Nat
  /\ MaxTime \in Nat /\ MaxCrashes \in Nat
  /\ IsFiniteSet(Specs) /\ IsFiniteSet(Articles)
  /\ None \notin Nat \cup Verdicts \cup SpecStates \cup Specs \cup FiredEvent

VARIABLES
  clock,
  terms,     \* of each spec
  state,     \* NewsEventSpec.state
  arrived,   \* NewsArticle.fetched_at, by the database's clock; None before
  row,       \* NewsArticleClassification.classifier_verdict, per spec and article
  fired,     \* the NewsFiredEvent row of each spec, None before
  runs,      \* how many workflow runs each spec has started
  approval,  \* of the spec's run
  tick,      \* the funnel job
  feed,      \* the evaluator's registrations: "armed" once the last price is under
  scan,      \* the specs a reconcile pass has read, None between two passes
  ws,        \* the fire handler of the price feed
  watch,     \* what a retraction scan has read, None between two scans
  crashes

tables == <<terms, state, arrived, row, fired, runs, approval>>
vars == <<clock, tables, tick, feed, scan, ws, watch, crashes>>

RowStates == {"none", "pending"} \cup Verdicts
NoDrafts == [s \in Specs |-> [a \in Articles |-> None]]
Forgotten == [s \in Specs |-> None]
Idle == [pc |-> "idle", batch |-> <<>>, drafts |-> NoDrafts, mem |-> Forgotten]
NoFire == [pc |-> "idle", spec |-> None, mem |-> None]

\* create_spec_from_parsed: a Tier 3 spec waits for the user's answers; a spec
\* made from a market's page does not.
Init ==
  /\ clock = 0
  /\ terms \in Portfolios
  /\ state = [s \in Specs |->
       IF terms[s].tier = 3 /\ terms[s].market # "watched" THEN "pending_disambiguation" ELSE "draft"]
  /\ arrived = [a \in Articles |-> None]
  /\ row = [s \in Specs |-> [a \in Articles |-> "none"]]
  /\ fired = [s \in Specs |-> None]
  /\ runs = [s \in Specs |-> 0]
  /\ approval = [s \in Specs |-> "none"]
  /\ tick = Idle
  /\ feed = [s \in Specs |-> "off"]
  /\ scan = None
  /\ ws = NoFire
  /\ watch = None
  /\ crashes = 0

Pass ==
  /\ clock < MaxTime
  /\ clock' = clock + 1
  /\ UNCHANGED <<tables, tick, feed, scan, ws, watch, crashes>>

-----------------------------------------------------------------------------
(* The user's requests *)

Move(s, from, to) ==
  /\ state[s] \in from
  /\ state' = [state EXCEPT ![s] = to]
  /\ UNCHANGED <<clock, terms, arrived, row, fired, runs, approval, tick, feed, scan, ws,
                 watch, crashes>>

\* record_answer, on the last question.
Answer(s) == Move(s, {"pending_disambiguation"}, "draft")
CancelFired(s) == Move(s, {"pending_disambiguation", "draft", "active", "fired"}, "cancelled")

Activate(s) == Move(s, {"draft"}, "active")

Cancel(s) == Move(s, {"pending_disambiguation", "draft", "active"}, "cancelled")

-----------------------------------------------------------------------------
(* Ingest *)

\* find_near_dup: an earlier article carries the same headline.
NearDup(a) == \E b \in Articles : arrived[b] # None /\ Story[b] = Story[a]

\* apply_stage_2_for_article, for one spec.
Passes(s, a) == state[s] = "active" /\ a \in terms[s].keywords

\* _persist_items: the article and its rows, one per active spec whose keywords
\* it passes, in one transaction.  The columns of both default to the
\* database's clock.
Ingest(a) ==
  /\ arrived[a] = None
  /\ arrived' = [arrived EXCEPT ![a] = clock + DbAhead]
  /\ row' = [s \in Specs |->
       IF Passes(s, a) /\ ~NearDup(a)
         THEN [row[s] EXCEPT ![a] = "pending"] ELSE row[s]]
  /\ UNCHANGED <<clock, terms, state, fired, runs, approval, tick, feed, scan, ws, watch,
                 crashes>>

-----------------------------------------------------------------------------
(* Adding up *)

\* The articles with verdict v that a session sees inside the lookback window.
Judged(seen, s, v) ==
  {a \in Articles : seen[s][a] = v /\ arrived[a] # None /\ arrived[a] + Lookback >= clock}

SourcesOf(as) == {Source[a] : a \in as}
AtLeastTwo(n) == IF n < 2 THEN 2 ELSE n

PrimaryYes(seen, s) == {a \in Judged(seen, s, "YES") : Source[a] \in terms[s].primary}
SecondaryYes(seen, s) == Judged(seen, s, "YES") \ PrimaryYes(seen, s)

\* The market's price over the threshold is one more source.
Confirming(seen, s, signal) ==
  Cardinality(SourcesOf(SecondaryYes(seen, s))) + (IF signal = "over" THEN 1 ELSE 0)

Conflict(seen, s, signal) ==
  \/ Judged(seen, s, "NO") \cup Judged(seen, s, "RETRACTION") # {}
  \/ signal = "under"

Consensus(seen, s, signal) ==
  Confirming(seen, s, signal) >= AtLeastTwo(terms[s].confirmations + 1)

\* evaluate_firing
Rule(seen, s, signal) ==
  CASE terms[s].tier = 1 -> PrimaryYes(seen, s) # {}
    [] terms[s].tier = 2 -> PrimaryYes(seen, s) # {} \/ Consensus(seen, s, signal)
    [] terms[s].tier = 3 ->
         /\ ~(terms[s].hold /\ Conflict(seen, s, signal))
         /\ IF terms[s].primary = {} THEN Consensus(seen, s, signal)
            ELSE /\ PrimaryYes(seen, s) # {}
                 /\ Confirming(seen, s, signal) >= terms[s].confirmations

AtMost(n, m) == IF n < m THEN n ELSE m
Samples(as, n) == {ev \in SUBSET as : Cardinality(ev) = AtMost(n, Cardinality(as))}

\* supporting_classification_ids: as many rows as the rule asks for, in whatever
\* order the database returns them.
Evidence(seen, s) ==
  LET first == Samples(PrimaryYes(seen, s), 1) IN
  IF terms[s].tier = 3 /\ terms[s].primary # {}
    THEN {p \cup q : p \in first, q \in Samples(SecondaryYes(seen, s), terms[s].confirmations)}
  ELSE IF PrimaryYes(seen, s) # {} THEN first
  ELSE Samples(SecondaryYes(seen, s), AtLeastTwo(terms[s].confirmations + 1))

-----------------------------------------------------------------------------
(* Firing *)

\* fire_spec up to its first commit: the audit row and the state, whatever the
\* state has become since the caller read it.
Record(s, evidence) ==
  /\ fired' = [fired EXCEPT ![s] =
       [at |-> clock, ends |-> clock + terms[s].window, evidence |-> evidence,
        linked |-> FALSE, status |-> "none", action |-> "none"]]
  /\ state' = [state EXCEPT ![s] = "fired"]

\* fire_external_event has created a run, or found the workflow inactive.
StartRun(s) == runs' = [runs EXCEPT ![s] = @ + 1]

\* The second commit joins the audit row and the run.
LinkRun(s) == fired' = [fired EXCEPT ![s].linked = TRUE]

-----------------------------------------------------------------------------
(* The funnel *)

Queue ==
  {p \in Specs \X Articles : row[p[1]][p[2]] = "pending" /\ state[p[1]] = "active"}

\* The oldest rows of the queue, at most a batch of them.
Batches ==
  LET n == AtMost(BatchSize, Cardinality(Queue))
      age(p) == arrived[p[2]] IN
  {q \in [1 .. n -> Queue] :
     /\ \A i, j \in 1 .. n : i < j => q[i] # q[j] /\ age(q[i]) <= age(q[j])
     /\ \A p \in Queue : (\E i \in 1 .. n : q[i] = p) \/ \A i \in 1 .. n : age(q[i]) <= age(p)}

FunnelKeeps == <<clock, terms, arrived, feed, scan, ws, watch, crashes>>

\* process_pending reads its batch, specs included.
LoadBatch ==
  /\ tick.pc = "idle" /\ Queue # {}
  /\ \E q \in Batches :
       tick' = [pc |-> "judge", batch |-> q, drafts |-> NoDrafts,
                mem |-> [s \in Specs |-> IF \E i \in DOMAIN q : q[i][1] = s THEN state[s] ELSE None]]
  /\ UNCHANGED <<state, row, fired, runs, approval, FunnelKeeps>>

AtRow == tick.pc = "judge" /\ tick.batch # <<>>
RowSpec == Head(tick.batch)[1]
RowArticle == Head(tick.batch)[2]

\* The session goes to the next row of its batch; a spec it has forgotten is
\* read again when the row's first stage needs it.
Advance(drafts, mem, current) ==
  LET rest == Tail(tick.batch) IN
  [pc |-> "judge", batch |-> rest, drafts |-> drafts,
   mem |-> IF rest = <<>> THEN mem
           ELSE [mem EXCEPT ![Head(rest)[1]] = IF @ = None THEN current[Head(rest)[1]] ELSE @]]

Drafted(s, a, v) == [tick.drafts EXCEPT ![s][a] = v]

\* What the session sees, and what its commit makes of the table.
Seen(drafts) ==
  [s \in Specs |-> [a \in Articles |-> IF drafts[s][a] # None THEN drafts[s][a] ELSE row[s][a]]]

\* The embedding service does not answer: the row stays in the queue.
Postpone ==
  /\ AtRow
  /\ tick' = Advance(tick.drafts, tick.mem, state)
  /\ UNCHANGED <<state, row, fired, runs, approval, FunnelKeeps>>

\* Too little similarity, or an exception on the way: the row leaves the queue
\* as unrelated and nothing is added up.
Dismiss ==
  /\ AtRow
  /\ tick' = Advance(Drafted(RowSpec, RowArticle, "UNRELATED"), tick.mem, state)
  /\ UNCHANGED <<state, row, fired, runs, approval, FunnelKeeps>>

DecideUnsaved(s, drafts, signal) ==
  \/ /\ ~Rule(Seen(drafts), s, signal) \/ fired[s] # None
     /\ tick' = Advance(drafts, tick.mem, state)
     /\ UNCHANGED <<state, row, fired>>
  \/ /\ Rule(Seen(drafts), s, signal) /\ fired[s] = None
     /\ \E evidence \in Evidence(Seen(drafts), s) : Record(s, evidence)
     /\ tick' = IF terms[s].workflow THEN [tick EXCEPT !.pc = "handoff", !.drafts = drafts]
                ELSE Advance(drafts, tick.mem, state')
     /\ UNCHANGED row

\* Stages 7 and 8: hold, or fire unless the spec has fired already.  The first
\* commit of the fire carries the batch's drafts along.
Decide(s, drafts, signal) ==
  \/ /\ ~Rule(Seen(drafts), s, signal) \/ fired[s] # None
     /\ tick' = Advance(drafts, tick.mem, state)
     /\ UNCHANGED <<state, row, fired>>
  \/ /\ Rule(Seen(drafts), s, signal) /\ fired[s] = None
     /\ \E evidence \in Evidence(Seen(drafts), s) : Record(s, evidence)
     /\ row' = Seen(drafts)
     /\ tick' = IF terms[s].workflow
                THEN [tick EXCEPT !.pc = "handoff", !.drafts = NoDrafts,
                                  !.mem = [Forgotten EXCEPT ![s] = "fired"]]
                ELSE Advance(NoDrafts, [Forgotten EXCEPT ![s] = "fired"], state')

ClassifyUnflushed ==
  /\ AtRow
  /\ \E v \in Says[RowArticle] :
       LET drafts == Drafted(RowSpec, RowArticle, v) IN
       IF tick.mem[RowSpec] = "active" /\ Rule(Seen(tick.drafts), RowSpec, "unknown")
         THEN Decide(RowSpec, tick.drafts, "unknown")
         ELSE tick' = Advance(drafts, tick.mem, state) /\ UNCHANGED <<state, row, fired>>
  /\ UNCHANGED <<runs, approval, FunnelKeeps>>

\* Stage 6 writes the verdict.  The spec's state is the one the session read
\* before the row's awaits, or earlier in the batch.
Classify ==
  /\ AtRow
  /\ \E v \in Says[RowArticle] :
       LET drafts == Drafted(RowSpec, RowArticle, v) IN
       IF tick.mem[RowSpec] # "active"
         THEN /\ tick' = Advance(drafts, tick.mem, state)
              /\ UNCHANGED <<state, row, fired>>
       ELSE IF terms[RowSpec].market # "no"
         THEN /\ tick' = [tick EXCEPT !.pc = "signal", !.drafts = drafts]
              /\ UNCHANGED <<state, row, fired>>
       ELSE Decide(RowSpec, drafts, "unknown")
  /\ UNCHANGED <<runs, approval, FunnelKeeps>>

\* evaluate_prediction_market_signal has answered.
Signal ==
  /\ tick.pc = "signal"
  /\ \E signal \in {"over", "under", "unknown"} : Decide(RowSpec, tick.drafts, signal)
  /\ UNCHANGED <<runs, approval, FunnelKeeps>>

Handoff ==
  /\ tick.pc = "handoff"
  /\ \/ StartRun(RowSpec) /\ tick' = [tick EXCEPT !.pc = "link"]
     \/ tick' = Advance(tick.drafts, tick.mem, state) /\ UNCHANGED runs
  /\ UNCHANGED <<state, row, fired, approval, FunnelKeeps>>

Link ==
  /\ tick.pc = "link"
  /\ LinkRun(RowSpec)
  /\ tick' = Advance(NoDrafts, Forgotten, state)
  /\ UNCHANGED <<state, row, runs, approval, FunnelKeeps>>

EndBatchUnsaved ==
  /\ tick.pc = "judge" /\ tick.batch = <<>>
  /\ tick' = Idle
  /\ UNCHANGED <<state, row, fired, runs, approval, FunnelKeeps>>

\* The end of the batch commits its verdicts.
EndBatch ==
  /\ tick.pc = "judge" /\ tick.batch = <<>>
  /\ row' = Seen(tick.drafts)
  /\ tick' = Idle
  /\ UNCHANGED <<state, fired, runs, approval, FunnelKeeps>>

-----------------------------------------------------------------------------
(* The price feed *)

FeedKeeps == <<clock, terms, arrived, row, approval, tick, watch, crashes>>

\* _reconcile_once reads the active specs in a thread, and registers them when
\* it is back on the loop.
ReconcileRead ==
  /\ scan = None
  /\ scan' = {s \in Specs : state[s] = "active" /\ terms[s].market = "watched"}
  /\ UNCHANGED <<state, fired, runs, feed, ws, FeedKeeps>>

\* A registration that is found again keeps its last price.
Registration(s) ==
  IF s \notin scan THEN "off" ELSE IF feed[s] = "off" THEN "waiting" ELSE feed[s]

ReconcileApply ==
  /\ scan # None
  /\ feed' = [s \in Specs |-> Registration(s)]
  /\ scan' = None
  /\ UNCHANGED <<state, fired, runs, ws, FeedKeeps>>

\* The first price after a registration is only a baseline, so a new
\* registration is like one whose last price was over.
Crossed(s, side) == feed[s] = "armed" /\ side = "over"

\* on_tick: a price that crosses the threshold takes the registration away and
\* calls the handler.
Price(s, side) ==
  /\ ws.pc = "idle" /\ feed[s] # "off"
  /\ IF Crossed(s, side)
       THEN /\ feed' = [feed EXCEPT ![s] = "off"]
            /\ ws' = [pc |-> "load", spec |-> s, mem |-> None]
       ELSE /\ feed' = [feed EXCEPT ![s] = IF side = "under" THEN "armed" ELSE "waiting"]
            /\ UNCHANGED ws
  /\ UNCHANGED <<state, fired, runs, scan, FeedKeeps>>

\* The handler reads the spec in a thread.
FeedLoad ==
  /\ ws.pc = "load"
  /\ ws' = [ws EXCEPT !.pc = "fire", !.mem = state[ws.spec]]
  /\ UNCHANGED <<state, fired, runs, feed, scan, FeedKeeps>>

FeedFireAgain ==
  /\ ws.pc = "fire"
  /\ IF ws.mem = "active"
       THEN /\ Record(ws.spec, {})
            /\ ws' = IF terms[ws.spec].workflow
                     THEN [ws EXCEPT !.pc = "handoff", !.mem = None] ELSE NoFire
       ELSE ws' = NoFire /\ UNCHANGED <<state, fired>>
  /\ UNCHANGED <<runs, feed, scan, FeedKeeps>>

FeedFireUnasked ==
  /\ ws.pc = "fire"
  /\ IF fired[ws.spec] = None
       THEN /\ Record(ws.spec, {})
            /\ ws' = IF terms[ws.spec].workflow
                     THEN [ws EXCEPT !.pc = "handoff", !.mem = None] ELSE NoFire
       ELSE ws' = NoFire /\ UNCHANGED <<state, fired>>
  /\ UNCHANGED <<runs, feed, scan, FeedKeeps>>

FeedFire ==
  /\ ws.pc = "fire"
  /\ IF ws.mem = "active" /\ fired[ws.spec] = None
       THEN /\ Record(ws.spec, {})
            /\ ws' = IF terms[ws.spec].workflow
                     THEN [ws EXCEPT !.pc = "handoff", !.mem = None] ELSE NoFire
       ELSE ws' = NoFire /\ UNCHANGED <<state, fired>>
  /\ UNCHANGED <<runs, feed, scan, FeedKeeps>>

FeedHandoff ==
  /\ ws.pc = "handoff"
  /\ \/ StartRun(ws.spec) /\ ws' = [ws EXCEPT !.pc = "link"]
     \/ ws' = NoFire /\ UNCHANGED runs
  /\ UNCHANGED <<state, fired, feed, scan, FeedKeeps>>

FeedLink ==
  /\ ws.pc = "link"
  /\ LinkRun(ws.spec)
  /\ ws' = NoFire
  /\ UNCHANGED <<state, runs, feed, scan, FeedKeeps>>

-----------------------------------------------------------------------------
(* The retraction watcher, and the approval it may reject *)

WatchKeeps == <<clock, terms, state, arrived, row, runs, tick, feed, scan, ws, crashes>>

\* scan_for_retractions reads the clock and the fired events still open.
Open == {s \in Specs : fired[s] # None /\ terms[s].window > 0 /\ fired[s].status = "none"}

WatchRead ==
  /\ watch = None /\ Open # {}
  /\ watch' = [now |-> clock, of |-> Open, linked |-> {s \in Open : fired[s].linked}]
  /\ UNCHANGED <<fired, approval, WatchKeeps>>

\* A RETRACTION whose row was created after the spec fired.
Retracted(s) == \E a \in Articles : row[s][a] = "RETRACTION" /\ arrived[a] > fired[s].at

\* handle_one_retraction: the run it knows of is the one it read.
ActionOn(s) ==
  IF terms[s].ignore THEN "ignore"
  ELSE IF s \notin watch.linked THEN "workflow_run_missing"
  ELSE IF approval[s] = "open" THEN "cancelled"
  ELSE "no_pending_approvals"

OutcomeOfRetraction(s) == IF Retracted(s) THEN ActionOn(s) ELSE "none"

Outcome(s) ==
  IF fired[s].ends < watch.now THEN "window_expired"
  ELSE IF Retracted(s) THEN ActionOn(s)
  ELSE "none"

WatchHandle ==
  /\ watch # None
  /\ fired' = [s \in Specs |->
       IF s \in watch.of /\ Outcome(s) # "none"
         THEN [fired[s] EXCEPT !.status = "handled", !.action = Outcome(s)] ELSE fired[s]]
  /\ approval' = [s \in Specs |->
       IF s \in watch.of /\ Outcome(s) = "cancelled" THEN "rejected" ELSE approval[s]]
  /\ watch' = None
  /\ UNCHANGED WatchKeeps

\* The engine reaches the gate of the run's order; the user answers.  Followed
\* only where a retraction may come in between.
OpenApproval(s) ==
  /\ runs[s] > 0 /\ approval[s] = "none" /\ terms[s].window > 0
  /\ approval' = [approval EXCEPT ![s] = "open"]
  /\ UNCHANGED <<fired, watch, WatchKeeps>>

AnswerApproval(s) ==
  /\ approval[s] = "open"
  /\ \E answer \in {"approved", "rejected"} : approval' = [approval EXCEPT ![s] = answer]
  /\ UNCHANGED <<fired, watch, WatchKeeps>>

-----------------------------------------------------------------------------

\* The process dies: sessions roll back, registrations are gone.
Crash ==
  /\ crashes < MaxCrashes
  /\ crashes' = crashes + 1
  /\ tick' = Idle /\ ws' = NoFire /\ scan' = None /\ watch' = None
  /\ feed' = [s \in Specs |-> "off"]
  /\ UNCHANGED <<clock, tables>>

FunnelStep ==
  Postpone \/ Dismiss \/ Classify \/ Signal \/ Handoff \/ Link \/ EndBatch

Next ==
  \/ Pass \/ Crash
  \/ \E s \in Specs : Answer(s) \/ Activate(s) \/ Cancel(s) \/ OpenApproval(s) \/ AnswerApproval(s)
  \/ \E a \in Articles : Ingest(a)
  \/ LoadBatch \/ FunnelStep
  \/ ReconcileRead \/ ReconcileApply \/ FeedLoad \/ FeedFire \/ FeedHandoff \/ FeedLink
  \/ \E s \in Specs, side \in {"under", "over"} : Price(s, side)
  \/ WatchRead \/ WatchHandle

Spec == Init /\ [][Next]_vars

\* Time passes, the periodic jobs run, and a row that comes up again and again
\* is not put off for ever: the services behind the funnel come back.
Fairness ==
  /\ WF_vars(Pass)
  /\ WF_vars(LoadBatch \/ FunnelStep) /\ SF_vars(Dismiss \/ Classify)
  /\ WF_vars(WatchRead \/ WatchHandle)

FairSpec == Spec /\ Fairness

-----------------------------------------------------------------------------
(* Properties *)

\* The types of the tables and of what the jobs keep in memory.
TypeOK ==
  /\ clock \in Nat /\ crashes \in Nat
  /\ terms \in [Specs -> Terms]
  /\ state \in [Specs -> SpecStates]
  /\ arrived \in [Articles -> Nat \cup {None}]
  /\ row \in [Specs -> [Articles -> RowStates]]
  /\ \A s \in Specs : fired[s] # None => fired[s] \in FiredEvent
  /\ runs \in [Specs -> Nat]
  /\ approval \in [Specs -> {"none", "open", "approved", "rejected"}]
  /\ tick.pc \in {"idle", "judge", "signal", "handoff", "link"}
  /\ tick.batch \in Seq(Specs \X Articles)
  /\ tick.drafts \in [Specs -> [Articles -> Verdicts \cup {None}]]
  /\ tick.mem \in [Specs -> SpecStates \cup {None}]
  /\ feed \in [Specs -> {"off", "waiting", "armed"}]
  /\ ws.pc \in {"idle", "load", "fire", "handoff", "link"}

\* A spec starts at most one run, out of a recorded fire and never without one,
\* whether the funnel and the price feed reach it together, a second reconcile
\* pass registers it again, or a crash comes between the commits.
RunsAreAudited ==
  \A s \in Specs :
    /\ runs[s] <= 1
    /\ runs[s] > 0 => fired[s] # None
    /\ fired[s] # None /\ fired[s].linked => runs[s] = 1

\* The state says "fired" exactly when the audit row is there: a late request
\* does not put a fired spec back, and a fired spec is not fired again.
AuditMatchesState ==
  \A s \in Specs : state[s] = "fired" <=> fired[s] # None

\* The audit row stands on verdicts that are in the table, though they were
\* drafts of a batch that may never have come to its end.
EvidenceIsDurable ==
  \A s \in Specs : fired[s] # None =>
    /\ \A a \in fired[s].evidence : row[s][a] = "YES"
    /\ fired[s].evidence = {} => terms[s].market = "watched"

\* An active spec is never left with a rule its verdicts satisfy: whatever
\* commits them, and wherever the batch stops, the spec has been decided on
\* with them.  A held Tier 3 spec is the exception: a conflict that grows old
\* stops holding it back, and nobody looks again.
NoMissedFire ==
  \A s \in Specs :
    (state[s] = "active" /\ ~(terms[s].tier = 3 /\ terms[s].hold)) => ~Rule(row, s, "unknown")

\* The queue of a spec that stays active is empty in the end, also when its
\* oldest rows are put off and when a crash takes a batch away.
Waiting(s) == state[s] = "active" /\ \E a \in Articles : row[s][a] = "pending"
QueueDrains == \A s \in Specs : Waiting(s) ~> ~Waiting(s)

\* The watcher is done with every fired event in the end.
WindowCloses ==
  \A s \in Specs :
    (fired[s] # None /\ terms[s].window > 0 /\ fired[s].ends < MaxTime)
      ~> (fired[s] # None /\ fired[s].status = "handled")

\* A cancelled spec is brought back by a fire only when the funnel or the feed's
\* handler had read it before the cancel: the request is lost to a fire that was
\* on its way, and to nothing else.
CancelLostOnlyInFlight ==
  [][\A s \in Specs : (state[s] = "cancelled" /\ state'[s] = "fired") =>
       \/ tick.pc # "idle" /\ tick.mem[s] = "active"
       \/ ws.spec = s /\ ws.mem = "active"]_vars
=============================================================================
