--------------------------- MODULE WorkflowTriggers ---------------------------
(***************************************************************************)
(* When a workflow fires: its life cycle (routers/workflows.py), the poll  *)
(* of its schedules and the watchers of its other triggers                 *)
(* (workflows/scheduler.py), up to the run rows they create.               *)
(*                                                                         *)
(* The clock is a count of instants; a reading n is taken strictly after   *)
(* instant n and before instant n + 1.  A watched trigger has occurrences, *)
(* each named by the instant from which it can be observed: a macro or     *)
(* earnings release, an option expiry day, the opening of an IPO, a press  *)
(* release, the first time an exit branch holds.                           *)
(*                                                                         *)
(* One action is one transaction of the code.  Between two of them a       *)
(* polling job keeps what it has read (`job`), and everyone else may act.  *)
(***************************************************************************)
EXTENDS Integers, Sequences, FiniteSets

CONSTANTS
  Workflows,
  Plans,       \* the trigger lists a user may save, in step_index order
  Expiries,    \* the expires_at a user may set, None among them
  ListingEnd,  \* an IPO's close date and one trading day more
  MaxTime,     \* bound: the last reading of the clock
  MaxVersion,  \* bound: edits of a workflow
  MaxCrashes,  \* bound: process crashes
  None

Scheduled == {"cron", "once"}
Watched == {"macro", "earnings", "event", "expiry", "exit", "ipo"}

\* A trigger step: its kind, and the instants of its schedule or occurrences.
Trigger == [kind : Scheduled \cup Watched, at : SUBSET (1 .. MaxTime)]

ASSUME TriggerAssumption ==
  /\ MaxTime \in Nat /\ MaxVersion \in Nat \ {0} /\ MaxCrashes \in Nat /\ ListingEnd \in Nat
  /\ None \notin Nat
  /\ Plans \subseteq Seq(Trigger)
  /\ Expiries \subseteq Nat \cup {None}

\* The periodic jobs: one for schedules, one per family of watchers.
JobOf(kind) == IF kind \in {"event", "expiry", "exit"} THEN "watch" ELSE kind
Watchers == {JobOf(k) : k \in Watched}
Jobs == Watchers \cup {"poll"}

VARIABLES
  now,
  status,       \* Workflow.status, "deleted" once the row is gone
  version,      \* Workflow.version
  steps,        \* its trigger steps
  next_run,     \* WorkflowStep.next_run_at, per step
  next_run_at,  \* Workflow.next_run_at, the summary
  expires_at,   \* Workflow.expires_at
  latch,        \* the fire-once key in the step's config, per step
  runs,         \* WorkflowRun rows
  job,          \* what each periodic job is doing
  crashes

rowVars == <<status, version, steps, next_run, next_run_at, expires_at, latch>>
vars == <<now, rowVars, runs, job, crashes>>

StepsOf(wf) == DOMAIN steps[wf]
Deadline == Nat \cup {None}

MinOf(S) == CHOOSE x \in S : \A y \in S : x <= y
Earliest(S) == IF S \ {None} = {} THEN None ELSE MinOf(S \ {None})
Unarmed(plan) == [i \in DOMAIN plan |-> None]

\* What a job keeps of a step it has read: the trigger and its fire-once key as
\* they were, and the instant or occurrence to fire for.  `seen`, the version
\* it read, is history: the code does not keep it.
Entry(wf, i, occ) ==
  [wf |-> wf, step |-> i, seen |-> version[wf], trigger |-> steps[wf][i],
   had |-> latch[wf][i], occ |-> occ]
NoEntry == [wf |-> None]

Idle == [pc |-> "idle", fired_at |-> 0, todo |-> {}, cur |-> NoEntry]

\* create_workflow: a draft.
Init ==
  /\ now = 0
  /\ status = [wf \in Workflows |-> "draft"]
  /\ version = [wf \in Workflows |-> 1]
  /\ steps \in [Workflows -> Plans]
  /\ next_run = [wf \in Workflows |-> Unarmed(steps[wf])]
  /\ next_run_at = [wf \in Workflows |-> None]
  /\ expires_at \in [Workflows -> Expiries]
  /\ latch = [wf \in Workflows |-> Unarmed(steps[wf])]
  /\ runs = {}
  /\ job = [j \in Jobs |-> Idle]
  /\ crashes = 0

-----------------------------------------------------------------------------
(* Arming a schedule *)

\* The next instant strictly after now; a one-time schedule may be spent.
NextInstant(trigger) == Earliest({t \in trigger.at : t > now})

Armed(plan) ==
  [i \in DOMAIN plan |->
     IF plan[i].kind \in Scheduled THEN NextInstant(plan[i]) ELSE None]

\* Only spent one-time schedules are left.
SpentIsForgotten(plan) == FALSE

Spent(plan) ==
  LET scheduled == {i \in DOMAIN plan : plan[i].kind \in Scheduled} IN
  /\ scheduled # {}
  /\ \A i \in scheduled : plan[i].kind = "once" /\ NextInstant(plan[i]) = None

\* upsert_workflow_schedule of a workflow whose status is to be st.
Upsert(wf, st) ==
  LET armed == IF st = "active" THEN Armed(steps[wf]) ELSE Unarmed(steps[wf]) IN
  /\ status' = [status EXCEPT ![wf] =
                  IF st = "active" /\ Spent(steps[wf]) THEN "paused" ELSE st]
  /\ next_run' = [next_run EXCEPT ![wf] = armed]
  /\ next_run_at' = [next_run_at EXCEPT ![wf] = Earliest({armed[i] : i \in StepsOf(wf)})]

\* Past its expires_at a workflow is paused and disarmed.
Expired(wf, fired_at) == expires_at[wf] # None /\ expires_at[wf] <= fired_at

DeactivateTheSummaryOnly(wfs) ==
  /\ status' = [wf \in Workflows |-> IF wf \in wfs THEN "paused" ELSE status[wf]]
  /\ next_run_at' = [wf \in Workflows |-> IF wf \in wfs THEN None ELSE next_run_at[wf]]
  /\ UNCHANGED next_run

Deactivate(wfs) ==
  /\ status' = [wf \in Workflows |-> IF wf \in wfs THEN "paused" ELSE status[wf]]
  /\ next_run' = [wf \in Workflows |->
                    IF wf \in wfs THEN Unarmed(steps[wf]) ELSE next_run[wf]]
  /\ next_run_at' = [wf \in Workflows |-> IF wf \in wfs THEN None ELSE next_run_at[wf]]

-----------------------------------------------------------------------------
(* What a user does *)

Activate(wf) ==
  /\ status[wf] \in {"draft", "paused"}
  /\ Upsert(wf, "active")
  /\ UNCHANGED <<now, version, steps, expires_at, latch, runs, job, crashes>>

Pause(wf) ==
  /\ status[wf] \in {"draft", "active", "paused"}
  /\ Upsert(wf, "paused")
  /\ UNCHANGED <<now, version, steps, expires_at, latch, runs, job, crashes>>

Archive(wf) ==
  /\ status[wf] # "deleted"
  /\ Upsert(wf, "archived")
  /\ UNCHANGED <<now, version, steps, expires_at, latch, runs, job, crashes>>

\* patch_workflow with steps: new rows, unarmed.  The configs are the client's,
\* which may send back the fire-once keys it was shown.
PatchKeepingTheSchedule(wf, plan, expiry, keep) ==
  /\ status[wf] \in {"draft", "paused"} /\ version[wf] < MaxVersion
  /\ version' = [version EXCEPT ![wf] = @ + 1]
  /\ steps' = [steps EXCEPT ![wf] = plan]
  /\ latch' = [latch EXCEPT ![wf] = Unarmed(plan)]
  /\ expires_at' = [expires_at EXCEPT ![wf] = expiry]
  /\ UNCHANGED <<now, status, next_run, next_run_at, runs, job, crashes>>

Patch(wf, plan, expiry, keep) ==
  /\ status[wf] \in {"draft", "paused"}
  /\ version[wf] < MaxVersion
  /\ version' = [version EXCEPT ![wf] = @ + 1]
  /\ steps' = [steps EXCEPT ![wf] = plan]
  /\ next_run' = [next_run EXCEPT ![wf] = Unarmed(plan)]
  /\ latch' = [latch EXCEPT ![wf] =
       [i \in DOMAIN plan |->
          IF keep /\ i \in StepsOf(wf) /\ plan[i] = steps[wf][i] THEN @[i] ELSE None]]
  /\ expires_at' = [expires_at EXCEPT ![wf] = IF expiry # None THEN expiry ELSE @]
  /\ UNCHANGED <<now, status, next_run_at, runs, job, crashes>>

\* delete_workflow: its runs, its steps, and the row.
Delete(wf) ==
  /\ status[wf] # "deleted"
  /\ status' = [status EXCEPT ![wf] = "deleted"]
  /\ steps' = [steps EXCEPT ![wf] = <<>>]
  /\ next_run' = [next_run EXCEPT ![wf] = <<>>]
  /\ latch' = [latch EXCEPT ![wf] = <<>>]
  /\ next_run_at' = [next_run_at EXCEPT ![wf] = None]
  /\ runs' = {r \in runs : r.wf # wf}
  /\ UNCHANGED <<now, version, expires_at, job, crashes>>

-----------------------------------------------------------------------------
(* A run is created *)

SameFire(r, e) == r.wf = e.wf /\ r.seen = e.seen /\ r.step = e.step /\ r.occ = e.occ

\* The row.  `again`: the same fire has a run already.
Run(e, at) ==
  [wf |-> e.wf, seen |-> e.seen, step |-> e.step,
   occ |-> e.occ, at |-> at, again |-> \E r \in runs : SameFire(r, e)]

\* run_workflow, for any workflow that is not archived.  Runs made by hand from
\* the same version are not told apart.
RunNow(wf) ==
  /\ status[wf] \notin {"archived", "deleted"}
  /\ runs' = runs \cup {Run([wf |-> wf, seen |-> version[wf], step |-> 0, occ |-> 0], 0)}
  /\ UNCHANGED <<now, rowVars, job, crashes>>

-----------------------------------------------------------------------------
(* _poll_due_workflows *)

DueEntries(wf) ==
  {Entry(wf, i, next_run[wf][i]) :
     i \in {k \in StepsOf(wf) : next_run[wf][k] # None /\ next_run[wf][k] <= now}}

StartPollClaimingFirst ==
  LET due == UNION {DueEntries(wf) : wf \in {w \in Workflows : status[w] = "active"}} IN
  /\ job["poll"].pc = "idle" /\ due # {}
  /\ next_run' = [wf \in Workflows |->
                    IF DueEntries(wf) = {} THEN next_run[wf] ELSE Armed(steps[wf])]
  /\ job' = [job EXCEPT !["poll"] = [Idle EXCEPT !.pc = "fire", !.fired_at = now, !.todo = due]]
  /\ UNCHANGED <<now, status, version, steps, next_run_at, expires_at, latch, runs,
                 crashes>>

\* The expired workflows are paused; what is due is read.
StartPoll ==
  LET swept == {wf \in Workflows : status[wf] = "active" /\ Expired(wf, now)}
      live  == {wf \in Workflows : status[wf] = "active"} \ swept
      due   == UNION {DueEntries(wf) : wf \in live}
  IN
  /\ job["poll"].pc = "idle"
  /\ swept # {} \/ due # {}   \* otherwise the poll ends as it began
  /\ Deactivate(swept)
  /\ job' = [job EXCEPT !["poll"] =
       IF due = {} THEN Idle ELSE [Idle EXCEPT !.pc = "fire", !.fired_at = now, !.todo = due]]
  /\ UNCHANGED <<now, version, steps, expires_at, latch, runs, crashes>>

\* The job j is done with the entry e.
Done(j, e) ==
  LET rest == job[j].todo \ {e} IN
  [job EXCEPT ![j] =
     IF rest = {} THEN Idle
     ELSE [@ EXCEPT !.todo = rest, !.cur = NoEntry,
                    !.pc = IF j = "poll" THEN "fire" ELSE "scan"]]

\* _fire_one: every schedule of the workflow is armed anew.
FireOne(e) ==
  /\ job["poll"].pc = "fire" /\ e \in job["poll"].todo
  /\ job' = Done("poll", e)
  /\ \/ /\ status[e.wf] # "active"
        /\ UNCHANGED <<status, next_run, next_run_at, runs>>
     \/ /\ status[e.wf] = "active" /\ Expired(e.wf, job["poll"].fired_at)
        /\ Deactivate({e.wf}) /\ UNCHANGED runs
     \/ /\ status[e.wf] = "active" /\ ~Expired(e.wf, job["poll"].fired_at)
        /\ runs' = runs \cup {Run(e, now)}
        /\ Upsert(e.wf, "active")
  /\ UNCHANGED <<now, version, steps, expires_at, latch, crashes>>

-----------------------------------------------------------------------------
(* The watchers *)

\* Every watched step of every active workflow, with its config as it is now.
Scan(j) ==
  LET found == UNION {{Entry(wf, i, None) :
                         i \in {k \in StepsOf(wf) : /\ steps[wf][k].kind \in Watched
                                                    /\ JobOf(steps[wf][k].kind) = j}} :
                        wf \in {w \in Workflows : status[w] = "active"}}
  IN
  /\ j \in Watchers /\ job[j].pc = "idle" /\ found # {}
  /\ job' = [job EXCEPT ![j] = [Idle EXCEPT !.pc = "scan", !.fired_at = now, !.todo = found]]
  /\ UNCHANGED <<now, rowVars, runs, crashes>>

\* A release is looked up at the instant of the poll, the rest when it is
\* their turn.  Only the latest occurrence is looked at.
Observed(j, e) ==
  LET t == IF e.trigger.kind \in {"macro", "earnings"} THEN job[j].fired_at ELSE now
      past == {o \in e.trigger.at : o <= t}
  IN {o \in past : \A p \in past : p <= o}

\* Has the step fired for it, as far as its config told?
AlreadyFired(e, occ) ==
  IF e.trigger.kind \in {"exit", "ipo"} THEN e.had # None ELSE e.had = occ

\* Nothing to report: no occurrence, no confident match, no data, or old news.
PassOver(j, e) ==
  /\ j \in Watchers /\ job[j].pc = "scan" /\ e \in job[j].todo
  /\ job' = Done(j, e)
  /\ UNCHANGED <<now, rowVars, runs, crashes>>

Match(j, e, occ) ==
  /\ j \in Watchers /\ job[j].pc = "scan" /\ e \in job[j].todo
  /\ occ \in Observed(j, e) /\ ~AlreadyFired(e, occ)
  /\ job' = [job EXCEPT ![j].pc = "latch", ![j].todo = @ \ {e}, ![j].cur = [e EXCEPT !.occ = occ]]
  /\ UNCHANGED <<now, rowVars, runs, crashes>>

\* A writer finds the step by its workflow and index, whichever edit it is of;
\* under another kind of trigger the key has a name nobody reads.
SetLatch(e, key) ==
  latch' = IF e.step \in StepsOf(e.wf) /\ steps[e.wf][e.step].kind = e.trigger.kind
           THEN [latch EXCEPT ![e.wf][e.step] = key] ELSE latch

\* The key is stored before the run exists.  The writer the expiry watcher uses
\* stores numbers and maps of numbers, and its key is a date.
PersistLatch(j) ==
  LET e == job[j].cur IN
  /\ job[j].pc = "latch"
  /\ IF e.trigger.kind = "expiry" THEN UNCHANGED latch ELSE SetLatch(e, e.occ)
  /\ job' = [job EXCEPT ![j].pc = "fire"]
  /\ UNCHANGED <<now, status, version, steps, next_run, next_run_at, expires_at, runs, crashes>>

AfterClearingAlways(j, e, created) ==
  IF e.trigger.kind = "ipo" THEN [job EXCEPT ![j].pc = "expire"]
  ELSE IF e.trigger.kind \in {"macro", "earnings"} THEN [job EXCEPT ![j].pc = "clear"]
  ELSE Done(j, e)

AfterNotClearing(j, e, created) ==
  IF e.trigger.kind = "ipo" THEN [job EXCEPT ![j].pc = "expire"] ELSE Done(j, e)

\* What a watcher does once a run was created, or none was.
After(j, e, created) ==
  IF e.trigger.kind = "ipo" THEN [job EXCEPT ![j].pc = "expire"]
  ELSE IF ~created /\ e.trigger.kind \in {"macro", "earnings"} THEN [job EXCEPT ![j].pc = "clear"]
  ELSE Done(j, e)

\* _fire_watch_run
FireWatch(j) ==
  LET e == job[j].cur IN
  /\ job[j].pc = "fire" /\ j # "poll"
  /\ \/ /\ status[e.wf] # "active"
        /\ job' = After(j, e, FALSE)
        /\ UNCHANGED <<status, next_run, next_run_at, runs>>
     \/ /\ status[e.wf] = "active" /\ Expired(e.wf, job[j].fired_at)
        /\ Deactivate({e.wf})
        /\ job' = After(j, e, FALSE) /\ UNCHANGED runs
     \/ /\ status[e.wf] = "active" /\ ~Expired(e.wf, job[j].fired_at)
        /\ runs' = runs \cup {Run(e, now)}
        /\ job' = After(j, e, TRUE)
        /\ UNCHANGED <<status, next_run, next_run_at>>
  /\ UNCHANGED <<now, version, steps, expires_at, latch, crashes>>

\* _clear_macro_fired, _clear_earnings_fired: the occurrence may fire later.
ClearLatch(j) ==
  LET e == job[j].cur IN
  /\ job[j].pc = "clear"
  /\ SetLatch(e, None)
  /\ job' = Done(j, e)
  /\ UNCHANGED <<now, status, version, steps, next_run, next_run_at, expires_at, runs, crashes>>

\* _persist_workflow_expires_at: after the IPO the workflow is over.
SetExpiry(j) ==
  LET e == job[j].cur IN
  /\ job[j].pc = "expire"
  /\ expires_at' = [expires_at EXCEPT ![e.wf] =
       IF status[e.wf] # "deleted" THEN Earliest({@, ListingEnd}) ELSE @]
  /\ job' = Done(j, e)
  /\ UNCHANGED <<now, status, version, steps, next_run, next_run_at, latch, runs, crashes>>

-----------------------------------------------------------------------------

Tick ==
  /\ now < MaxTime
  /\ now' = now + 1
  /\ UNCHANGED <<rowVars, runs, job, crashes>>

\* The process restarts: what the jobs were doing is gone.  (The runs that had
\* begun are WorkflowEngine's.)
Crash ==
  /\ crashes < MaxCrashes
  /\ crashes' = crashes + 1
  /\ job' = [j \in Jobs |-> Idle]
  /\ UNCHANGED <<now, rowVars, runs>>

UserStep ==
  \E wf \in Workflows :
    \/ Activate(wf) \/ Pause(wf) \/ Archive(wf) \/ Delete(wf) \/ RunNow(wf)
    \/ \E plan \in Plans, expiry \in Expiries, keep \in BOOLEAN : Patch(wf, plan, expiry, keep)

PollStep == StartPoll \/ \E e \in job["poll"].todo : FireOne(e)

WatchStep(j) ==
  \/ Scan(j) \/ PersistLatch(j) \/ FireWatch(j) \/ ClearLatch(j) \/ SetExpiry(j)
  \/ \E e \in job[j].todo : PassOver(j, e) \/ \E occ \in e.trigger.at : Match(j, e, occ)

Next ==
  \/ UserStep \/ PollStep \/ Tick \/ Crash
  \/ \E j \in Watchers : WatchStep(j)

Spec == Init /\ [][Next]_vars

\* Time passes, and the jobs come round and finish what they began.
FairSpec ==
  /\ Spec
  /\ WF_vars(Tick) /\ WF_vars(PollStep)
  /\ \A j \in Watchers : WF_vars(WatchStep(j))

-----------------------------------------------------------------------------
(* Properties *)

Status == {"draft", "active", "paused", "archived", "deleted"}

\* Every variable keeps its type (models.py).
TypeOK ==
  /\ now \in 0 .. MaxTime
  /\ status \in [Workflows -> Status]
  /\ version \in [Workflows -> 1 .. MaxVersion]
  /\ \A wf \in Workflows :
       /\ steps[wf] \in Plans \cup {<<>>}
       /\ DOMAIN next_run[wf] = StepsOf(wf) /\ DOMAIN latch[wf] = StepsOf(wf)
       /\ next_run_at[wf] \in Deadline /\ expires_at[wf] \in Deadline
       /\ \A i \in StepsOf(wf) : next_run[wf][i] \in Deadline /\ latch[wf][i] \in Deadline
  /\ \A j \in Jobs : job[j].pc \in {"idle", "scan", "latch", "fire", "clear", "expire"}
  /\ crashes \in 0 .. MaxCrashes

\* Only an active workflow is armed, and its summary is the earliest of its
\* steps' instants: over activation, pauses, edits, expiry, fires and the
\* pause of a one-time agent, which the poll and the list of workflows rely on.
ArmedTogether ==
  \A wf \in Workflows :
    /\ next_run_at[wf] = Earliest({next_run[wf][i] : i \in StepsOf(wf)})
    /\ next_run_at[wf] # None => status[wf] = "active"

\* A schedule's instant and a watched occurrence fire at most one run of the
\* version of the steps they were read from: across slow polls, stale config
\* copies, pauses, edits and crashes (the fire-once keys, the order of latch
\* and fire, the re-arming inside _fire_one).  An option expiry is excepted: its
\* key is never stored (PersistLatch), and it fires at every poll of its day.
FiresOnce ==
  \A r \in runs :
    r.step # 0 /\ r.again /\ r.seen = version[r.wf] => steps[r.wf][r.step].kind = "expiry"

\* The key in a release trigger's config stands for a run, or for one its
\* watcher is about to create or give up (_clear_macro_fired): a release is not
\* skipped because a fire came to nothing.  A crash is the exception.
LatchMeansRun ==
  crashes = 0 =>
    \A wf \in Workflows : \A i \in StepsOf(wf) :
      steps[wf][i].kind \in {"macro", "earnings"} /\ latch[wf][i] # None =>
        \/ \E r \in runs : r.wf = wf /\ r.step = i /\ r.occ = latch[wf][i]
        \/ \E j \in Watchers : /\ job[j].pc \in {"fire", "clear"}
                               /\ job[j].cur.wf = wf /\ job[j].cur.step = i

Due(wf, i) ==
  /\ status[wf] = "active" /\ i \in StepsOf(wf)
  /\ next_run[wf][i] # None /\ next_run[wf][i] <= now

\* The step has had a run since the instant t.
ServedAt(rows, wf, i, t) == \E r \in rows : r.wf = wf /\ r.step = i /\ r.at >= t

\* An instant that comes while the workflow is active is followed by a run of
\* its step, unless the workflow is stopped first: also when a poll with stale
\* entries re-arms past it, and across a crash between the read and the fire.
DueIsServed ==
  \A wf \in Workflows : \A i \in 1 .. 2 : \A t \in 1 .. MaxTime :
    (Due(wf, i) /\ next_run[wf][i] = t) ~> (status[wf] # "active" \/ ServedAt(runs, wf, i, t))

\* An agent whose only trigger is a one-time schedule does not stay active
\* once its instant has passed (upsert_workflow_schedule's auto-pause).
OneTimeAgentEnds ==
  \A wf \in Workflows :
    (status[wf] = "active" /\ Len(steps[wf]) = 1 /\ steps[wf][1].kind = "once")
      ~> (status[wf] # "active")

\* scheduler.py:447: a workflow with two schedules fires once for each.  A fire
\* that re-arms the others does not drop one that is due.
SiblingsStillFire ==
  [][runs' # runs =>
       \A wf \in Workflows : \A i \in StepsOf(wf) :
         Due(wf, i) /\ i \in DOMAIN next_run'[wf] /\ next_run'[wf][i] # next_run[wf][i] =>
           \/ ServedAt(runs', wf, i, next_run[wf][i])
           \/ /\ status'[wf] = "active"
              /\ \E e \in job'["poll"].todo : e.wf = wf /\ e.step = i]_vars

=============================================================================
