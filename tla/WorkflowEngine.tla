---------------------------- MODULE WorkflowEngine ----------------------------
(***************************************************************************)
(* The workflow engine, with the two routers that act on a run behind its  *)
(* back: approvals and cancellation.                                       *)
(*                                                                         *)
(* A run is driven by an engine loop, a worker thread that executes the    *)
(* run's steps and commits after each.  A step that needs an approval      *)
(* pauses the run: the loop ends, and a decision starts another.  One      *)
(* action is one committed transaction, or one access to the process's     *)
(* memory (the cancel flags, the lock table, the task queue); a crash      *)
(* loses that memory and keeps the database.                               *)
(*                                                                         *)
(* A definition that stands just before another, under a longer name, is a *)
(* faulty variant of it that the runs must refute; the model uses none.    *)
(*                                                                         *)
(* The workflow's steps do not change while its runs are in flight, and    *)
(* the single-instance lock is the in-process one: the PostgreSQL advisory *)
(* lock takes its place where the database has one.                        *)
(***************************************************************************)
EXTENDS Integers, Sequences

CONSTANTS
  Runs,
  Workflows,
  Loops,         \* worker threads
  WorkflowOf,    \* the workflow of each run
  Plan,          \* the step kinds of each workflow's branch, in step_index order
  SingleInstance,\* the workflows with single_instance = true
  MaxRetries,    \* retry budget of each step kind
  Routes,        \* where the users' orders may go: their account mode, broker session
                 \*   and automation switch are read at every send
  MaxCrashes,    \* bound: process crashes
  None

Kinds == {"task", "condition", "skip_if", "gate", "order", "gated_order"}
Gated == {"gate", "gated_order"}   \* wait.approval, and requires_approval = true
Ordering == {"order", "gated_order"}

\* The paper account; a broker's connector, or the Kite helper where there is no
\* session; nowhere, the order being registered for its user to place.
AllRoutes == {"paper", "live", "registered"}

ASSUME PlanAssumption ==
  /\ WorkflowOf \in [Runs -> Workflows]
  /\ Plan \in [Workflows -> Seq(Kinds)]
  /\ SingleInstance \subseteq Workflows
  /\ MaxRetries \in [Kinds -> Nat]
  /\ MaxCrashes \in Nat
  /\ Routes \subseteq AllRoutes
  /\ None \notin Runs \cup Loops

VARIABLES
  run_status,    \* WorkflowRun.status ("absent" before the insert)
  step_status,   \* WorkflowRunStep.status, per run and step
  decision,      \* the latest WorkflowApproval of a run and step
  expired,       \*   has its expires_at passed?
  orders,        \* the orders opened for a run and step: their broker and key, in turn
  tasks,         \* loops handed to create_task that no thread has taken up
  loop,          \* what each worker thread is doing
  lock,          \* _PROCESS_LOCKS: the loop that holds each workflow's lock
  cancel_flags,  \* _CANCEL_FLAGS
  cancelling,    \* per run, the status a cancel request has read and not acted on,
                 \*   "direct" once it has only the row's status left to write
  crashes

database == <<run_status, step_status, decision, expired, orders>>
memory == <<tasks, loop, lock, cancel_flags, cancelling>>
vars == <<database, memory, crashes>>

Decided == {"approved", "rejected"}
Ended == {"succeeded", "failed", "cancelled"}
RunStatus == {"absent", "running", "awaiting_approval"} \cup Ended
StepStatus == {"absent", "running", "awaiting_approval", "succeeded", "skipped", "failed"}

PlanOf(r) == Plan[WorkflowOf[r]]
Kind(r, i) == PlanOf(r)[i]
StepsOf(r) == DOMAIN PlanOf(r)
StepIds == UNION {StepsOf(r) : r \in Runs}

Task(r, resuming) == [run |-> r, resuming |-> resuming]

\* A loop at pc, about to deal with step i.
LoopAt(r, resuming, pc, i) ==
  [run |-> r, resuming |-> resuming, pc |-> pc, step |-> i, attempt |-> 1,
   skip_next |-> FALSE, outcome |-> None]
NoLoop == LoopAt(None, FALSE, "idle", 1)

Init ==
  /\ run_status = [r \in Runs |-> "absent"]
  /\ step_status = [r \in Runs |-> [i \in StepIds |-> "absent"]]
  /\ decision = [r \in Runs |-> [i \in StepIds |-> "none"]]
  /\ expired = {}
  /\ orders = [r \in Runs |-> [i \in StepIds |-> <<>>]]
  /\ tasks = {}
  /\ loop = [w \in Loops |-> NoLoop]
  /\ lock = [wf \in Workflows |-> None]
  /\ cancel_flags = {}
  /\ cancelling = [r \in Runs |-> None]
  /\ crashes = 0

-----------------------------------------------------------------------------
(* A loop starts and ends *)

\* run_workflow, the webhook and the schedulers: the row, then create_task.
CreateRun(r) ==
  /\ run_status[r] = "absent"
  /\ run_status' = [run_status EXCEPT ![r] = "running"]
  /\ tasks' = tasks \cup {Task(r, FALSE)}
  /\ UNCHANGED <<step_status, decision, expired, orders, loop, lock, cancel_flags,
                 cancelling, crashes>>

\* A thread takes the task up and reads the run: an ended one is left alone,
\* and its cancel flag forgotten.
StartLoop(w, t) ==
  /\ loop[w].pc = "idle"
  /\ t \in tasks
  /\ tasks' = tasks \ {t}
  /\ \/ /\ run_status[t.run] \in {"running", "awaiting_approval"}
        /\ loop' = [loop EXCEPT ![w] = LoopAt(t.run, t.resuming, "lock", 1)]
        /\ UNCHANGED cancel_flags
     \/ /\ run_status[t.run] \notin {"running", "awaiting_approval"}
        /\ cancel_flags' = cancel_flags \ {t.run}
        /\ UNCHANGED loop
  /\ UNCHANGED <<database, lock, cancelling, crashes>>

Goto(w, pc) == loop' = [loop EXCEPT ![w].pc = pc]

\* The loop is going to end the run with this status.
Terminate(w, outcome) ==
  loop' = [loop EXCEPT ![w].pc = "terminate", ![w].outcome = outcome]

\* Tried once.  A first execution that finds it held gives up; a resumed run
\* goes on without it.
AcquireLockAnyway(w) ==
  LET wf == WorkflowOf[loop[w].run] IN
  /\ loop[w].pc = "lock"
  /\ lock' = IF wf \in SingleInstance THEN [lock EXCEPT ![wf] = w] ELSE lock
  /\ Goto(w, "boundary")
  /\ UNCHANGED <<database, tasks, cancel_flags, cancelling, crashes>>

AcquireLock(w) ==
  LET wf == WorkflowOf[loop[w].run] IN
  /\ loop[w].pc = "lock"
  /\ \/ /\ wf \notin SingleInstance
        /\ Goto(w, "boundary") /\ UNCHANGED lock
     \/ /\ wf \in SingleInstance /\ lock[wf] = None
        /\ lock' = [lock EXCEPT ![wf] = w]
        /\ Goto(w, "boundary")
     \/ /\ wf \in SingleInstance /\ lock[wf] # None
        /\ IF loop[w].resuming THEN Goto(w, "boundary") ELSE Terminate(w, "cancelled")
        /\ UNCHANGED lock
  /\ UNCHANGED <<database, tasks, cancel_flags, cancelling, crashes>>

\* _terminate: the status is written whatever the row holds by now.
WriteOutcome(w) ==
  /\ loop[w].pc = "terminate"
  /\ run_status' = [run_status EXCEPT ![loop[w].run] = loop[w].outcome]
  /\ Goto(w, "finally")
  /\ UNCHANGED <<step_status, decision, expired, orders, tasks, lock, cancel_flags,
                 cancelling, crashes>>

\* The finally clauses: the lock goes back, the cancel flag is forgotten.
EndLoopKeepsLock(w) ==
  /\ loop[w].pc = "finally"
  /\ cancel_flags' = cancel_flags \ {loop[w].run}
  /\ loop' = [loop EXCEPT ![w] = NoLoop]
  /\ UNCHANGED <<database, tasks, lock, cancelling, crashes>>

EndLoop(w) ==
  /\ loop[w].pc = "finally"
  /\ lock' = [wf \in Workflows |-> IF lock[wf] = w THEN None ELSE lock[wf]]
  /\ cancel_flags' = cancel_flags \ {loop[w].run}
  /\ loop' = [loop EXCEPT ![w] = NoLoop]
  /\ UNCHANGED <<database, tasks, cancelling, crashes>>

-----------------------------------------------------------------------------
(* Between two steps *)

SetStep(w, st) ==
  step_status' = [step_status EXCEPT ![loop[w].run][loop[w].step] = st]

NextStep(w, skip_next) ==
  loop' = [loop EXCEPT ![w] = [LoopAt(@.run, @.resuming, "boundary", @.step + 1)
                                 EXCEPT !.skip_next = skip_next]]

\* The loop is at the boundary before a step of its plan.
AtStep(w) == loop[w].pc = "boundary" /\ loop[w].step \in StepsOf(loop[w].run)
Flagged(w) == loop[w].run \in cancel_flags
Recorded(w) == step_status[loop[w].run][loop[w].step]

Untouched == UNCHANGED <<run_status, decision, expired, tasks, lock, cancel_flags,
                         cancelling, crashes>>

SeeCancel(w) ==
  /\ AtStep(w) /\ Flagged(w)
  /\ Terminate(w, "cancelled")
  /\ Untouched /\ UNCHANGED <<step_status, orders>>

OutOfTime(w) ==
  /\ AtStep(w) /\ ~Flagged(w)
  /\ Terminate(w, "failed")
  /\ Untouched /\ UNCHANGED <<step_status, orders>>

\* Done before the run was paused.
PassOver(w) ==
  /\ AtStep(w) /\ ~Flagged(w) /\ Recorded(w) \in {"succeeded", "skipped"}
  /\ NextStep(w, loop[w].skip_next)
  /\ Untouched /\ UNCHANGED <<step_status, orders>>

Ahead(w) == AtStep(w) /\ ~Flagged(w) /\ Recorded(w) \notin {"succeeded", "skipped"}

SkipStep(w) ==
  /\ Ahead(w) /\ loop[w].skip_next
  /\ SetStep(w, "skipped")
  /\ NextStep(w, FALSE)
  /\ Untouched /\ UNCHANGED orders

\* The step is persisted as running before its executor is called; an unknown
\* type, a bad config or a dangling reference fails it first.
EnterStep(w) ==
  /\ Ahead(w) /\ ~loop[w].skip_next
  /\ \/ SetStep(w, "running") /\ Goto(w, "attempt")
     \/ SetStep(w, "failed") /\ Terminate(w, "failed")
  /\ Untouched /\ UNCHANGED orders

AllDoneNoOutcome(w) ==
  /\ loop[w].pc = "boundary" /\ loop[w].step \notin StepsOf(loop[w].run)
  /\ Goto(w, "terminate")
  /\ Untouched /\ UNCHANGED <<step_status, orders>>

AllDone(w) ==
  /\ loop[w].pc = "boundary" /\ loop[w].step \notin StepsOf(loop[w].run)
  /\ Terminate(w, "succeeded")
  /\ Untouched /\ UNCHANGED <<step_status, orders>>

-----------------------------------------------------------------------------
(* One attempt at a step *)

KindAt(w) == Kind(loop[w].run, loop[w].step)
DecisionAtAnyStep(w) ==
  LET of == decision[loop[w].run] IN
  IF \E i \in DOMAIN of : of[i] = "approved" THEN "approved" ELSE of[loop[w].step]

DecisionAt(w) == decision[loop[w].run][loop[w].step]
Attempting(w, kinds) == loop[w].pc = "attempt" /\ ~Flagged(w) /\ KindAt(w) \in kinds

AttemptCancelled(w) ==
  /\ loop[w].pc = "attempt" /\ Flagged(w)
  /\ SetStep(w, "failed")
  /\ Terminate(w, "cancelled")
  /\ Untouched /\ UNCHANGED orders

\* The step's result is committed.
RecordSuccess(w, skip_next) ==
  /\ SetStep(w, "succeeded")
  /\ NextStep(w, skip_next)
  /\ Untouched /\ UNCHANGED orders

\* The executor raised: again while the budget lasts, then the step and the
\* run have failed.
Raise(w) ==
  /\ \/ /\ loop[w].attempt <= MaxRetries[KindAt(w)]
        /\ loop' = [loop EXCEPT ![w].attempt = @ + 1]
        /\ UNCHANGED step_status
     \/ /\ loop[w].attempt > MaxRetries[KindAt(w)]
        /\ SetStep(w, "failed")
        /\ Terminate(w, "failed")
  /\ Untouched

\* Steps whose effects are not modelled: fetches, notifications, a condition or
\* a skip_if that lets the run go on, an approval that was given.
Succeed(w) ==
  /\ \/ Attempting(w, {"task", "condition", "skip_if"})
     \/ Attempting(w, {"gate"}) /\ DecisionAt(w) = "approved"
  /\ RecordSuccess(w, FALSE)

SkipNext(w) == Attempting(w, {"skip_if"}) /\ RecordSuccess(w, TRUE)

\* A condition that does not hold ends the run, successfully.
ConditionFails(w) ==
  /\ Attempting(w, {"condition"})
  /\ SetStep(w, "succeeded")
  /\ Terminate(w, "succeeded")
  /\ Untouched /\ UNCHANGED orders

Fail(w) ==
  /\ Attempting(w, Kinds \ Gated) \/ (Attempting(w, Gated) /\ DecisionAt(w) \in Decided)
  /\ Raise(w)
  /\ UNCHANGED orders

\* _wf_crid: the key under which the broker knows the order, whatever the attempt.
CridPerAttempt(r, i, attempt) == <<r, i, attempt>>

Crid(r, i, attempt) == <<r, i>>

OrderIsDue(w) ==
  \/ Attempting(w, {"order"})
  \/ Attempting(w, {"gated_order"}) /\ DecisionAt(w) = "approved"

Opened(r, i, order) == \E n \in DOMAIN orders[r][i] : orders[r][i][n] = order

\* What a send leaves at the broker.  The paper broker answers a key it has seen
\* with the order it opened then; Kite "has no native request-id dedup", and every
\* send it accepts is an order.
Send(r, i, order) ==
  orders' = IF order.broker = "paper" /\ Opened(r, i, order) THEN orders
            ELSE [orders EXCEPT ![r][i] = Append(@, order)]

\* The order is opened; its answer, or the audit row written after it, may be lost
\* on the way back.
PlaceOrder(w) ==
  LET r == loop[w].run
      i == loop[w].step
  IN
  /\ OrderIsDue(w)
  /\ \E route \in Routes \ {"registered"} :
       Send(r, i, [broker |-> route, crid |-> Crid(r, i, loop[w].attempt)])
  /\ \/ Goto(w, "record") /\ Untouched /\ UNCHANGED step_status
     \/ Raise(w)

\* No order leaves: automation is off for the user.
RegisterOrder(w) ==
  /\ OrderIsDue(w) /\ "registered" \in Routes
  /\ Goto(w, "record")
  /\ Untouched /\ UNCHANGED <<step_status, orders>>

RecordOrder(w) == loop[w].pc = "record" /\ RecordSuccess(w, FALSE)

\* First touch of a gated step: a fresh approval row.  Then the step, then the
\* run, are committed as awaiting it.
AskApprovalAgain(w) ==
  /\ Attempting(w, Gated)
  /\ decision' = [decision EXCEPT ![loop[w].run][loop[w].step] = "pending"]
  /\ expired' = expired \ {<<loop[w].run, loop[w].step>>}
  /\ Goto(w, "pause_step")
  /\ UNCHANGED <<run_status, step_status, orders, tasks, lock, cancel_flags,
                 cancelling, crashes>>

AskApproval(w) ==
  /\ Attempting(w, Gated) /\ DecisionAt(w) \notin Decided
  /\ decision' = [decision EXCEPT ![loop[w].run][loop[w].step] = "pending"]
  /\ expired' = expired \ {<<loop[w].run, loop[w].step>>}
  /\ Goto(w, "pause_step")
  /\ UNCHANGED <<run_status, step_status, orders, tasks, lock, cancel_flags,
                 cancelling, crashes>>

PauseStep(w) ==
  /\ loop[w].pc = "pause_step"
  /\ SetStep(w, "awaiting_approval")
  /\ Goto(w, "pause_run")
  /\ Untouched /\ UNCHANGED orders

PauseRunUnwritten(w) ==
  /\ loop[w].pc = "pause_run"
  /\ Goto(w, "finally")
  /\ UNCHANGED <<database, tasks, lock, cancel_flags, cancelling, crashes>>

PauseRunGoesOn(w) ==
  /\ loop[w].pc = "pause_run"
  /\ run_status' = [run_status EXCEPT ![loop[w].run] = "awaiting_approval"]
  /\ NextStep(w, FALSE)
  /\ UNCHANGED <<step_status, decision, expired, orders, tasks, lock, cancel_flags,
                 cancelling, crashes>>

PauseRun(w) ==
  /\ loop[w].pc = "pause_run"
  /\ run_status' = [run_status EXCEPT ![loop[w].run] = "awaiting_approval"]
  /\ Goto(w, "finally")
  /\ UNCHANGED <<step_status, decision, expired, orders, tasks, lock, cancel_flags,
                 cancelling, crashes>>

-----------------------------------------------------------------------------
(* The routers *)

\* decide_approval: refused once decided or expired.  The run's own status is
\* not looked at.
DecideAgain(r, i, d) ==
  /\ decision[r][i] # "none" /\ <<r, i>> \notin expired
  /\ decision' = [decision EXCEPT ![r][i] = d]
  /\ run_status' = [run_status EXCEPT ![r] = IF d = "rejected" THEN "cancelled" ELSE "running"]
  /\ tasks' = IF d = "rejected" THEN tasks ELSE tasks \cup {Task(r, TRUE)}
  /\ UNCHANGED <<step_status, expired, orders, loop, lock, cancel_flags, cancelling,
                 crashes>>

Decide(r, i, d) ==
  /\ decision[r][i] = "pending" /\ <<r, i>> \notin expired
  /\ decision' = [decision EXCEPT ![r][i] = d]
  /\ \/ /\ d = "rejected"
        /\ run_status' = [run_status EXCEPT ![r] = "cancelled"]
        /\ UNCHANGED tasks
     \/ /\ d = "approved"
        /\ run_status' = [run_status EXCEPT ![r] = "running"]
        /\ tasks' = tasks \cup {Task(r, TRUE)}
  /\ UNCHANGED <<step_status, expired, orders, loop, lock, cancel_flags, cancelling,
                 crashes>>

Expire(r, i) ==
  /\ decision[r][i] = "pending" /\ <<r, i>> \notin expired
  /\ expired' = expired \cup {<<r, i>>}
  /\ UNCHANGED <<run_status, step_status, decision, orders, memory, crashes>>

\* post_cancel_run reads the row: nothing to do for an ended run.
ReadForCancel(r) ==
  /\ cancelling[r] = None
  /\ run_status[r] \in {"running", "awaiting_approval"}
  /\ cancelling' = [cancelling EXCEPT ![r] = run_status[r]]
  /\ UNCHANGED <<database, tasks, loop, lock, cancel_flags, crashes>>

\* The flag is for an active loop; a run that was read as paused is closed here.
FlagCancel(r) ==
  /\ cancelling[r] \in {"running", "awaiting_approval"}
  /\ cancel_flags' = cancel_flags \cup {r}
  /\ cancelling' = [cancelling EXCEPT ![r] = IF @ = "running" THEN None ELSE "direct"]
  /\ UNCHANGED <<database, tasks, loop, lock, crashes>>

DirectCancel(r) ==
  /\ cancelling[r] = "direct"
  /\ cancelling' = [cancelling EXCEPT ![r] = None]
  /\ run_status' = [run_status EXCEPT ![r] = "cancelled"]
  /\ UNCHANGED <<step_status, decision, expired, orders, tasks, loop, lock,
                 cancel_flags, crashes>>

\* The process dies and comes back: the database is all that is left.
Crash ==
  /\ crashes < MaxCrashes
  /\ crashes' = crashes + 1
  /\ tasks' = {} /\ cancel_flags' = {}
  /\ cancelling' = [r \in Runs |-> None]
  /\ loop' = [w \in Loops |-> NoLoop]
  /\ lock' = [wf \in Workflows |-> None]
  /\ UNCHANGED database

-----------------------------------------------------------------------------
LoopStep(w) ==
  \/ AcquireLock(w) \/ WriteOutcome(w) \/ EndLoop(w)
  \/ SeeCancel(w) \/ OutOfTime(w) \/ PassOver(w) \/ SkipStep(w) \/ EnterStep(w)
  \/ AllDone(w)
  \/ AttemptCancelled(w) \/ Succeed(w) \/ SkipNext(w) \/ ConditionFails(w) \/ Fail(w)
  \/ PlaceOrder(w) \/ RegisterOrder(w) \/ RecordOrder(w)
  \/ AskApproval(w) \/ PauseStep(w) \/ PauseRun(w)

Next ==
  \/ \E r \in Runs : CreateRun(r) \/ ReadForCancel(r) \/ FlagCancel(r) \/ DirectCancel(r)
  \/ \E w \in Loops, t \in tasks : StartLoop(w, t)
  \/ \E w \in Loops : LoopStep(w)
  \/ \E r \in Runs, i \in StepIds, d \in Decided : Decide(r, i, d)
  \/ \E r \in Runs, i \in StepIds : Expire(r, i)
  \/ Crash

Spec == Init /\ [][Next]_vars

\* A thread that is scheduled goes on; asyncio.to_thread's queue serves every
\* task; a request that was begun is finished.
Fairness ==
  /\ \A w \in Loops : WF_vars(LoopStep(w))
  /\ \A r \in Runs, resuming \in BOOLEAN :
       SF_vars(\E w \in Loops : StartLoop(w, Task(r, resuming)))
  /\ \A r \in Runs : WF_vars(FlagCancel(r) \/ DirectCancel(r))

FairSpec == Spec /\ Fairness

-----------------------------------------------------------------------------
(* Properties *)

\* A key is made of the parts it names.
Order == [broker : {"paper", "live"}, crid : Seq(Runs \cup StepIds)]

\* Every variable keeps its type (models.py, RunStatus and StepStatus).
TypeOK ==
  /\ run_status \in [Runs -> RunStatus]
  /\ step_status \in [Runs -> [StepIds -> StepStatus]]
  /\ decision \in [Runs -> [StepIds -> {"none", "pending"} \cup Decided]]
  /\ expired \subseteq Runs \X StepIds
  /\ orders \in [Runs -> [StepIds -> Seq(Order)]]
  /\ tasks \subseteq {Task(r, b) : r \in Runs, b \in BOOLEAN}
  /\ \A w \in Loops : loop[w].pc # "idle" => loop[w].run \in Runs
  /\ lock \in [Workflows -> Loops \cup {None}]
  /\ cancel_flags \subseteq Runs
  /\ cancelling \in [Runs -> {None, "running", "awaiting_approval", "direct"}]
  /\ crashes \in 0 .. MaxCrashes

\* No order leaves before every gated step up to its own was approved or
\* skipped, whatever crashed, was resumed twice or was cancelled in between
\* (ARCHITECTURE.md section 7, approval gating).
GateHolds ==
  \A r \in Runs : \A i, j \in StepsOf(r) :
    orders[r][i] # <<>> /\ j <= i /\ Kind(r, j) \in Gated =>
      decision[r][j] = "approved" \/ step_status[r][j] = "skipped"

\* The tries of one execution of a step.
Budget(r, i) == 1 + MaxRetries[Kind(r, i)]

OnPaper(r, i) == {n \in DOMAIN orders[r][i] : orders[r][i][n].broker = "paper"}

\* Retries whose answers were lost, loops resumed twice, restarts and a user who
\* changes accounts between two tries never make two paper orders of one step, and
\* a step without an approval makes no more orders of any kind than one execution
\* has tries: no other thread and no resumption sends it again (routing.py,
\* _wf_crid; engine.py, execute_run).
ResendsAreRetries ==
  \A r \in Runs : \A i \in StepsOf(r) :
    /\ \A m, n \in OnPaper(r, i) : m = n
    /\ Kind(r, i) \notin Gated => Len(orders[r][i]) <= Budget(r, i)

\* The lock of a workflow is held only by a loop that is on one of its runs: no
\* way out of a loop leaks it, or every later run would be cancelled.
NoLockLeak ==
  \A wf \in Workflows : lock[wf] # None =>
    loop[lock[wf]].pc # "idle" /\ WorkflowOf[loop[lock[wf]].run] = wf

Executing(w) == loop[w].pc \in {"boundary", "attempt", "record", "pause_step", "pause_run"}

\* Two runs of a single-instance workflow are never executed at the same time
\* (ARCHITECTURE.md section 7, run isolation).
RunIsolation ==
  \A v, w \in Loops :
    /\ Executing(v) /\ Executing(w) /\ loop[v].run # loop[w].run
    /\ WorkflowOf[loop[v].run] = WorkflowOf[loop[w].run]
    => WorkflowOf[loop[v].run] \notin SingleInstance

Active(w) == loop[w].pc \in {"lock", "boundary", "attempt", "record"}

\* No task and no loop carries the run forward.
Handed(r) ==
  /\ \A t \in tasks : t.run # r
  /\ \A w \in Loops : Active(w) => loop[w].run # r

OneTask == \A t, u \in tasks : t.run = u.run => t = u
OneLoop == \A v, w \in Loops : Active(v) /\ Active(w) /\ loop[v].run = loop[w].run => v = w
LoopOrTask == \A w \in Loops : \A t \in tasks : Active(w) => loop[w].run # t.run

OneApproval ==
  \A r \in Runs, i \in StepIds : decision[r][i] = "pending" =>
    /\ Handed(r)
    /\ \A j \in StepIds : decision[r][j] = "pending" => j = i

RejectedIsOver ==
  \A r \in Runs, i \in StepIds : decision[r][i] = "rejected" =>
    /\ Handed(r)
    /\ \A j \in StepIds : decision[r][j] # "pending"

AbsentIsUntouched ==
  \A r \in Runs : run_status[r] = "absent" =>
    /\ Handed(r)
    /\ \A j \in StepIds : decision[r][j] = "none"

\* A run has one driver at most: a task that waits for a thread, a loop that has
\* not come to the end of its work, or an approval somebody may yet decide; and a
\* rejected run has none.  Two would send the same step from two threads, with
\* their answers written over each other (engine.py, resume_run; the decision is
\* checked and committed without an await in decide_approval).
OneDriver ==
  /\ OneTask /\ OneLoop /\ LoopOrTask
  /\ OneApproval /\ RejectedIsOver /\ AbsentIsUntouched

GatedSteps == {g \in Runs \X StepIds : g[2] \in StepsOf(g[1]) /\ Kind(g[1], g[2]) \in Gated}

\* An approval outlasts what is written to its step's row.
GateOf(r, i) ==
  IF decision[r][i] # "approved" /\ step_status[r][i] = "skipped" THEN "skipped"
  ELSE decision[r][i]

DeskGate == [g \in GatedSteps |-> GateOf(g[1], g[2])]
DeskSent == [s \in Runs \X StepIds |-> Len(orders[s[1]][s[2]])]

Desk == INSTANCE ApprovalDesk
  WITH Steps <- StepIds, Gates <- GatedSteps, gate <- DeskGate, sent <- DeskSent

\* Every step of the engine, the routers and a restart is one step of the abstract
\* desk or none: an approval is asked for in the order of the plan, answered once
\* and never taken back, and an order, a repeated one too, leaves past open gates only,
\* and never while an answer is outstanding or after a refusal (engine.py, execute_run;
\* approvals.py, decide_approval).
ImplementsApprovalDesk == Desk!Spec

Driven(r) == \E w \in Loops : loop[w].run = r

\* While the process lives, a run in progress ends or comes to wait for its
\* user: no lock, retry loop or second loop on the same run leaves it running
\* for ever (engine.py, execute_run: "Drive a run to a terminal state").
RunsSettle ==
  \A r \in Runs :
    run_status[r] = "running" ~>
      run_status[r] \in Ended \cup {"awaiting_approval"} \/ crashes > 0

\* An approval that is given carries the run past its step, or the run ends,
\* even when it is given before the run is recorded as waiting for it and the
\* pausing loop then overwrites what the resumed one wrote.
ApprovalIsActedOn ==
  \A g \in GatedSteps :
    LET r == g[1]
        i == g[2]
    IN decision[r][i] = "approved" /\ run_status[r] = "running" ~>
         \/ step_status[r][i] = "succeeded"
         \/ \E j \in StepIds : j > i /\ step_status[r][j] # "absent"
         \/ run_status[r] \in Ended
         \/ crashes > 0

\* Once a run is cancelled and no loop is on it, it sends no further order
\* (runs.py: "the engine won't re-enter on its own").
CancelledStaysQuiet ==
  \A r \in Runs, i \in StepIds :
    [](/\ run_status[r] = "cancelled" /\ ~Driven(r)
       /\ orders[r][i] = <<>>
       => [](orders[r][i] = <<>>))

=============================================================================
