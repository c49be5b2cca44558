------------------------ MODULE WorkflowEngine_proofs ------------------------
(***************************************************************************)
(* Theorems about the engine, for every plan, every number of runs, worker *)
(* threads, retries and crashes.                                           *)
(***************************************************************************)
EXTENDS WorkflowEngine, SequenceTheorems, TLAPS

-----------------------------------------------------------------------------
(* Types *)

PCs == {"idle", "lock", "boundary", "attempt", "record", "pause_step", "pause_run",
        "terminate", "finally"}

LoopState ==
  [run : Runs \cup {None}, resuming : BOOLEAN, pc : PCs, step : Nat, attempt : Nat,
   skip_next : BOOLEAN, outcome : Ended \cup {None}]

\* What a loop is doing determines what it knows.
LoopKnows(l) ==
  /\ l.pc # "idle" => l.run \in Runs
  /\ l.pc \in {"attempt", "record", "pause_step", "pause_run"} => l.step \in StepsOf(l.run)
  /\ l.pc = "terminate" => l.outcome \in Ended

EngineTyped ==
  /\ TypeOK
  /\ loop \in [Loops -> LoopState]
  /\ \A w \in Loops : LoopKnows(loop[w])

LEMMA StepsAreNumbered ==
  ASSUME NEW r \in Runs
  PROVE  /\ StepsOf(r) \subseteq StepIds
         /\ StepIds \subseteq Nat
         /\ \A i \in StepsOf(r) : Kind(r, i) \in Kinds
  <1>1. \A q \in Runs : PlanOf(q) \in Seq(Kinds)
    BY PlanAssumption DEF PlanOf
  <1>2. \A q \in Runs : StepsOf(q) = 1 .. Len(PlanOf(q)) /\ Len(PlanOf(q)) \in Nat
    BY <1>1, LenProperties DEF StepsOf
  <1>3. StepIds \subseteq Nat
    BY <1>2 DEF StepIds
  <1>4. StepsOf(r) \subseteq StepIds
    BY DEF StepIds
  <1>5. \A i \in StepsOf(r) : Kind(r, i) \in Kinds
    BY <1>1 DEF StepsOf, Kind
  <1> QED
    BY <1>3, <1>4, <1>5

LEMMA NoLoopTyped ==
  /\ NoLoop \in LoopState /\ LoopKnows(NoLoop)
  /\ NoLoop.pc = "idle" /\ NoLoop.run = None
  BY DEF NoLoop, LoopAt, LoopState, LoopKnows, PCs, Ended

\* What a step of one thread leaves alone, and where it can lead.
ThreadFrame(w) ==
  /\ loop' = [loop EXCEPT ![w] = loop'[w]]
  /\ loop'[w] \in LoopState /\ LoopKnows(loop'[w])
  /\ loop'[w].pc # "idle" => loop'[w].run = loop[w].run /\ loop'[w].resuming = loop[w].resuming
  /\ loop[w].pc # "idle" /\ loop'[w].pc # "lock"
  /\ loop'[w].pc # "idle" \/ EndLoop(w)
  /\ UNCHANGED <<tasks, cancelling, crashes>>

\* A loop moves on: to another point of its step, to its end, to the next step.
LEMMA GotoFrame ==
  ASSUME EngineTyped, NEW w \in Loops, loop[w].pc # "idle",
         NEW pc \in PCs \ {"idle", "lock", "terminate"}, Goto(w, pc),
         pc \in {"attempt", "record", "pause_step", "pause_run"}
           => loop[w].step \in StepsOf(loop[w].run),
         UNCHANGED <<tasks, cancelling, crashes>>
  PROVE  ThreadFrame(w) /\ loop'[w].pc = pc /\ loop'[w].step = loop[w].step
  BY DEF EngineTyped, Goto, ThreadFrame, LoopState, LoopKnows

LEMMA TerminateFrame ==
  ASSUME EngineTyped, NEW w \in Loops, loop[w].pc # "idle",
         NEW outcome \in Ended, Terminate(w, outcome),
         UNCHANGED <<tasks, cancelling, crashes>>
  PROVE  ThreadFrame(w) /\ loop'[w].pc = "terminate"
  BY DEF EngineTyped, Terminate, ThreadFrame, LoopState, LoopKnows, PCs

LEMMA NextStepFrame ==
  ASSUME EngineTyped, NEW w \in Loops, loop[w].pc # "idle",
         NEW skip \in BOOLEAN, NextStep(w, skip),
         UNCHANGED <<tasks, cancelling, crashes>>
  PROVE  /\ ThreadFrame(w)
         /\ loop'[w].pc = "boundary" /\ loop'[w].step = loop[w].step + 1
  BY DEF EngineTyped, NextStep, LoopAt, ThreadFrame, LoopState, LoopKnows, PCs

\* What a thread has at hand when it works on a step.
AtWork(w) ==
  loop[w].pc \in {"attempt", "record", "pause_step", "pause_run"} \/ AtStep(w)

LEMMA StepAtHand ==
  ASSUME EngineTyped, NEW w \in Loops, AtWork(w)
  PROVE  /\ loop[w].run \in Runs
         /\ loop[w].step \in StepsOf(loop[w].run) /\ loop[w].step \in StepIds
         /\ KindAt(w) \in Kinds
         /\ loop[w].pc \notin {"idle", "lock"}
         /\ loop[w].attempt \in Nat
  <1>1. loop[w] \in LoopState /\ LoopKnows(loop[w])
    BY DEF EngineTyped
  <1>2. loop[w].run \in Runs /\ loop[w].step \in StepsOf(loop[w].run)
    BY <1>1 DEF LoopKnows, AtWork, AtStep
  <1> QED
    BY <1>1, <1>2, StepsAreNumbered DEF LoopState, KindAt, AtWork, AtStep

LEMMA SetStepTyped ==
  ASSUME EngineTyped, NEW w \in Loops, AtWork(w), NEW st \in StepStatus, SetStep(w, st)
  PROVE  step_status' \in [Runs -> [StepIds -> StepStatus]]
  BY StepAtHand DEF EngineTyped, TypeOK, SetStep

\* What a send does to the orders of a step: nothing, or one more at their end.
LEMMA OrderPlaced ==
  ASSUME EngineTyped, NEW w \in Loops, PlaceOrder(w)
  PROVE  LET r == loop[w].run
             i == loop[w].step
         IN
         /\ loop[w].pc = "attempt" /\ r \in Runs /\ i \in StepsOf(r) /\ i \in StepIds
         /\ Kind(r, i) \in Gated => decision[r][i] = "approved"
         /\ \E order \in Order :
              /\ order.crid = <<r, i>>
              /\ \/ UNCHANGED orders
                 \/ /\ order.broker = "paper" => ~Opened(r, i, order)
                    /\ orders' = [orders EXCEPT ![r][i] = Append(@, order)]
  <1> PICK r, i : r = loop[w].run /\ i = loop[w].step
    OBVIOUS
  <1>1. loop[w].pc = "attempt"
    BY DEF PlaceOrder, OrderIsDue, Attempting
  <1>2. r \in Runs /\ i \in StepsOf(r) /\ i \in StepIds
    BY <1>1, StepAtHand DEF AtWork
  <1>3. Kind(r, i) \in Gated => decision[r][i] = "approved"
    BY DEF PlaceOrder, OrderIsDue, Attempting, KindAt, DecisionAt, Gated
  <1>4. PICK route \in Routes \ {"registered"} :
          Send(r, i, [broker |-> route, crid |-> Crid(r, i, loop[w].attempt)])
    BY DEF PlaceOrder
  <1> DEFINE order == [broker |-> route, crid |-> <<r, i>>]
  <1>5. order \in Order /\ order.crid = <<r, i>>
    <2>1. route \in {"paper", "live"}
      BY PlanAssumption DEF AllRoutes
    <2>2. <<r, i>> \in Seq(Runs \cup StepIds)
      BY <1>2
    <2> QED
      BY <2>1, <2>2 DEF Order
  <1>6. Send(r, i, order)
    BY <1>4 DEF Crid
  <1> HIDE DEF order
  <1>7. \/ UNCHANGED orders
        \/ /\ order.broker = "paper" => ~Opened(r, i, order)
           /\ orders' = [orders EXCEPT ![r][i] = Append(@, order)]
    BY <1>6 DEF Send
  <1> QED
    BY <1>1, <1>2, <1>3, <1>5, <1>7

LEMMA OrdersTyped ==
  ASSUME EngineTyped, NEW w \in Loops, PlaceOrder(w)
  PROVE  /\ orders' \in [Runs -> [StepIds -> Seq(Order)]]
         /\ \A q \in Runs, j \in StepIds :
              q # loop[w].run \/ j # loop[w].step => orders'[q][j] = orders[q][j]
         /\ \/ UNCHANGED orders
            \/ \E order \in Order : orders'[loop[w].run][loop[w].step]
                                     = Append(orders[loop[w].run][loop[w].step], order)
  <1> PICK r, i : r = loop[w].run /\ i = loop[w].step
    OBVIOUS
  <1>1. r \in Runs /\ i \in StepIds
    BY OrderPlaced
  <1>2. orders \in [Runs -> [StepIds -> Seq(Order)]]
    BY DEF EngineTyped, TypeOK
  <1>3. PICK order \in Order :
          UNCHANGED orders \/ orders' = [orders EXCEPT ![r][i] = Append(@, order)]
    BY OrderPlaced
  <1>4. Append(orders[r][i], order) \in Seq(Order)
    BY <1>1, <1>2
  <1>5. CASE UNCHANGED orders
    BY <1>2, <1>5
  <1>6. CASE orders' = [orders EXCEPT ![r][i] = Append(@, order)]
    <2> DEFINE longer == Append(orders[r][i], order)
    <2>1. orders' = [orders EXCEPT ![r][i] = longer]
      BY <1>6
    <2>2. longer \in Seq(Order)
      BY <1>4
    <2>3. orders'[r][i] = longer
      BY <1>1, <1>2, <2>1
    <2> HIDE DEF longer
    <2>4. orders' \in [Runs -> [StepIds -> Seq(Order)]]
      BY <1>1, <1>2, <2>1, <2>2
    <2>5. \A q \in Runs, j \in StepIds : q # r \/ j # i => orders'[q][j] = orders[q][j]
      BY <1>1, <1>2, <2>1
    <2> QED
      BY <2>3, <2>4, <2>5 DEF longer
  <1> QED
    BY <1>3, <1>5, <1>6

\* The variables no thread leaves in doubt.
ThreadRows(w) ==
  /\ run_status' \in [Runs -> RunStatus]
  /\ step_status' \in [Runs -> [StepIds -> StepStatus]]
  /\ decision' \in [Runs -> [StepIds -> {"none", "pending"} \cup Decided]]
  /\ expired' \subseteq Runs \X StepIds
  /\ orders' \in [Runs -> [StepIds -> Seq(Order)]]
  /\ lock' \in [Workflows -> Loops \cup {None}]
  /\ UNCHANGED lock \/ AcquireLock(w) \/ EndLoop(w)
  /\ cancel_flags' \subseteq Runs

LEMMA ThreadStep ==
  ASSUME EngineTyped, NEW w \in Loops, LoopStep(w)
  PROVE  ThreadFrame(w) /\ ThreadRows(w)
  <1> USE DEF Untouched
  <1>0. TypeOK /\ loop[w] \in LoopState /\ LoopKnows(loop[w])
    BY DEF EngineTyped
  <1>a. "boundary" \in PCs /\ "attempt" \in PCs /\ "record" \in PCs /\ "pause_step" \in PCs
        /\ "pause_run" \in PCs /\ "finally" \in PCs
    BY DEF PCs
  <1>b. /\ Ended \subseteq RunStatus /\ "cancelled" \in Ended /\ "failed" \in Ended
        /\ "succeeded" \in Ended /\ "awaiting_approval" \in RunStatus
        /\ {"running", "awaiting_approval", "succeeded", "skipped", "failed"} \subseteq StepStatus
    BY DEF Ended, RunStatus, StepStatus
  <1>1. CASE AcquireLock(w)
    <2>1. loop[w].pc = "lock" /\ loop[w].run \in Runs
      BY <1>0, <1>1 DEF AcquireLock, LoopKnows
    <2>2. ThreadFrame(w)
      BY <1>1, <1>a, <1>b, <2>1, GotoFrame, TerminateFrame DEF AcquireLock, memory
    <2>3. WorkflowOf[loop[w].run] \in Workflows
      BY <2>1, PlanAssumption
    <2>4. lock' \in [Workflows -> Loops \cup {None}]
      <3>1. lock \in [Workflows -> Loops \cup {None}]
        BY <1>0 DEF TypeOK
      <3> QED
        BY <1>1, <2>3, <3>1 DEF AcquireLock
    <2>5. UNCHANGED <<database, cancel_flags>>
      BY <1>1 DEF AcquireLock
    <2> HIDE DEF Untouched
    <2> QED
      BY <1>0, <1>1, <2>2, <2>4, <2>5 DEF ThreadRows, TypeOK, database
  <1>2. CASE WriteOutcome(w)
    <2>1. ThreadFrame(w)
      BY <1>2, <1>a, GotoFrame DEF WriteOutcome
    <2>2. loop[w].run \in Runs /\ loop[w].outcome \in RunStatus
      BY <1>0, <1>2, <1>b DEF WriteOutcome, LoopKnows
    <2> QED
      BY <1>0, <1>2, <2>1, <2>2 DEF WriteOutcome, ThreadRows, TypeOK
  <1>3. CASE EndLoop(w)
    BY <1>0, <1>3, NoLoopTyped DEF EndLoop, ThreadFrame, ThreadRows, TypeOK, database, EngineTyped
  <1>4. ASSUME AtStep(w), SeeCancel(w) \/ OutOfTime(w) PROVE ThreadFrame(w) /\ ThreadRows(w)
    <2>1. ThreadFrame(w)
      BY <1>4, <1>b, TerminateFrame DEF SeeCancel, OutOfTime, AtStep
    <2> QED
      BY <1>0, <1>4, <2>1 DEF SeeCancel, OutOfTime, ThreadRows, TypeOK
  <1>5. CASE PassOver(w)
    <2>1. ThreadFrame(w)
      BY <1>0, <1>5, NextStepFrame DEF PassOver, AtStep, LoopState
    <2> QED
      BY <1>0, <1>5, <2>1 DEF PassOver, ThreadRows, TypeOK
  <1>6. CASE SkipStep(w)
    <2>1. ThreadFrame(w)
      BY <1>6, NextStepFrame DEF SkipStep, Ahead, AtStep
    <2>2. step_status' \in [Runs -> [StepIds -> StepStatus]]
      BY <1>6, <1>b, SetStepTyped DEF SkipStep, Ahead, AtWork
    <2> QED
      BY <1>0, <1>6, <2>1, <2>2 DEF SkipStep, ThreadRows, TypeOK
  <1>7. CASE EnterStep(w)
    <2>1. ThreadFrame(w)
      BY <1>7, <1>a, <1>b, GotoFrame, TerminateFrame DEF EnterStep, Ahead, AtStep
    <2>2. step_status' \in [Runs -> [StepIds -> StepStatus]]
      BY <1>7, <1>b, SetStepTyped DEF EnterStep, Ahead, AtWork
    <2> QED
      BY <1>0, <1>7, <2>1, <2>2 DEF EnterStep, ThreadRows, TypeOK
  <1>8. CASE AllDone(w)
    <2>1. ThreadFrame(w)
      BY <1>8, <1>b, TerminateFrame DEF AllDone
    <2> QED
      BY <1>0, <1>8, <2>1 DEF AllDone, ThreadRows, TypeOK
  <1> DEFINE ends(st, outcome) == SetStep(w, st) /\ Terminate(w, outcome)
             goesOn == \E skip \in BOOLEAN : SetStep(w, "succeeded") /\ NextStep(w, skip)
  <1>c. ASSUME loop[w].pc \in {"attempt", "record"}, UNCHANGED <<tasks, cancelling, crashes>>,
               goesOn \/ (\E outcome \in Ended, st \in StepStatus : ends(st, outcome))
        PROVE  ThreadFrame(w) /\ step_status' \in [Runs -> [StepIds -> StepStatus]]
    BY <1>c, <1>b, NextStepFrame, TerminateFrame, SetStepTyped DEF AtWork
  <1>e. ASSUME loop[w].pc \in {"attempt", "record"}, NEW skip \in BOOLEAN, RecordSuccess(w, skip)
        PROVE  ThreadFrame(w) /\ ThreadRows(w)
    <2>1. ThreadFrame(w) /\ step_status' \in [Runs -> [StepIds -> StepStatus]]
      BY <1>e, <1>c DEF RecordSuccess
    <2> QED
      BY <1>0, <1>e, <2>1 DEF RecordSuccess, ThreadRows, TypeOK
  <1>9. CASE AttemptCancelled(w)
    BY <1>0, <1>9, <1>b, <1>c DEF AttemptCancelled, ThreadRows, TypeOK
  <1>10. CASE Succeed(w)
    BY <1>10, <1>e DEF Succeed, Attempting
  <1>11. CASE SkipNext(w)
    BY <1>11, <1>e DEF SkipNext, Attempting
  <1>12. CASE ConditionFails(w)
    BY <1>0, <1>12, <1>b, <1>c DEF ConditionFails, Attempting, ThreadRows, TypeOK
  <1>d. ASSUME loop[w].pc = "attempt", Raise(w)
        PROVE  ThreadFrame(w) /\ step_status' \in [Runs -> [StepIds -> StepStatus]]
    <2>1. CASE loop' = [loop EXCEPT ![w].attempt = @ + 1] /\ UNCHANGED step_status
      <3>1. UNCHANGED <<tasks, cancelling, crashes, step_status>>
        BY <1>d, <2>1 DEF Raise
      <3>2. loop \in [Loops -> LoopState]
        BY DEF EngineTyped
      <3>3. ThreadFrame(w)
        BY <1>0, <1>d, <2>1, <3>1, <3>2 DEF ThreadFrame, LoopState, LoopKnows
      <3> QED
        BY <1>0, <3>1, <3>3 DEF TypeOK
    <2>2. CASE ends("failed", "failed")
      BY <1>d, <2>2, <1>b, <1>c DEF Raise
    <2> QED
      BY <1>d, <2>1, <2>2 DEF Raise
  <1>13. CASE Fail(w)
    BY <1>0, <1>13, <1>d DEF Fail, Attempting, Raise, ThreadRows, TypeOK
  <1>14. CASE PlaceOrder(w)
    <2>0. loop[w].pc = "attempt"
      BY <1>14, OrderPlaced
    <2>2. loop[w].run \in Runs /\ loop[w].step \in StepsOf(loop[w].run)
      BY <1>14, OrderPlaced
    <2>1. ThreadFrame(w) /\ step_status' \in [Runs -> [StepIds -> StepStatus]]
      <3>1. CASE Raise(w)
        BY <1>d, <2>0, <3>1
      <3>2. CASE Goto(w, "record") /\ UNCHANGED <<tasks, cancelling, crashes, step_status>>
        <4>1. ThreadFrame(w)
          BY <1>a, <2>0, <2>2, <3>2, GotoFrame
        <4> QED
          BY <1>0, <3>2, <4>1 DEF TypeOK
      <3> QED
        BY <1>14, <3>1, <3>2 DEF PlaceOrder
    <2>3. orders' \in [Runs -> [StepIds -> Seq(Order)]]
      BY <1>14, OrdersTyped
    <2>4. UNCHANGED <<run_status, decision, expired, lock, cancel_flags>>
      BY <1>14 DEF PlaceOrder, Raise
    <2> QED
      BY <1>0, <2>1, <2>3, <2>4 DEF ThreadRows, TypeOK
  <1>15. CASE RecordOrder(w)
    BY <1>15, <1>e DEF RecordOrder
  <1>19. CASE RegisterOrder(w)
    <2>1. loop[w].pc = "attempt"
      BY <1>19 DEF RegisterOrder, OrderIsDue, Attempting
    <2>2. ThreadFrame(w)
      BY <1>19, <1>a, <2>1, StepAtHand, GotoFrame DEF RegisterOrder, AtWork
    <2> QED
      BY <1>0, <1>19, <2>2 DEF RegisterOrder, ThreadRows, TypeOK
  <1>16. CASE AskApproval(w)
    <2>0. loop[w].pc = "attempt"
      BY <1>16 DEF AskApproval, Attempting
    <2>1. loop[w].run \in Runs /\ loop[w].step \in StepsOf(loop[w].run)
          /\ loop[w].step \in StepIds
      BY <2>0, StepAtHand DEF AtWork
    <2>2. ThreadFrame(w)
      BY <1>16, <1>a, <2>0, <2>1, GotoFrame DEF AskApproval
    <2> QED
      BY <1>0, <1>16, <2>1, <2>2 DEF AskApproval, ThreadRows, TypeOK
  <1>17. CASE PauseStep(w)
    <2>0. loop[w].pc = "pause_step"
      BY <1>17 DEF PauseStep
    <2>1. ThreadFrame(w)
      BY <1>17, <1>a, <2>0, StepAtHand, GotoFrame DEF PauseStep, AtWork
    <2>2. step_status' \in [Runs -> [StepIds -> StepStatus]]
      BY <1>17, <2>0, <1>b, SetStepTyped DEF PauseStep, AtWork
    <2> QED
      BY <1>0, <1>17, <2>1, <2>2 DEF PauseStep, ThreadRows, TypeOK
  <1>18. CASE PauseRun(w)
    <2>1. ThreadFrame(w)
      BY <1>18, <1>a, GotoFrame DEF PauseRun
    <2>2. loop[w].run \in Runs
      BY <1>0, <1>18 DEF PauseRun, LoopKnows
    <2> QED
      BY <1>0, <1>18, <1>b, <2>1, <2>2 DEF PauseRun, ThreadRows, TypeOK
  <1> QED
    BY <1>1, <1>2, <1>3, <1>4, <1>5, <1>6, <1>7, <1>8, <1>9, <1>10, <1>11, <1>12,
       <1>13, <1>14, <1>15, <1>16, <1>17, <1>18, <1>19
       DEF LoopStep, SeeCancel, OutOfTime

LEMMA TasksTyped ==
  ASSUME TypeOK, NEW t \in tasks
  PROVE  t.run \in Runs /\ t.resuming \in BOOLEAN /\ t = Task(t.run, t.resuming)
  BY DEF TypeOK, Task

LEMMA NewTaskTyped ==
  ASSUME TypeOK, NEW r \in Runs, NEW b \in BOOLEAN
  PROVE  tasks \cup {Task(r, b)} \subseteq {Task(q, c) : q \in Runs, c \in BOOLEAN}
  <1>1. Task(r, b) \in {Task(q, c) : q \in Runs, c \in BOOLEAN}
    BY SMT
  <1> QED
    BY <1>1 DEF TypeOK

LEMMA StartTyped ==
  ASSUME EngineTyped, NEW w \in Loops, NEW t \in tasks, StartLoop(w, t)
  PROVE  EngineTyped'
  <1>1. t.run \in Runs /\ t.resuming \in BOOLEAN
    BY TasksTyped DEF EngineTyped
  <1>2. ASSUME NEW pc \in {"lock"} PROVE LET l == LoopAt(t.run, t.resuming, pc, 1) IN
                                           l \in LoopState /\ LoopKnows(l)
    BY <1>1 DEF LoopAt, LoopState, LoopKnows, PCs
  <1>3. loop' \in [Loops -> LoopState] /\ \A v \in Loops : LoopKnows(loop'[v])
    BY <1>2 DEF StartLoop, EngineTyped
  <1>4. TypeOK'
    <2>1. \A v \in Loops : loop'[v].pc # "idle" => loop'[v].run \in Runs
      BY <1>3 DEF LoopKnows
    <2>2. tasks' \subseteq tasks /\ cancel_flags' \subseteq cancel_flags
      BY DEF StartLoop
    <2>3. UNCHANGED <<run_status, step_status, decision, expired, orders, lock, cancelling, crashes>>
      BY DEF StartLoop, database
    <2> QED
      BY <2>1, <2>2, <2>3 DEF EngineTyped, TypeOK
  <1> QED
    BY <1>3, <1>4 DEF EngineTyped

\* A status written to one run's row keeps the rows typed.
LEMMA StatusWritten ==
  ASSUME run_status \in [Runs -> RunStatus], NEW r, NEW st \in RunStatus
  PROVE  [run_status EXCEPT ![r] = st] \in [Runs -> RunStatus]
  OBVIOUS

LEMMA TypeInit == Init => EngineTyped
  <1> SUFFICES ASSUME Init PROVE EngineTyped
    OBVIOUS
  <1>1. loop \in [Loops -> LoopState] /\ \A w \in Loops : LoopKnows(loop[w]) /\ loop[w].pc = "idle"
    BY NoLoopTyped DEF Init
  <1>2. TypeOK
    BY <1>1, PlanAssumption DEF Init, TypeOK, RunStatus, StepStatus
  <1> QED
    BY <1>1, <1>2 DEF EngineTyped

LEMMA TypeStep == ASSUME EngineTyped, Next PROVE EngineTyped'
  <1>0. TypeOK /\ loop \in [Loops -> LoopState] /\ \A w \in Loops : LoopKnows(loop[w])
    BY DEF EngineTyped
  <1>a. Ended \subseteq RunStatus /\ "cancelled" \in Ended
        /\ {"running", "awaiting_approval"} \subseteq RunStatus
    BY DEF Ended, RunStatus
  <1>1. ASSUME NEW w \in Loops, LoopStep(w) PROVE EngineTyped'
    <2>1. ThreadFrame(w) /\ ThreadRows(w)
      BY <1>1, ThreadStep
    <2>2. loop' \in [Loops -> LoopState] /\ \A v \in Loops : LoopKnows(loop'[v])
      BY <1>0, <2>1 DEF ThreadFrame
    <2>3. UNCHANGED <<tasks, cancelling, crashes>>
      BY <2>1 DEF ThreadFrame
    <2>4. \A v \in Loops : loop'[v].pc # "idle" => loop'[v].run \in Runs
      BY <2>2 DEF LoopKnows
    <2>5. TypeOK'
      BY <1>0, <2>1, <2>3, <2>4 DEF TypeOK, ThreadRows
    <2> QED
      BY <2>2, <2>5 DEF EngineTyped
  <1>2. ASSUME NEW r \in Runs, CreateRun(r) PROVE EngineTyped'
    <2>0. PICK b \in BOOLEAN : tasks' = tasks \cup {Task(r, b)}
      BY <1>2, Zenon DEF CreateRun
    <2>1. tasks' \subseteq {Task(q, c) : q \in Runs, c \in BOOLEAN}
      BY <1>0, <2>0, NewTaskTyped
    <2>2. run_status' \in [Runs -> RunStatus]
      BY <1>0, <1>2, <1>a DEF CreateRun, TypeOK
    <2> QED
      <3>1. UNCHANGED <<step_status, decision, expired, orders, loop, lock, cancel_flags,
                        cancelling, crashes>>
        BY <1>2 DEF CreateRun
      <3> QED
        BY <1>0, <2>1, <2>2, <3>1 DEF EngineTyped, TypeOK
  <1>3. ASSUME NEW r \in Runs, ReadForCancel(r) PROVE EngineTyped'
    BY <1>0, <1>3 DEF ReadForCancel, EngineTyped, TypeOK, database
  <1>4. ASSUME NEW r \in Runs, FlagCancel(r) PROVE EngineTyped'
    BY <1>0, <1>4 DEF FlagCancel, EngineTyped, TypeOK, database
  <1>5. ASSUME NEW r \in Runs, DirectCancel(r) PROVE EngineTyped'
    BY <1>0, <1>5, <1>a DEF DirectCancel, EngineTyped, TypeOK
  <1>6. ASSUME NEW r \in Runs, NEW i \in StepIds, NEW d \in Decided, Decide(r, i, d)
        PROVE  EngineTyped'
    <2>1. tasks' \subseteq {Task(q, b) : q \in Runs, b \in BOOLEAN}
      <3>1. tasks' = tasks \/ \E b \in BOOLEAN : tasks' = tasks \cup {Task(r, b)}
        BY <1>6, Zenon DEF Decide
      <3> QED
        BY <1>0, <3>1, NewTaskTyped DEF TypeOK
    <2>2. run_status' \in [Runs -> RunStatus]
      <3>1. \/ run_status' = [run_status EXCEPT ![r] = "cancelled"]
            \/ run_status' = [run_status EXCEPT ![r] = "running"]
        BY <1>6 DEF Decide
      <3>2. run_status \in [Runs -> RunStatus]
        BY <1>0 DEF TypeOK
      <3>3. "cancelled" \in RunStatus /\ "running" \in RunStatus
        BY DEF RunStatus, Ended
      <3>4. /\ [run_status EXCEPT ![r] = "cancelled"] \in [Runs -> RunStatus]
            /\ [run_status EXCEPT ![r] = "running"] \in [Runs -> RunStatus]
        BY <3>2, <3>3, StatusWritten
      <3> QED
        BY <3>1, <3>4, Zenon
    <2>3. decision' \in [Runs -> [StepIds -> {"none", "pending"} \cup Decided]]
      BY <1>0, <1>6 DEF Decide, TypeOK
    <2> QED
      BY <1>0, <1>6, <2>1, <2>2, <2>3 DEF Decide, EngineTyped, TypeOK
  <1>7. ASSUME NEW r \in Runs, NEW i \in StepIds, Expire(r, i) PROVE EngineTyped'
    BY <1>0, <1>7 DEF Expire, EngineTyped, TypeOK, memory
  <1>8. CASE Crash
    BY <1>0, <1>8, NoLoopTyped, PlanAssumption DEF Crash, EngineTyped, TypeOK, database
  <1> QED
    BY <1>1, <1>2, <1>3, <1>4, <1>5, <1>6, <1>7, <1>8, StartTyped DEF Next

LEMMA TypeStutter == ASSUME EngineTyped, UNCHANGED vars PROVE EngineTyped'
  BY DEF EngineTyped, TypeOK, vars, database, memory

\* Every variable keeps its type (models.py, RunStatus and StepStatus; the loops,
\* locks, flags and tasks of engine.py).
THEOREM EngineTypeCorrect == Spec => []TypeOK
  <1>1. EngineTyped /\ [Next]_vars => EngineTyped'
    BY TypeStep, TypeStutter
  <1>2. EngineTyped => TypeOK
    BY DEF EngineTyped
  <1> QED
    BY TypeInit, <1>1, <1>2, PTL DEF Spec

-----------------------------------------------------------------------------
(* The lock *)

\* A lock is held by a loop that has passed the attempt to take it, and is on a
\* run of its workflow.
HeldByItsLoop ==
  \A wf \in Workflows : lock[wf] # None =>
    /\ loop[lock[wf]].pc \notin {"idle", "lock"}
    /\ WorkflowOf[loop[lock[wf]].run] = wf

LockInv == EngineTyped /\ HeldByItsLoop

LEMMA LockKeptByThread ==
  ASSUME LockInv, NEW w \in Loops, LoopStep(w)
  PROVE  HeldByItsLoop'
  <1>1. ThreadFrame(w) /\ TypeOK /\ loop \in [Loops -> LoopState]
    BY ThreadStep DEF LockInv, EngineTyped
  <1>2. CASE EndLoop(w)
    <2>1. \A wf \in Workflows : lock'[wf] # None => lock[wf] = lock'[wf] /\ lock[wf] # w
      BY <1>2 DEF EndLoop
    <2>2. \A v \in Loops : v # w => loop'[v] = loop[v]
      BY <1>1 DEF ThreadFrame
    <2>3. lock \in [Workflows -> Loops \cup {None}]
      BY <1>1 DEF TypeOK
    <2> QED
      BY <2>1, <2>2, <2>3 DEF LockInv, HeldByItsLoop
  <1>3. CASE AcquireLock(w)
    <2>1. \A wf \in Workflows : lock[wf] # w
      BY <1>1, <1>3, PlanAssumption DEF LockInv, HeldByItsLoop, AcquireLock
    <2>2. lock \in [Workflows -> Loops \cup {None}]
      BY <1>1 DEF TypeOK
    <2> QED
      BY <1>1, <1>3, <2>1, <2>2 DEF LockInv, HeldByItsLoop, AcquireLock, ThreadFrame, Goto, Terminate, LoopState
  <1>4. ASSUME UNCHANGED lock, loop'[w].pc # "idle" PROVE HeldByItsLoop'
    <2>1. lock \in [Workflows -> Loops \cup {None}]
      BY <1>1 DEF TypeOK
    <2>2. loop'[w].pc # "lock" /\ loop'[w].run = loop[w].run
          /\ \A v \in Loops : v # w => loop'[v] = loop[v]
      BY <1>1, <1>4 DEF ThreadFrame
    <2> QED
      BY <1>4, <2>1, <2>2 DEF LockInv, HeldByItsLoop
  <1> QED
    BY <1>1, <1>2, <1>3, <1>4, ThreadStep DEF ThreadFrame, ThreadRows, LockInv

LEMMA LockStep == ASSUME LockInv, Next PROVE LockInv'
  <1>0. EngineTyped' /\ TypeOK
    BY TypeStep DEF LockInv, EngineTyped
  <1>1. ASSUME NEW w \in Loops, LoopStep(w) PROVE HeldByItsLoop'
    BY <1>1, LockKeptByThread
  <1>2. ASSUME NEW w \in Loops, NEW t \in tasks, StartLoop(w, t) PROVE HeldByItsLoop'
    <2>1. \A wf \in Workflows : lock[wf] # w
      BY <1>2, PlanAssumption DEF StartLoop, LockInv, HeldByItsLoop
    <2>2. UNCHANGED lock /\ \A v \in Loops : v # w => loop'[v] = loop[v]
      BY <1>2 DEF StartLoop, LockInv, EngineTyped
    <2>3. lock \in [Workflows -> Loops \cup {None}]
      BY <1>0 DEF TypeOK
    <2> QED
      BY <2>1, <2>2, <2>3 DEF LockInv, HeldByItsLoop
  <1>3. ASSUME UNCHANGED <<lock, loop>> PROVE HeldByItsLoop'
    BY <1>3 DEF LockInv, HeldByItsLoop
  <1>4. ASSUME Crash PROVE HeldByItsLoop'
    <2>1. \A wf \in Workflows : lock'[wf] = None
      BY <1>4 DEF Crash
    <2> QED
      BY <2>1 DEF HeldByItsLoop
  <1>5. HeldByItsLoop'
    <2>1. \/ \E w \in Loops : LoopStep(w)
          \/ \E w \in Loops, t \in tasks : StartLoop(w, t)
          \/ UNCHANGED <<lock, loop>>
          \/ Crash
      BY DEF Next, CreateRun, ReadForCancel, FlagCancel, DirectCancel, Decide, Expire, memory
    <2> QED
      BY <1>1, <1>2, <1>3, <1>4, <2>1
  <1> QED
    BY <1>0, <1>5 DEF LockInv

\* A workflow's lock is held only by a loop that is on one of its runs, so no way
\* out of a loop leaks it (engine.py, _release_workflow_lock in finally).
THEOREM NoLockIsLeaked == Spec => []NoLockLeak
  <1>1. Init => LockInv
    BY TypeInit DEF Init, LockInv, HeldByItsLoop
  <1>2. LockInv /\ [Next]_vars => LockInv'
    <2>1. LockInv /\ UNCHANGED vars => LockInv'
      BY TypeStutter DEF LockInv, HeldByItsLoop, vars, memory
    <2> QED
      BY LockStep, <2>1
  <1>3. LockInv => NoLockLeak
    BY DEF LockInv, HeldByItsLoop, NoLockLeak
  <1> QED
    BY <1>1, <1>2, <1>3, PTL DEF Spec

-----------------------------------------------------------------------------
(* What a thread does to the run it is on *)

\* A thread that has gone past its work does not come back to it.
LEMMA NoWayBack ==
  ASSUME EngineTyped, NEW w \in Loops, LoopStep(w)
  PROVE  /\ loop'[w].pc \in {"lock", "boundary", "attempt", "record"}
              => loop[w].pc \in {"lock", "boundary", "attempt", "record"}
         /\ loop'[w].pc \in {"boundary", "attempt", "record", "pause_step", "pause_run"}
              => AcquireLock(w)
                 \/ loop[w].pc \in {"boundary", "attempt", "record", "pause_step", "pause_run"}
  <1> DEFINE early == {"boundary", "attempt", "record"}
  <1>0. loop \in [Loops -> LoopState]
    BY DEF EngineTyped
  <1>1. CASE WriteOutcome(w) \/ EndLoop(w) \/ PauseRun(w)
    <2>1. loop'[w].pc \in {"finally", "idle"}
      BY <1>0, <1>1, NoLoopTyped DEF WriteOutcome, EndLoop, PauseRun, Goto, LoopState
    <2> QED
      BY <2>1
  <1>2. CASE PauseStep(w)
    <2>1. loop'[w].pc = "pause_run" /\ loop[w].pc = "pause_step"
      BY <1>0, <1>2 DEF PauseStep, Goto, LoopState
    <2> QED
      BY <2>1
  <1>3. CASE AcquireLock(w)
    BY <1>3 DEF AcquireLock
  <1>4. loop[w].pc \in early \/ WriteOutcome(w) \/ EndLoop(w) \/ PauseRun(w) \/ PauseStep(w)
        \/ AcquireLock(w)
    BY DEF LoopStep, SeeCancel, OutOfTime, PassOver, SkipStep, EnterStep, AllDone,
           AttemptCancelled, Succeed, SkipNext, ConditionFails, Fail, PlaceOrder, RegisterOrder, RecordOrder,
           AskApproval, OrderIsDue, AtStep, Ahead, Attempting
  <1> QED
    BY <1>1, <1>2, <1>3, <1>4

\* Only asking for an approval writes to the approvals.
LEMMA ThreadDecides ==
  ASSUME NEW w \in Loops, LoopStep(w)
  PROVE  AskApproval(w) \/ UNCHANGED <<decision, expired>>
  BY DEF LoopStep, AcquireLock, WriteOutcome, EndLoop, SeeCancel, OutOfTime, PassOver,
         SkipStep, EnterStep, AllDone, AttemptCancelled, Succeed, SkipNext, ConditionFails,
         Fail, PlaceOrder, RegisterOrder, RecordOrder, PauseStep, PauseRun, RecordSuccess, Raise, Untouched,
         database

-----------------------------------------------------------------------------
(* Isolation *)

Ungated(r) == \A i \in StepsOf(r) : Kind(r, i) \notin Gated
NoApprovals == \A r \in Runs : Ungated(r)

Resuming(w) == loop[w].resuming
SameWorkflow(v, w) == WorkflowOf[loop[v].run] = WorkflowOf[loop[w].run]
Overlap(v, w) == v # w /\ Executing(v) /\ Executing(w) /\ SameWorkflow(v, w)

\* What resumes a run is a decision on one of its gated steps.
OnlyGatedResume ==
  /\ \A w \in Loops : loop[w].pc # "idle" /\ Ungated(loop[w].run) => ~Resuming(w)
  /\ \A t \in tasks : Ungated(t.run) => t.resuming = FALSE
  /\ \A r \in Runs, i \in StepIds : Ungated(r) => decision[r][i] = "none"

\* A first execution gave up, or it has had the lock since: a resumed run goes on
\* beside it, but takes nothing from it and releases only its own.
ExecutesLocked ==
  \A w \in Loops :
    Executing(w) /\ ~Resuming(w) /\ WorkflowOf[loop[w].run] \in SingleInstance =>
      lock[WorkflowOf[loop[w].run]] = w

IsolationInv == LockInv /\ OnlyGatedResume /\ ExecutesLocked

LEMMA SomethingIsGated ==
  ASSUME EngineTyped, NEW w \in Loops, AskApproval(w)
  PROVE  ~Ungated(loop[w].run)
  BY StepAtHand DEF AskApproval, Attempting, AtWork, Ungated, KindAt

LEMMA OnlyGatedResumeStep ==
  ASSUME EngineTyped, OnlyGatedResume, Next
  PROVE  OnlyGatedResume'
  <1>0. TypeOK /\ loop \in [Loops -> LoopState]
    BY DEF EngineTyped
  <1> USE DEF Resuming
  <1>1. ASSUME NEW w \in Loops, LoopStep(w) PROVE OnlyGatedResume'
    <2>1. ThreadFrame(w)
      BY <1>1, ThreadStep
    <2>2. ASSUME NEW r \in Runs, NEW i \in StepIds, Ungated(r) PROVE decision'[r][i] = "none"
      <3>1. CASE AskApproval(w)
        <4>1. r # loop[w].run
          BY <2>2, <3>1, SomethingIsGated
        <4> QED
          BY <1>0, <2>2, <3>1, <4>1 DEF AskApproval, OnlyGatedResume, TypeOK
      <3>2. CASE UNCHANGED decision
        BY <2>2, <3>2 DEF OnlyGatedResume
      <3> QED
        BY <1>1, <3>1, <3>2, ThreadDecides
    <2>3. \A v \in Loops : loop'[v].pc # "idle" =>
            loop[v].pc # "idle" /\ loop'[v].run = loop[v].run
            /\ loop'[v].resuming = loop[v].resuming
      BY <1>0, <2>1 DEF ThreadFrame
    <2>4. UNCHANGED tasks
      BY <2>1 DEF ThreadFrame
    <2> QED
      BY <2>2, <2>3, <2>4 DEF OnlyGatedResume, Ungated, StepsOf, Kind, PlanOf
  <1>2. ASSUME NEW w \in Loops, NEW t \in tasks, StartLoop(w, t) PROVE OnlyGatedResume'
    <2>1. UNCHANGED decision /\ tasks' \subseteq tasks
      BY <1>2 DEF StartLoop, database
    <2>2. \A v \in Loops : loop'[v] = loop[v] \/ (loop'[v].run = t.run /\ loop'[v].resuming = t.resuming)
      BY <1>0, <1>2 DEF StartLoop, LoopAt
    <2> QED
      BY <2>1, <2>2 DEF OnlyGatedResume, Ungated, StepsOf, Kind, PlanOf
  <1>3. ASSUME NEW r \in Runs, CreateRun(r) PROVE OnlyGatedResume'
    BY <1>3 DEF CreateRun, OnlyGatedResume, Task, Ungated, StepsOf, Kind, PlanOf
  <1>4. ASSUME NEW r \in Runs, ReadForCancel(r) \/ FlagCancel(r) \/ DirectCancel(r)
        PROVE  OnlyGatedResume'
    BY <1>4 DEF ReadForCancel, FlagCancel, DirectCancel, OnlyGatedResume, database,
                Ungated, StepsOf, Kind, PlanOf
  <1>5. ASSUME NEW r \in Runs, NEW i \in StepIds, NEW d \in Decided, Decide(r, i, d)
        PROVE  OnlyGatedResume'
    <2>1. decision[r][i] = "pending" /\ ~Ungated(r)
      BY <1>5 DEF Decide, OnlyGatedResume
    <2>2. \A q \in Runs, j \in StepIds : Ungated(q) => decision'[q][j] = "none"
      BY <1>0, <1>5, <2>1 DEF Decide, OnlyGatedResume, TypeOK
    <2>3. \A t \in tasks' : t \in tasks \/ t.run = r
      BY <1>5 DEF Decide, Task
    <2>4. UNCHANGED loop
      BY <1>5 DEF Decide
    <2> QED
      BY <2>1, <2>2, <2>3, <2>4 DEF OnlyGatedResume, Ungated, StepsOf, Kind, PlanOf
  <1>6. ASSUME NEW r \in Runs, NEW i \in StepIds, Expire(r, i) PROVE OnlyGatedResume'
    BY <1>6 DEF Expire, OnlyGatedResume, memory, Ungated, StepsOf, Kind, PlanOf
  <1>7. ASSUME Crash PROVE OnlyGatedResume'
    BY <1>7, NoLoopTyped DEF Crash, OnlyGatedResume, database, Ungated, StepsOf, Kind, PlanOf
  <1> QED
    BY <1>1, <1>2, <1>3, <1>4, <1>5, <1>6, <1>7 DEF Next

LEMMA ExecutesLockedStep ==
  ASSUME LockInv, ExecutesLocked, Next
  PROVE  ExecutesLocked'
  <1> USE DEF Resuming
  <1>0. EngineTyped /\ TypeOK /\ loop \in [Loops -> LoopState]
    BY DEF LockInv, EngineTyped
  <1>1. ASSUME NEW w \in Loops, LoopStep(w) PROVE ExecutesLocked'
    <2>1. ThreadFrame(w) /\ \A v \in Loops : v # w => loop'[v] = loop[v]
      BY <1>0, <1>1, ThreadStep DEF ThreadFrame
    <2>2. CASE AcquireLock(w)
      <3>1. loop[w].pc = "lock"
        BY <2>2 DEF AcquireLock
      <3>2. loop[w].run \in Runs /\ WorkflowOf[loop[w].run] \in Workflows
        BY <1>0, <3>1, PlanAssumption DEF EngineTyped, LoopKnows
      <3>3. ASSUME NEW v \in Loops, v # w, Executing(v)', ~loop'[v].resuming,
                   WorkflowOf[loop'[v].run] \in SingleInstance
            PROVE  lock'[WorkflowOf[loop'[v].run]] = v
        BY <1>0, <2>1, <2>2, <3>3, PlanAssumption
           DEF AcquireLock, ExecutesLocked, Executing, TypeOK
      <3>4. ASSUME Executing(w)', ~loop'[w].resuming, WorkflowOf[loop'[w].run] \in SingleInstance
            PROVE  lock'[WorkflowOf[loop'[w].run]] = w
        BY <1>0, <2>1, <2>2, <3>1, <3>2, <3>4
           DEF AcquireLock, Executing, TypeOK, Terminate, ThreadFrame, LoopState
      <3> QED
        BY <3>3, <3>4 DEF ExecutesLocked
    <2>3. CASE EndLoop(w)
      <3>1. \A wf \in Workflows : lock[wf] # w => lock'[wf] = lock[wf]
        BY <2>3 DEF EndLoop
      <3>2. loop'[w].pc = "idle"
        BY <1>0, <2>3, NoLoopTyped DEF EndLoop
      <3> QED
        BY <2>1, <3>1, <3>2, PlanAssumption DEF ExecutesLocked, Executing
    <2>4. CASE UNCHANGED lock /\ ~AcquireLock(w) /\ ~EndLoop(w)
      <3>1. Executing(w)' => Executing(w)
        BY <1>0, <1>1, <2>4, NoWayBack DEF Executing
      <3>2. Executing(w)' => loop'[w].run = loop[w].run /\ loop'[w].resuming = loop[w].resuming
        BY <2>1, <2>4 DEF ThreadFrame, Executing
      <3> QED
        BY <2>1, <2>4, <3>1, <3>2 DEF ExecutesLocked, Executing
    <2> QED
      BY <1>0, <1>1, <2>2, <2>3, <2>4, ThreadStep DEF ThreadRows
  <1>2. ASSUME NEW w \in Loops, NEW t \in tasks, StartLoop(w, t) PROVE ExecutesLocked'
    BY <1>0, <1>2 DEF StartLoop, LoopAt, ExecutesLocked, Executing
  <1>3. ASSUME UNCHANGED <<lock, loop>> PROVE ExecutesLocked'
    BY <1>3 DEF ExecutesLocked, Executing
  <1>4. ASSUME Crash PROVE ExecutesLocked'
    BY <1>4, NoLoopTyped DEF Crash, ExecutesLocked, Executing
  <1>5. \/ \E w \in Loops : LoopStep(w)
        \/ \E w \in Loops, t \in tasks : StartLoop(w, t)
        \/ UNCHANGED <<lock, loop>>
        \/ Crash
    BY DEF Next, CreateRun, ReadForCancel, FlagCancel, DirectCancel, Decide, Expire, memory
  <1> QED
    BY <1>1, <1>2, <1>3, <1>4, <1>5

LEMMA IsolationAlways == Spec => []IsolationInv
  <1>1. Init => IsolationInv
    <2> SUFFICES ASSUME Init PROVE IsolationInv
      OBVIOUS
    <2>1. LockInv
      BY TypeInit DEF Init, LockInv, HeldByItsLoop
    <2>2. \A w \in Loops : loop[w].pc = "idle"
      BY NoLoopTyped DEF Init
    <2> QED
      BY <2>1, <2>2 DEF Init, IsolationInv, OnlyGatedResume, ExecutesLocked, Executing
  <1>2. IsolationInv /\ [Next]_vars => IsolationInv'
    <2>1. ASSUME IsolationInv, UNCHANGED vars PROVE IsolationInv'
      BY <2>1, TypeStutter
         DEF IsolationInv, LockInv, HeldByItsLoop, OnlyGatedResume, ExecutesLocked, Executing,
             Resuming, Ungated, StepsOf, Kind, PlanOf, vars, database, memory
    <2>2. ASSUME IsolationInv, Next PROVE IsolationInv'
      BY <2>2, LockStep, OnlyGatedResumeStep, ExecutesLockedStep DEF IsolationInv, LockInv
    <2> QED
      BY <2>1, <2>2
  <1> QED
    BY <1>1, <1>2, PTL DEF Spec

FirstIsolation ==
  \A v, w \in Loops :
    Overlap(v, w) /\ ~Resuming(v) /\ ~Resuming(w) =>
      WorkflowOf[loop[v].run] \notin SingleInstance

UngatedIsolation ==
  \A v, w \in Loops :
    Overlap(v, w) /\ Ungated(loop[v].run) => WorkflowOf[loop[v].run] \notin SingleInstance

\* Whatever approvals the plan has, two first executions of a single-instance
\* workflow never overlap, on the same run or on two (engine.py, execute_run: a
\* first execution that finds the lock held ends the run as cancelled).
THEOREM FirstExecutionsAreIsolated == Spec => []FirstIsolation
  <1>1. IsolationInv => FirstIsolation
    BY DEF IsolationInv, ExecutesLocked, FirstIsolation, Overlap, SameWorkflow
  <1> QED
    BY <1>1, IsolationAlways, PTL

\* Two loops never execute a single-instance workflow that asks for no approval,
\* whatever the approvals of other workflows set going (ARCHITECTURE.md section 7,
\* run isolation).
THEOREM UngatedWorkflowsAreIsolated == Spec => []UngatedIsolation
  <1>1. ASSUME IsolationInv, NEW v \in Loops, NEW w \in Loops, Overlap(v, w),
               Ungated(loop[v].run)
        PROVE  WorkflowOf[loop[v].run] \notin SingleInstance
    <2>1. Ungated(loop[w].run)
      BY <1>1 DEF Overlap, SameWorkflow, Ungated, StepsOf, Kind, PlanOf
    <2>2. loop[v].pc # "idle" /\ loop[w].pc # "idle"
      BY <1>1 DEF Overlap, Executing
    <2>3. ~Resuming(v) /\ ~Resuming(w)
      BY <1>1, <2>1, <2>2 DEF IsolationInv, OnlyGatedResume
    <2> QED
      BY <1>1, <2>3 DEF IsolationInv, ExecutesLocked, Overlap, SameWorkflow
  <1>2. IsolationInv => UngatedIsolation
    BY <1>1 DEF UngatedIsolation
  <1> QED
    BY <1>2, IsolationAlways, PTL

\* Two runs of a single-instance workflow without approvals are never executed at
\* the same time (ARCHITECTURE.md section 7, run isolation).  With approvals a
\* resumed run goes on without the lock, and the hypothesis is needed.
THEOREM IsolationWithoutApprovals == NoApprovals => (Spec => []RunIsolation)
  <1>1. ASSUME NoApprovals, IsolationInv PROVE RunIsolation
    <2>1. \A w \in Loops : Executing(w) => loop[w].run \in Runs
      BY <1>1 DEF IsolationInv, LockInv, EngineTyped, TypeOK, Executing
    <2>2. \A w \in Loops : Executing(w) => ~Resuming(w)
      BY <1>1, <2>1 DEF IsolationInv, OnlyGatedResume, NoApprovals, Executing
    <2> QED
      BY <1>1, <2>2 DEF IsolationInv, ExecutesLocked, RunIsolation
  <1> SUFFICES ASSUME NoApprovals PROVE Spec => []RunIsolation
    OBVIOUS
  <1>2. IsolationInv => RunIsolation
    BY <1>1
  <1> QED
    BY <1>2, IsolationAlways, PTL

-----------------------------------------------------------------------------
(* One driver of each run *)

LEMMA DriverUndisturbed ==
  ASSUME OneDriver, UNCHANGED <<tasks, loop, decision>>,
         \A q \in Runs : run_status'[q] = "absent" => run_status[q] = "absent"
  PROVE  OneDriver'
  <1>1. \A r \in Runs : Handed(r) => Handed(r)'
    BY DEF Handed, Active
  <1>2. OneTask' /\ OneLoop' /\ LoopOrTask'
    BY DEF OneDriver, OneTask, OneLoop, LoopOrTask, Active
  <1>3. OneApproval' /\ RejectedIsOver' /\ AbsentIsUntouched'
    BY <1>1 DEF OneDriver, OneApproval, RejectedIsOver, AbsentIsUntouched
  <1> QED
    BY <1>2, <1>3 DEF OneDriver

\* A thread never takes a run's row away.
LEMMA ThreadSettles ==
  ASSUME EngineTyped, NEW w \in Loops, LoopStep(w)
  PROVE  \A r \in Runs : run_status'[r] = "absent" => run_status[r] = "absent"
  <1>0. TypeOK /\ LoopKnows(loop[w])
    BY DEF EngineTyped
  <1>1. CASE WriteOutcome(w)
    <2>1. loop[w].run \in Runs /\ loop[w].outcome # "absent"
      BY <1>0, <1>1 DEF WriteOutcome, LoopKnows, Ended
    <2> QED
      BY <1>0, <1>1, <2>1 DEF WriteOutcome, TypeOK
  <1>2. CASE PauseRun(w)
    BY <1>0, <1>2 DEF PauseRun, TypeOK
  <1>3. WriteOutcome(w) \/ PauseRun(w) \/ UNCHANGED run_status
    BY DEF LoopStep, AcquireLock, EndLoop, SeeCancel, OutOfTime, PassOver, SkipStep, EnterStep,
           AllDone, AttemptCancelled, Succeed, SkipNext, ConditionFails, Fail, PlaceOrder,
           RegisterOrder, RecordOrder, AskApproval, PauseStep, RecordSuccess, Raise, Untouched, database
  <1> QED
    BY <1>1, <1>2, <1>3

\* A thread that neither starts nor asks: the run keeps its driver or loses it.
LEMMA DriverKeptByThread ==
  ASSUME EngineTyped, OneDriver, NEW w \in Loops, LoopStep(w), UNCHANGED decision
  PROVE  OneDriver'
  <1>1. ThreadFrame(w) /\ ThreadRows(w) /\ TypeOK /\ loop \in [Loops -> LoopState]
    BY ThreadStep DEF EngineTyped
  <1>2. UNCHANGED tasks /\ \A v \in Loops : v # w => loop'[v] = loop[v]
    BY <1>1 DEF ThreadFrame
  <1>3. Active(w)' => Active(w) /\ loop'[w].run = loop[w].run
    BY <1>1, NoWayBack DEF Active, ThreadFrame
  <1>4. \A v \in Loops : Active(v)' => Active(v) /\ loop'[v].run = loop[v].run
    BY <1>2, <1>3 DEF Active
  <1>5. \A r \in Runs : Handed(r) => Handed(r)'
    BY <1>2, <1>4 DEF Handed
  <1>6. \A r \in Runs : run_status'[r] = "absent" => run_status[r] = "absent"
    BY ThreadSettles
  <1>7. OneTask' /\ OneLoop' /\ LoopOrTask'
    BY <1>2, <1>4 DEF OneDriver, OneTask, OneLoop, LoopOrTask
  <1>8. OneApproval' /\ RejectedIsOver' /\ AbsentIsUntouched'
    BY <1>5, <1>6 DEF OneDriver, OneApproval, RejectedIsOver, AbsentIsUntouched
  <1> QED
    BY <1>7, <1>8 DEF OneDriver

LEMMA DriverAsks ==
  ASSUME EngineTyped, OneDriver, NEW w \in Loops, AskApproval(w)
  PROVE  OneDriver'
  <1> PICK r, i : r = loop[w].run /\ i = loop[w].step
    OBVIOUS
  <1>0. TypeOK /\ loop \in [Loops -> LoopState] /\ loop[w].pc = "attempt"
    BY DEF EngineTyped, AskApproval, Attempting
  <1>1. r \in Runs /\ i \in StepIds
    BY <1>0, StepAtHand DEF AtWork
  <1>2. UNCHANGED <<tasks, run_status>> /\ \A v \in Loops : v # w => loop'[v] = loop[v]
    BY <1>0 DEF AskApproval, Goto
  <1>3. Active(w) /\ ~Active(w)'
    BY <1>0 DEF AskApproval, Goto, Active, LoopState
  <1>4. \A v \in Loops : Active(v)' => v # w /\ Active(v) /\ loop'[v].run = loop[v].run
    BY <1>2, <1>3 DEF Active
  <1>5. Handed(r)'
    BY <1>2, <1>3, <1>4 DEF Handed, OneDriver, OneLoop, LoopOrTask
  <1>6. \A q \in Runs : Handed(q) => Handed(q)'
    BY <1>2, <1>4 DEF Handed
  <1>7. decision' = [decision EXCEPT ![r][i] = "pending"]
    BY DEF AskApproval
  <1>8. \A q \in Runs, j \in StepIds :
          /\ q # r \/ j # i => decision'[q][j] = decision[q][j]
          /\ q = r => decision[q][j] \notin {"pending", "rejected"}
    BY <1>0, <1>1, <1>3, <1>7 DEF OneDriver, OneApproval, RejectedIsOver, Handed, TypeOK
  <1>9. run_status[r] # "absent"
    BY <1>1, <1>3 DEF OneDriver, AbsentIsUntouched, Handed
  <1>10. OneTask' /\ OneLoop' /\ LoopOrTask'
    BY <1>2, <1>4 DEF OneDriver, OneTask, OneLoop, LoopOrTask
  <1>11. OneApproval'
    BY <1>1, <1>5, <1>6, <1>8 DEF OneDriver, OneApproval
  <1>12. RejectedIsOver'
    <2>1. decision'[r][i] = "pending"
      BY <1>0, <1>1, <1>7 DEF TypeOK
    <2> QED
      BY <1>1, <1>6, <1>8, <2>1 DEF OneDriver, RejectedIsOver
  <1>13. AbsentIsUntouched'
    BY <1>1, <1>2, <1>6, <1>8, <1>9 DEF OneDriver, AbsentIsUntouched
  <1> QED
    BY <1>10, <1>11, <1>12, <1>13 DEF OneDriver

LEMMA DriverDecided ==
  ASSUME EngineTyped, OneDriver, NEW r \in Runs, NEW i \in StepIds, NEW d \in Decided,
         Decide(r, i, d)
  PROVE  OneDriver'
  <1>0. TypeOK /\ decision[r][i] = "pending" /\ UNCHANGED loop
    BY DEF EngineTyped, Decide
  <1>1. Handed(r) /\ \A j \in StepIds : j # i => decision[r][j] # "pending"
    BY <1>0 DEF OneDriver, OneApproval
  <1>2. decision' = [decision EXCEPT ![r][i] = d]
    BY DEF Decide
  <1>3. \A q \in Runs, j \in StepIds :
          /\ q # r \/ j # i => decision'[q][j] = decision[q][j]
          /\ q = r => decision[q][j] # "rejected" /\ decision'[q][j] # "pending"
          /\ q = r /\ j = i => decision'[q][j] = d
    BY <1>0, <1>1, <1>2 DEF OneDriver, RejectedIsOver, TypeOK, Decided
  <1>4. run_status'[r] # "absent" /\ \A q \in Runs : q # r => run_status'[q] = run_status[q]
    <2>1. \/ run_status' = [run_status EXCEPT ![r] = "cancelled"]
          \/ run_status' = [run_status EXCEPT ![r] = "running"]
      BY DEF Decide
    <2> QED
      BY <1>0, <2>1 DEF TypeOK
  <1>5. CASE d = "rejected"
    <2>1. UNCHANGED tasks
      BY <1>5 DEF Decide
    <2>2. \A q \in Runs : Handed(q) => Handed(q)'
      BY <1>0, <2>1 DEF Handed, Active
    <2>3. OneTask' /\ OneLoop' /\ LoopOrTask'
      BY <1>0, <2>1 DEF OneDriver, OneTask, OneLoop, LoopOrTask, Active
    <2>4. OneApproval' /\ RejectedIsOver'
      BY <1>1, <1>3, <2>2 DEF OneDriver, OneApproval, RejectedIsOver
    <2>5. AbsentIsUntouched'
      BY <1>3, <1>4, <2>2 DEF OneDriver, AbsentIsUntouched
    <2> QED
      BY <2>3, <2>4, <2>5 DEF OneDriver
  <1>6. CASE d = "approved"
    <2>1. PICK t : tasks' = tasks \cup {t} /\ t.run = r
      <3>1. tasks' = tasks \cup {Task(r, TRUE)}
        BY <1>6 DEF Decide
      <3>2. Task(r, TRUE).run = r
        BY DEF Task
      <3> QED
        BY <3>1, <3>2, Zenon
    <2>2. \A q \in Runs : q # r /\ Handed(q) => Handed(q)'
      BY <1>0, <2>1 DEF Handed, Active
    <2>3. OneTask' /\ OneLoop' /\ LoopOrTask'
      BY <1>0, <1>1, <2>1 DEF OneDriver, OneTask, OneLoop, LoopOrTask, Active, Handed
    <2>4. OneApproval' /\ RejectedIsOver'
      BY <1>3, <1>6, <2>2 DEF OneDriver, OneApproval, RejectedIsOver
    <2>5. AbsentIsUntouched'
      BY <1>3, <1>4, <2>2 DEF OneDriver, AbsentIsUntouched
    <2> QED
      BY <2>3, <2>4, <2>5 DEF OneDriver
  <1> QED
    BY <1>5, <1>6 DEF Decided

LEMMA DriverStarts ==
  ASSUME EngineTyped, OneDriver, NEW w \in Loops, NEW t \in tasks, StartLoop(w, t)
  PROVE  OneDriver'
  <1>0. TypeOK /\ loop \in [Loops -> LoopState] /\ t.run \in Runs
    BY TasksTyped DEF EngineTyped
  <1>1. UNCHANGED <<decision, run_status>> /\ tasks' = tasks \ {t}
        /\ \A v \in Loops : v # w => loop'[v] = loop[v]
    BY <1>0 DEF StartLoop, database
  <1>2. \/ UNCHANGED loop
        \/ loop'[w].run = t.run
    BY <1>0 DEF StartLoop, LoopAt
  <1>3. \A v \in Loops : Active(v) => loop[v].run # t.run
    BY DEF OneDriver, LoopOrTask
  <1>4. \A r \in Runs : Handed(r) => Handed(r)'
    BY <1>1, <1>2 DEF Handed, Active
  <1>5. OneTask' /\ LoopOrTask'
    BY <1>1, <1>2 DEF OneDriver, OneTask, LoopOrTask, Active
  <1>6. OneLoop'
    BY <1>1, <1>2, <1>3 DEF OneDriver, OneLoop, Active
  <1>7. OneApproval' /\ RejectedIsOver' /\ AbsentIsUntouched'
    BY <1>1, <1>4 DEF OneDriver, OneApproval, RejectedIsOver, AbsentIsUntouched
  <1> QED
    BY <1>5, <1>6, <1>7 DEF OneDriver

LEMMA DriverCreated ==
  ASSUME EngineTyped, OneDriver, NEW r \in Runs, CreateRun(r)
  PROVE  OneDriver'
  <1>0. TypeOK /\ UNCHANGED <<loop, decision>> /\ run_status[r] = "absent"
    BY DEF EngineTyped, CreateRun
  <1>1. Handed(r) /\ \A j \in StepIds : decision[r][j] = "none"
    BY <1>0 DEF OneDriver, AbsentIsUntouched
  <1>2. PICK t : tasks' = tasks \cup {t} /\ t.run = r
    <2>1. tasks' = tasks \cup {Task(r, FALSE)}
      BY DEF CreateRun
    <2>2. Task(r, FALSE).run = r
      BY DEF Task
    <2> QED
      BY <2>1, <2>2, Zenon
  <1>3. \A q \in Runs : q # r /\ Handed(q) => Handed(q)'
    BY <1>0, <1>2 DEF Handed, Active
  <1>4. OneTask' /\ OneLoop' /\ LoopOrTask'
    BY <1>0, <1>1, <1>2 DEF OneDriver, OneTask, OneLoop, LoopOrTask, Active, Handed
  <1>5. OneApproval' /\ RejectedIsOver'
    BY <1>0, <1>1, <1>3 DEF OneDriver, OneApproval, RejectedIsOver
  <1>6. AbsentIsUntouched'
    BY <1>0, <1>3 DEF CreateRun, OneDriver, AbsentIsUntouched, TypeOK
  <1> QED
    BY <1>4, <1>5, <1>6 DEF OneDriver

LEMMA DriverStep == ASSUME EngineTyped, OneDriver, Next PROVE OneDriver'
  <1>1. ASSUME NEW w \in Loops, LoopStep(w) PROVE OneDriver'
    BY <1>1, ThreadDecides, DriverKeptByThread, DriverAsks
  <1>2. ASSUME NEW r \in Runs, ReadForCancel(r) \/ FlagCancel(r) \/ DirectCancel(r)
        PROVE  OneDriver'
    <2>1. UNCHANGED <<tasks, loop, decision>>
          /\ \A q \in Runs : run_status'[q] = "absent" => run_status[q] = "absent"
      BY <1>2 DEF ReadForCancel, FlagCancel, DirectCancel, database, EngineTyped, TypeOK
    <2> QED
      BY <2>1, DriverUndisturbed
  <1>3. ASSUME NEW r \in Runs, NEW i \in StepIds, Expire(r, i) PROVE OneDriver'
    BY <1>3, DriverUndisturbed DEF Expire, memory
  <1>4. ASSUME Crash PROVE OneDriver'
    <2>1. tasks' = {} /\ (\A w \in Loops : ~Active(w)') /\ UNCHANGED <<decision, run_status>>
      BY <1>4, NoLoopTyped DEF Crash, Active, database
    <2> QED
      BY <2>1 DEF OneDriver, OneTask, OneLoop, LoopOrTask, OneApproval, RejectedIsOver,
                  AbsentIsUntouched, Handed
  <1> QED
    BY <1>1, <1>2, <1>3, <1>4, DriverCreated, DriverStarts, DriverDecided DEF Next

-----------------------------------------------------------------------------
(***************************************************************************)
(* The gates.  An order, or a loop, that is past a gated step has had its  *)
(* approval or has skipped it.  That a later write to the step's row does  *)
(* not take this away is where one driver per run is needed: a loop that   *)
(* is still pausing writes to the row while the resumed one is past it.    *)
(***************************************************************************)

Passed(r, j) == decision[r][j] = "approved" \/ step_status[r][j] = "skipped"

GatedStep(r, j) == j \in StepsOf(r) /\ Kind(r, j) \in Gated

PassedBehind ==
  \A w \in Loops : Active(w) =>
    \A j \in StepsOf(loop[w].run) :
      j < loop[w].step /\ Kind(loop[w].run, j) \in Gated => Passed(loop[w].run, j)

\* A step that is being worked on was not skipped, by this loop or another.
WorkNotSkipped ==
  \A w \in Loops : loop[w].pc \in {"attempt", "record"} =>
    step_status[loop[w].run][loop[w].step] # "skipped"

PlacedWasApproved ==
  \A w \in Loops : loop[w].pc = "record" /\ GatedStep(loop[w].run, loop[w].step) =>
    decision[loop[w].run][loop[w].step] = "approved"

PausingWasAsked ==
  \A w \in Loops : loop[w].pc = "pause_step" =>
    /\ decision[loop[w].run][loop[w].step] # "none"
    /\ \/ decision[loop[w].run][loop[w].step] = "approved"
       \/ step_status[loop[w].run][loop[w].step] # "skipped"

SucceededWasApproved ==
  \A r \in Runs : \A j \in StepIds :
    step_status[r][j] = "succeeded" /\ GatedStep(r, j) => decision[r][j] = "approved"

GateInv ==
  /\ GateHolds /\ PassedBehind /\ WorkNotSkipped /\ PlacedWasApproved /\ PausingWasAsked
  /\ SucceededWasApproved

\* The rows are written so that nothing a loop or an order relies on is lost.
RowsKept ==
  /\ \A r \in Runs, j \in StepIds : GatedStep(r, j) /\ Passed(r, j) => Passed(r, j)'
  /\ \A r \in Runs, j \in StepIds : decision[r][j] = "approved" => decision'[r][j] = "approved"
  /\ \A r \in Runs, j \in StepIds : decision[r][j] # "none" => decision'[r][j] # "none"
  /\ SucceededWasApproved'

\* ... by any other loop than w.
OthersKept(w) ==
  \A v \in Loops \ {w} :
    /\ loop[v].pc \in {"attempt", "record"} =>
         step_status'[loop[v].run][loop[v].step] # "skipped"
    /\ loop[v].pc = "pause_step" =>
         \/ decision'[loop[v].run][loop[v].step] = "approved"
         \/ step_status'[loop[v].run][loop[v].step] # "skipped"

\* The step's row gets a status other than skipped.
LEMMA RowWritten ==
  ASSUME EngineTyped, GateInv, NEW w \in Loops, AtWork(w),
         NEW st \in StepStatus \ {"skipped"}, SetStep(w, st), UNCHANGED decision,
         KindAt(w) \in Gated => DecisionAt(w) = "approved"
                              \/ (Recorded(w) # "skipped" /\ st # "succeeded")
  PROVE  RowsKept /\ OthersKept(w)
  <1> PICK r, i : r = loop[w].run /\ i = loop[w].step
    OBVIOUS
  <1>0. TypeOK /\ r \in Runs /\ i \in StepIds
    BY StepAtHand DEF EngineTyped
  <1>1. step_status' = [step_status EXCEPT ![r][i] = st]
    BY DEF SetStep
  <1>2. \A q \in Runs, j \in StepIds :
          /\ q = r /\ j = i => step_status'[q][j] = st
          /\ q # r \/ j # i => step_status'[q][j] = step_status[q][j]
    BY <1>0, <1>1 DEF TypeOK
  <1>3. GatedStep(r, i) => decision[r][i] = "approved"
                        \/ (step_status[r][i] # "skipped" /\ st # "succeeded")
    BY DEF GatedStep, KindAt, DecisionAt, Recorded
  <1>4. RowsKept
    BY <1>2, <1>3 DEF RowsKept, Passed, GateInv, SucceededWasApproved, GatedStep
  <1>5. \A v \in Loops : loop[v].pc \in {"attempt", "record", "pause_step"} =>
          loop[v].run \in Runs /\ loop[v].step \in StepIds
    BY StepAtHand DEF AtWork
  <1>6. OthersKept(w)
    BY <1>2, <1>5 DEF OthersKept, GateInv, WorkNotSkipped, PausingWasAsked
  <1> QED
    BY <1>4, <1>6

LEMMA RowSkipped ==
  ASSUME EngineTyped, OneDriver, GateInv, NEW w \in Loops, SkipStep(w)
  PROVE  RowsKept /\ OthersKept(w)
  <1> PICK r, i : r = loop[w].run /\ i = loop[w].step
    OBVIOUS
  <1>0. TypeOK /\ r \in Runs /\ i \in StepIds /\ Active(w) /\ UNCHANGED decision
    BY StepAtHand DEF EngineTyped, SkipStep, Ahead, AtWork, AtStep, Active, Untouched
  <1>1. step_status' = [step_status EXCEPT ![r][i] = "skipped"]
    BY DEF SetStep, SkipStep
  <1>2. \A q \in Runs, j \in StepIds :
          /\ q = r /\ j = i => step_status'[q][j] = "skipped"
          /\ q # r \/ j # i => step_status'[q][j] = step_status[q][j]
    BY <1>0, <1>1 DEF TypeOK
  <1>3. RowsKept
    BY <1>0, <1>2 DEF RowsKept, Passed, GateInv, SucceededWasApproved, GatedStep
  <1>4. decision[r][i] \notin {"pending", "rejected"}
    BY <1>0 DEF OneDriver, OneApproval, RejectedIsOver, Handed
  <1>5. decision[r][i] \in {"none", "approved"}
    BY <1>0, <1>4 DEF TypeOK, Decided
  <1>6. \A v \in Loops : loop[v].pc \in {"attempt", "record", "pause_step"} =>
          loop[v].run \in Runs /\ loop[v].step \in StepIds
    BY StepAtHand DEF AtWork
  <1>7. \A v \in Loops \ {w} : loop[v].pc \in {"attempt", "record"} => loop[v].run # r
    BY <1>0 DEF OneDriver, OneLoop, Active
  <1>8. OthersKept(w)
    BY <1>0, <1>2, <1>5, <1>6, <1>7 DEF OthersKept, GateInv, WorkNotSkipped, PausingWasAsked
  <1> QED
    BY <1>3, <1>8

LEMMA RowAsked ==
  ASSUME EngineTyped, GateInv, NEW w \in Loops, AskApproval(w)
  PROVE  RowsKept /\ OthersKept(w)
  <1> PICK r, i : r = loop[w].run /\ i = loop[w].step
    OBVIOUS
  <1>0. TypeOK /\ r \in Runs /\ i \in StepIds /\ UNCHANGED step_status
    BY StepAtHand DEF EngineTyped, AskApproval, Attempting, AtWork
  <1>1. decision' = [decision EXCEPT ![r][i] = "pending"] /\ decision[r][i] # "approved"
    BY DEF AskApproval, DecisionAt, Decided
  <1>2. \A q \in Runs, j \in StepIds :
          /\ q = r /\ j = i => decision'[q][j] = "pending"
          /\ q # r \/ j # i => decision'[q][j] = decision[q][j]
    BY <1>0, <1>1 DEF TypeOK
  <1>3. RowsKept
    BY <1>0, <1>1, <1>2 DEF RowsKept, Passed, GateInv, SucceededWasApproved, GatedStep
  <1>4. \A v \in Loops : loop[v].pc \in {"attempt", "record", "pause_step"} =>
          loop[v].run \in Runs /\ loop[v].step \in StepIds
    BY StepAtHand DEF AtWork
  <1>5. OthersKept(w)
    BY <1>0, <1>1, <1>2, <1>4 DEF OthersKept, GateInv, WorkNotSkipped, PausingWasAsked
  <1> QED
    BY <1>3, <1>5

LEMMA RowsUnread ==
  ASSUME GateInv, NEW w \in Loops, UNCHANGED <<step_status, decision>>
  PROVE  RowsKept /\ OthersKept(w)
  BY DEF RowsKept, OthersKept, Passed, GateInv, SucceededWasApproved, GatedStep, WorkNotSkipped,
         PausingWasAsked

\* Where the thread comes out: at its step still, or at the next.
Arrives(w) ==
  /\ Active(w)' => \/ loop'[w].step = loop[w].step
                   \/ /\ loop'[w].step = loop[w].step + 1
                      /\ GatedStep(loop[w].run, loop[w].step) =>
                           \/ decision'[loop[w].run][loop[w].step] = "approved"
                           \/ step_status'[loop[w].run][loop[w].step] = "skipped"
  /\ loop'[w].pc \in {"attempt", "record"} =>
       step_status'[loop'[w].run][loop'[w].step] # "skipped"
  /\ loop'[w].pc = "record" /\ GatedStep(loop'[w].run, loop'[w].step) =>
       decision'[loop'[w].run][loop'[w].step] = "approved"
  /\ loop'[w].pc = "pause_step" =>
       /\ decision'[loop'[w].run][loop'[w].step] # "none"
       /\ \/ decision'[loop'[w].run][loop'[w].step] = "approved"
          \/ step_status'[loop'[w].run][loop'[w].step] # "skipped"

LEMMA GatesKept ==
  ASSUME EngineTyped, GateInv, NEW w \in Loops, LoopStep(w), RowsKept, OthersKept(w), Arrives(w),
         GateHolds'
  PROVE  GateInv'
  <1>1. ThreadFrame(w) /\ loop \in [Loops -> LoopState] /\ LoopKnows(loop[w])
    BY ThreadStep DEF EngineTyped
  <1>2. \A v \in Loops : v # w => loop'[v] = loop[v]
    BY <1>1 DEF ThreadFrame
  <1>3. \A v \in Loops : loop[v].pc # "idle" => loop[v].run \in Runs
    BY DEF EngineTyped, TypeOK
  <1>4. PassedBehind'
    <2> SUFFICES ASSUME NEW v \in Loops, Active(v)', NEW j \in StepsOf(loop'[v].run),
                        j < loop'[v].step, Kind(loop'[v].run, j) \in Gated
                 PROVE  \/ decision'[loop'[v].run][j] = "approved"
                        \/ step_status'[loop'[v].run][j] = "skipped"
      BY DEF PassedBehind, Passed, StepsOf, Kind, PlanOf
    <2>1. Active(v) /\ loop'[v].run = loop[v].run /\ loop[v].run \in Runs
      BY <1>1, <1>2, <1>3, NoWayBack DEF Active, ThreadFrame
    <2>2. j \in StepIds /\ GatedStep(loop[v].run, j) /\ j \in Nat
      BY <2>1, StepsAreNumbered DEF GatedStep
    <2>3. j < loop[v].step => \/ decision'[loop[v].run][j] = "approved"
                              \/ step_status'[loop[v].run][j] = "skipped"
      BY <2>1, <2>2 DEF GateInv, PassedBehind, RowsKept, GatedStep, Passed
    <2>4. CASE v = w /\ ~(j < loop[v].step)
      <3>1. loop[w].step \in Nat
        BY <1>1 DEF LoopState
      <3>2. j = loop[w].step
        BY <2>2, <2>4, <3>1 DEF Arrives
      <3> QED
        BY <2>1, <2>2, <2>4, <3>1, <3>2 DEF Arrives
    <2> QED
      BY <1>2, <2>1, <2>3, <2>4
  <1>5. WorkNotSkipped'
    BY <1>2 DEF WorkNotSkipped, Arrives, OthersKept
  <1>6. PlacedWasApproved'
    <2> SUFFICES ASSUME NEW v \in Loops, loop'[v].pc = "record",
                        GatedStep(loop'[v].run, loop'[v].step)
                 PROVE  decision'[loop'[v].run][loop'[v].step] = "approved"
      BY DEF PlacedWasApproved, GatedStep, StepsOf, Kind, PlanOf
    <2>1. CASE v = w
      BY <2>1 DEF Arrives
    <2>2. CASE v # w
      <3>1. loop[v].run \in Runs /\ loop[v].step \in StepIds
        BY <1>2, <2>2, StepAtHand DEF AtWork
      <3> QED
        BY <1>2, <2>2, <3>1 DEF GateInv, PlacedWasApproved, RowsKept
    <2> QED
      BY <2>1, <2>2
  <1>7. PausingWasAsked'
    <2> SUFFICES ASSUME NEW v \in Loops \ {w}, loop'[v].pc = "pause_step"
                 PROVE  decision'[loop'[v].run][loop'[v].step] # "none"
      BY <1>2 DEF PausingWasAsked, Arrives, OthersKept
    <2>1. loop[v].run \in Runs /\ loop[v].step \in StepIds
      BY <1>2, StepAtHand DEF AtWork
    <2> QED
      BY <1>2, <2>1 DEF GateInv, PausingWasAsked, RowsKept
  <1> QED
    BY <1>4, <1>5, <1>6, <1>7 DEF GateInv, RowsKept

LEMMA HoldsKept ==
  ASSUME EngineTyped, GateInv, RowsKept, UNCHANGED orders
  PROVE  GateHolds'
  <1> SUFFICES ASSUME NEW r \in Runs, NEW i \in StepsOf(r), NEW j \in StepsOf(r),
                      orders[r][i] # <<>>, j <= i, Kind(r, j) \in Gated
               PROVE  decision'[r][j] = "approved" \/ step_status'[r][j] = "skipped"
    BY DEF GateHolds, StepsOf, Kind, PlanOf
  <1>1. j \in StepIds /\ GatedStep(r, j)
    BY StepsAreNumbered DEF GatedStep
  <1>2. Passed(r, j)
    BY DEF GateInv, GateHolds, Passed
  <1> QED
    BY <1>1, <1>2 DEF RowsKept, Passed

LEMMA HoldsPlaced ==
  ASSUME EngineTyped, GateInv, NEW w \in Loops, PlaceOrder(w), RowsKept
  PROVE  GateHolds'
  <1>1. /\ loop[w].run \in Runs /\ loop[w].step \in StepsOf(loop[w].run) /\ Active(w)
        /\ KindAt(w) \in Gated => DecisionAt(w) = "approved"
    BY OrderPlaced DEF Active, KindAt, DecisionAt
  <1> SUFFICES ASSUME NEW r \in Runs, NEW i \in StepsOf(r), NEW j \in StepsOf(r),
                      orders'[r][i] # <<>>, j <= i, Kind(r, j) \in Gated
               PROVE  decision'[r][j] = "approved" \/ step_status'[r][j] = "skipped"
    BY DEF GateHolds, StepsOf, Kind, PlanOf
  <1>2. i \in StepIds /\ j \in StepIds /\ j \in Nat /\ i \in Nat /\ GatedStep(r, j)
    BY StepsAreNumbered DEF GatedStep
  <1>3. Passed(r, j)
    <2>1. CASE r # loop[w].run \/ i # loop[w].step
      BY <1>2, <2>1, OrdersTyped DEF GateInv, GateHolds, Passed
    <2>2. CASE r = loop[w].run /\ i = loop[w].step /\ j = i
      BY <1>1, <2>2 DEF Passed, KindAt, DecisionAt
    <2>3. CASE r = loop[w].run /\ i = loop[w].step /\ j < i
      BY <1>1, <2>3 DEF GateInv, PassedBehind
    <2> QED
      BY <1>2, <2>1, <2>2, <2>3
  <1> QED
    BY <1>2, <1>3 DEF RowsKept, Passed

\* A loop that comes out neither at work nor pausing, or where it was.
LEMMA ArrivesIdly ==
  ASSUME NEW w \in Loops,
         \/ loop'[w].pc \notin {"lock", "boundary", "attempt", "record", "pause_step"}
         \/ loop'[w].pc \in {"lock", "boundary"} /\ loop'[w].step = loop[w].step
  PROVE  Arrives(w)
  BY DEF Arrives, Active

LEMMA GateThread ==
  ASSUME EngineTyped, OneDriver, GateInv, NEW w \in Loops, LoopStep(w)
  PROVE  GateInv'
  <1> USE DEF Untouched
  <1>0. TypeOK /\ loop \in [Loops -> LoopState] /\ LoopKnows(loop[w])
    BY DEF EngineTyped
  <1>a. {"boundary", "attempt", "record", "pause_step", "pause_run", "finally"} \subseteq PCs
        /\ {"cancelled", "failed", "succeeded"} \subseteq Ended
        /\ {"running", "awaiting_approval", "succeeded", "failed"} \subseteq StepStatus \ {"skipped"}
    BY DEF PCs, Ended, StepStatus
  <1> DEFINE still == UNCHANGED <<step_status, decision, orders>>
             approved == KindAt(w) \in Gated => DecisionAt(w) = "approved"
             writes(st) == AtWork(w) /\ SetStep(w, st) /\ UNCHANGED <<decision, orders>>
  <1>b. ASSUME still, Arrives(w) PROVE GateInv'
    BY <1>b, RowsUnread, HoldsKept, GatesKept
  <1>c. ASSUME NEW st \in StepStatus \ {"skipped"}, writes(st), Arrives(w),
               approved \/ (Recorded(w) # "skipped" /\ st # "succeeded")
        PROVE  GateInv'
    <2>1. RowsKept /\ OthersKept(w)
      BY <1>c, RowWritten
    <2> QED
      BY <1>c, <2>1, HoldsKept, GatesKept
  <1>d. ASSUME NEW pc, Goto(w, pc) PROVE loop'[w].pc = pc /\ loop'[w].step = loop[w].step
                                         /\ loop'[w].run = loop[w].run
    BY <1>0, <1>d DEF Goto, LoopState
  <1>e. ASSUME NEW outcome, Terminate(w, outcome) PROVE Arrives(w)
    BY <1>0, <1>e, ArrivesIdly DEF Terminate, LoopState
  <1>f. ASSUME NEW skip \in BOOLEAN, NextStep(w, skip)
        PROVE  loop'[w].pc = "boundary" /\ loop'[w].step = loop[w].step + 1
    BY <1>0, <1>f DEF NextStep, LoopAt, LoopState
  <1>1. CASE AcquireLock(w)
    <2>1. Arrives(w)
      BY <1>1, <1>d, <1>e, ArrivesIdly DEF AcquireLock
    <2> QED
      BY <1>1, <1>b, <2>1 DEF AcquireLock, database
  <1>2. CASE WriteOutcome(w) \/ EndLoop(w) \/ PauseRun(w)
    <2>1. loop'[w].pc \in {"finally", "idle"}
      BY <1>0, <1>2, <1>d, NoLoopTyped DEF WriteOutcome, EndLoop, PauseRun
    <2> QED
      BY <1>2, <1>b, <2>1, ArrivesIdly DEF WriteOutcome, EndLoop, PauseRun, database
  <1>3. CASE SeeCancel(w) \/ OutOfTime(w) \/ AllDone(w)
    BY <1>3, <1>b, <1>e DEF SeeCancel, OutOfTime, AllDone
  <1>4. CASE PassOver(w)
    <2>1. loop[w].run \in Runs /\ loop[w].step \in StepIds
      BY <1>4, StepAtHand DEF PassOver, AtWork
    <2>2. loop'[w].pc = "boundary" /\ loop'[w].step = loop[w].step + 1
      BY <1>0, <1>4, <1>f DEF PassOver, LoopState
    <2>3. Arrives(w)
      BY <1>4, <2>1, <2>2 DEF PassOver, Recorded, Arrives, GateInv, SucceededWasApproved
    <2> QED
      BY <1>4, <1>b, <2>3 DEF PassOver
  <1>5. CASE SkipStep(w)
    <2>1. loop[w].run \in Runs /\ loop[w].step \in StepIds
      BY <1>5, StepAtHand DEF SkipStep, Ahead, AtWork
    <2>2. loop'[w].pc = "boundary" /\ loop'[w].step = loop[w].step + 1
      BY <1>5, <1>f DEF SkipStep
    <2>3. step_status'[loop[w].run][loop[w].step] = "skipped"
      BY <1>0, <1>5, <2>1 DEF SkipStep, SetStep, TypeOK
    <2>4. Arrives(w)
      BY <2>2, <2>3 DEF Arrives
    <2> QED
      BY <1>5, <2>4, RowSkipped, HoldsKept, GatesKept DEF SkipStep
  <1>6. CASE EnterStep(w)
    <2>1. loop[w].run \in Runs /\ loop[w].step \in StepIds /\ AtWork(w) /\ Recorded(w) # "skipped"
      BY <1>6, StepAtHand DEF EnterStep, Ahead, AtWork
    <2>2. CASE SetStep(w, "running") /\ Goto(w, "attempt")
      <3>1. step_status'[loop[w].run][loop[w].step] = "running"
        BY <1>0, <2>1, <2>2 DEF SetStep, TypeOK
      <3>2. Arrives(w)
        BY <1>d, <2>2, <3>1 DEF Arrives
      <3> QED
        BY <1>6, <1>a, <1>c, <2>1, <2>2, <3>2 DEF EnterStep
    <2>3. CASE SetStep(w, "failed") /\ Terminate(w, "failed")
      BY <1>6, <1>a, <1>c, <1>e, <2>1, <2>3 DEF EnterStep
    <2> QED
      BY <1>6, <2>2, <2>3 DEF EnterStep
  <1>g. ASSUME loop[w].pc = "attempt" PROVE AtWork(w) /\ Recorded(w) # "skipped"
    BY <1>g DEF AtWork, GateInv, WorkNotSkipped, Recorded
  <1>7. CASE AttemptCancelled(w)
    BY <1>7, <1>a, <1>c, <1>e, <1>g DEF AttemptCancelled
  <1>h. ASSUME loop[w].pc \in {"attempt", "record"}, NEW skip \in BOOLEAN, approved,
               RecordSuccess(w, skip)
        PROVE  GateInv'
    <2>1. Arrives(w)
      BY <1>f, <1>h DEF RecordSuccess, Arrives, GatedStep, KindAt, DecisionAt
    <2> QED
      BY <1>a, <1>c, <1>h, <2>1 DEF RecordSuccess, AtWork
  <1>8. CASE Succeed(w)
    BY <1>8, <1>h DEF Succeed, Attempting, Gated
  <1>9. CASE SkipNext(w)
    BY <1>9, <1>h DEF SkipNext, Attempting, Gated
  <1>10. CASE RecordOrder(w)
    <2>1. approved
      BY <1>10, StepAtHand DEF RecordOrder, AtWork, KindAt, DecisionAt, GateInv, PlacedWasApproved,
                               GatedStep
    <2> QED
      BY <1>10, <1>h, <2>1 DEF RecordOrder
  <1>11. CASE ConditionFails(w)
    <2>1. approved /\ AtWork(w)
      BY <1>11 DEF ConditionFails, Attempting, Gated, AtWork
    <2> QED
      BY <1>11, <1>a, <1>c, <1>e, <2>1 DEF ConditionFails
  <1>i. ASSUME loop[w].pc = "attempt", Raise(w)
        PROVE  /\ UNCHANGED decision
               /\ \/ UNCHANGED step_status
                  \/ SetStep(w, "failed")
               /\ Arrives(w)
    <2>1. CASE loop' = [loop EXCEPT ![w].attempt = @ + 1] /\ UNCHANGED step_status
      <3>1. loop'[w].pc = "attempt" /\ loop'[w].step = loop[w].step /\ loop'[w].run = loop[w].run
        BY <1>0, <1>i, <2>1 DEF LoopState
      <3> QED
        BY <1>g, <1>i, <2>1, <3>1 DEF Raise, Arrives, Recorded
    <2>2. CASE SetStep(w, "failed") /\ Terminate(w, "failed")
      BY <1>e, <1>i, <2>2 DEF Raise
    <2> QED
      BY <1>i, <2>1, <2>2 DEF Raise
  <1>12. CASE Fail(w)
    <2>1. loop[w].pc = "attempt" /\ Raise(w) /\ UNCHANGED orders
      BY <1>12 DEF Fail, Attempting
    <2> QED
      BY <1>a, <1>b, <1>c, <1>g, <1>i, <2>1
  <1>13. CASE PlaceOrder(w)
    <2>1. loop[w].pc = "attempt" /\ approved
      BY <1>13, OrderPlaced DEF KindAt, DecisionAt
    <2>2. RowsKept /\ OthersKept(w) /\ Arrives(w)
      <3>1. CASE Raise(w)
        <4>1. CASE UNCHANGED step_status
          BY <1>i, <2>1, <3>1, <4>1, RowsUnread
        <4>2. CASE SetStep(w, "failed")
          BY <1>a, <1>g, <1>i, <2>1, <3>1, <4>2, RowWritten
        <4> QED
          BY <1>i, <2>1, <3>1, <4>1, <4>2
      <3>2. CASE Goto(w, "record") /\ UNCHANGED <<step_status, decision>>
        <4>1. loop'[w].pc = "record" /\ loop'[w].step = loop[w].step /\ loop'[w].run = loop[w].run
          BY <1>d, <3>2
        <4>2. Arrives(w)
          BY <1>g, <2>1, <3>2, <4>1 DEF Arrives, Recorded, GatedStep, KindAt, DecisionAt
        <4> QED
          BY <3>2, <4>2, RowsUnread
      <3> QED
        BY <1>13, <3>1, <3>2 DEF PlaceOrder
    <2> QED
      BY <1>13, <2>2, HoldsPlaced, GatesKept
  <1>16. CASE RegisterOrder(w)
    <2>1. loop[w].pc = "attempt" /\ approved /\ Goto(w, "record") /\ still
      BY <1>16 DEF RegisterOrder, OrderIsDue, Attempting, Gated, KindAt, DecisionAt
    <2>2. loop'[w].pc = "record" /\ loop'[w].step = loop[w].step /\ loop'[w].run = loop[w].run
      BY <1>d, <2>1
    <2>3. Arrives(w)
      BY <1>g, <2>1, <2>2 DEF Arrives, Recorded, GatedStep, KindAt, DecisionAt
    <2> QED
      BY <1>b, <2>1, <2>3
  <1>14. CASE AskApproval(w)
    <2>1. loop[w].pc = "attempt" /\ loop[w].run \in Runs /\ loop[w].step \in StepIds
      BY <1>14, StepAtHand DEF AskApproval, Attempting, AtWork
    <2>2. loop'[w].pc = "pause_step" /\ loop'[w].step = loop[w].step /\ loop'[w].run = loop[w].run
      BY <1>14, <1>d DEF AskApproval
    <2>3. decision'[loop[w].run][loop[w].step] = "pending"
      BY <1>0, <1>14, <2>1 DEF AskApproval, TypeOK
    <2>4. Arrives(w)
      BY <1>14, <1>g, <2>1, <2>2, <2>3 DEF Arrives, Active, AskApproval, Recorded
    <2> QED
      BY <1>14, <2>4, RowAsked, HoldsKept, GatesKept DEF AskApproval
  <1>15. CASE PauseStep(w)
    <2>1. loop[w].pc = "pause_step" /\ loop'[w].pc = "pause_run" /\ AtWork(w)
      BY <1>15, <1>d DEF PauseStep, AtWork
    <2>2. Arrives(w)
      BY <2>1, ArrivesIdly
    <2>3. DecisionAt(w) = "approved" \/ Recorded(w) # "skipped"
      BY <2>1 DEF DecisionAt, Recorded, GateInv, PausingWasAsked
    <2> QED
      BY <1>15, <1>a, <1>c, <2>1, <2>2, <2>3 DEF PauseStep
  <1> QED
    BY <1>1, <1>2, <1>3, <1>4, <1>5, <1>6, <1>7, <1>8, <1>9, <1>10, <1>11, <1>12,
       <1>13, <1>14, <1>15, <1>16 DEF LoopStep

LEMMA GatesUndisturbed ==
  ASSUME EngineTyped, GateInv, UNCHANGED <<step_status, loop, orders>>,
         \A r \in Runs, j \in StepIds :
           /\ decision[r][j] = "approved" => decision'[r][j] = "approved"
           /\ decision[r][j] # "none" => decision'[r][j] # "none"
  PROVE  GateInv'
  <1>1. \A v \in Loops : loop[v].pc \in {"attempt", "record", "pause_step"} =>
          loop[v].run \in Runs /\ loop[v].step \in StepIds
    BY StepAtHand DEF AtWork
  <1>2. RowsKept
    BY DEF RowsKept, Passed, GateInv, SucceededWasApproved, GatedStep
  <1>3. GateHolds'
    BY <1>2, HoldsKept
  <1>4. PassedBehind'
    <2> SUFFICES ASSUME NEW v \in Loops, Active(v), NEW j \in StepsOf(loop[v].run),
                        j < loop[v].step, Kind(loop[v].run, j) \in Gated
                 PROVE  decision'[loop[v].run][j] = "approved"
                        \/ step_status'[loop[v].run][j] = "skipped"
      BY DEF PassedBehind, Passed, StepsOf, Kind, PlanOf, Active
    <2>1. loop[v].run \in Runs
      BY DEF EngineTyped, TypeOK, Active
    <2>2. j \in StepIds /\ GatedStep(loop[v].run, j)
      BY <2>1, StepsAreNumbered DEF GatedStep
    <2> QED
      BY <1>2, <2>1, <2>2 DEF GateInv, PassedBehind, RowsKept, Passed
  <1>5. WorkNotSkipped' /\ PausingWasAsked'
    BY <1>1 DEF GateInv, WorkNotSkipped, PausingWasAsked
  <1>6. PlacedWasApproved'
    BY <1>1 DEF GateInv, PlacedWasApproved, GatedStep, StepsOf, Kind, PlanOf
  <1> QED
    BY <1>2, <1>3, <1>4, <1>5, <1>6 DEF GateInv, RowsKept

LEMMA GateStarts ==
  ASSUME EngineTyped, GateInv, NEW w \in Loops, NEW t \in tasks, StartLoop(w, t)
  PROVE  GateInv'
  <1>0. TypeOK /\ loop \in [Loops -> LoopState] /\ t.run \in Runs
    BY TasksTyped DEF EngineTyped
  <1>1. UNCHANGED <<step_status, decision, orders>> /\ \A v \in Loops : v # w => loop'[v] = loop[v]
    BY <1>0 DEF StartLoop, database
  <1>2. \/ UNCHANGED loop
        \/ loop'[w].run = t.run /\ loop'[w].pc = "lock" /\ loop'[w].step = 1
    BY <1>0 DEF StartLoop, LoopAt
  <1>3. GateHolds' /\ SucceededWasApproved'
    BY <1>1 DEF GateInv, GateHolds, SucceededWasApproved, GatedStep, StepsOf, Kind, PlanOf
  <1>4. PassedBehind'
    <2>1. \A j \in StepsOf(t.run) : ~(j < 1)
      <3>1. PlanOf(t.run) \in Seq(Kinds)
        BY <1>0, PlanAssumption DEF PlanOf
      <3> QED
        BY <3>1, LenProperties DEF StepsOf
    <2> QED
      BY <1>1, <1>2, <2>1 DEF GateInv, PassedBehind, Passed, Active, StepsOf, Kind, PlanOf
  <1>5. WorkNotSkipped' /\ PausingWasAsked' /\ PlacedWasApproved'
    BY <1>1, <1>2 DEF GateInv, WorkNotSkipped, PausingWasAsked, PlacedWasApproved,
                      GatedStep, StepsOf, Kind, PlanOf
  <1> QED
    BY <1>3, <1>4, <1>5 DEF GateInv

LEMMA GateStep ==
  ASSUME EngineTyped, OneDriver, GateInv, Next
  PROVE  GateInv'
  <1>1. ASSUME NEW r \in Runs,
               CreateRun(r) \/ ReadForCancel(r) \/ FlagCancel(r) \/ DirectCancel(r)
        PROVE  GateInv'
    BY <1>1, GatesUndisturbed DEF CreateRun, ReadForCancel, FlagCancel, DirectCancel, database
  <1>2. ASSUME NEW r \in Runs, NEW i \in StepIds, NEW d \in Decided, Decide(r, i, d)
        PROVE  GateInv'
    <2>1. decision[r][i] = "pending" /\ decision' = [decision EXCEPT ![r][i] = d]
          /\ UNCHANGED <<step_status, loop, orders>>
      BY <1>2 DEF Decide
    <2>2. \A q \in Runs, j \in StepIds :
            /\ decision[q][j] = "approved" => decision'[q][j] = "approved"
            /\ decision[q][j] # "none" => decision'[q][j] # "none"
      BY <2>1 DEF EngineTyped, TypeOK, Decided
    <2> QED
      BY <2>1, <2>2, GatesUndisturbed
  <1>3. ASSUME NEW r \in Runs, NEW i \in StepIds, Expire(r, i) PROVE GateInv'
    BY <1>3, GatesUndisturbed DEF Expire, memory
  <1>4. ASSUME Crash PROVE GateInv'
    <2>1. UNCHANGED <<step_status, decision, orders>> /\ \A w \in Loops : loop'[w].pc = "idle"
      BY <1>4, NoLoopTyped DEF Crash, database
    <2> QED
      BY <2>1 DEF GateInv, GateHolds, SucceededWasApproved, PassedBehind, WorkNotSkipped,
                  PausingWasAsked, PlacedWasApproved, GatedStep, StepsOf, Kind, PlanOf, Active
  <1> QED
    BY <1>1, <1>2, <1>3, <1>4, GateThread, GateStarts DEF Next

\* The induction behind the gates.
DrivenInv == EngineTyped /\ OneDriver /\ GateInv

LEMMA DrivenAlways == Spec => []DrivenInv
  <1>1. Init => DrivenInv
    <2> SUFFICES ASSUME Init PROVE DrivenInv
      OBVIOUS
    <2>1. \A w \in Loops : loop[w].pc = "idle"
      BY NoLoopTyped DEF Init
    <2>2. OneDriver
      BY <2>1 DEF Init, OneDriver, OneTask, OneLoop, LoopOrTask, OneApproval, RejectedIsOver,
                  AbsentIsUntouched, Handed, Active
    <2>3. GateHolds
      BY StepsAreNumbered DEF Init, GateHolds
    <2>4. GateInv
      BY <2>1, <2>3 DEF Init, GateInv, PassedBehind, WorkNotSkipped, PlacedWasApproved,
                        PausingWasAsked, SucceededWasApproved, Active
    <2> QED
      BY <2>2, <2>4, TypeInit DEF DrivenInv
  <1>2. DrivenInv /\ [Next]_vars => DrivenInv'
    <2>1. ASSUME DrivenInv, Next PROVE DrivenInv'
      BY <2>1, TypeStep, DriverStep, GateStep DEF DrivenInv
    <2>2. ASSUME DrivenInv, UNCHANGED vars PROVE DrivenInv'
      <3>1. UNCHANGED <<tasks, loop, decision, step_status, orders, run_status>>
        BY <2>2 DEF vars, database, memory
      <3>2. OneDriver'
        BY <2>2, <3>1, DriverUndisturbed DEF DrivenInv
      <3>3. GateInv'
        BY <2>2, <3>1, GatesUndisturbed DEF DrivenInv
      <3> QED
        BY <2>2, <3>2, <3>3, TypeStutter DEF DrivenInv
    <2> QED
      BY <2>1, <2>2
  <1> QED
    BY <1>1, <1>2, PTL DEF Spec

\* No order leaves before every gated step up to its own was approved or skipped:
\* whatever crashed, was resumed while it was still pausing, or was cancelled in
\* between (ARCHITECTURE.md section 7, approval gating).
THEOREM GatesAlwaysHold == Spec => []GateHolds
  <1>1. DrivenInv => GateHolds
    BY DEF DrivenInv, GateInv
  <1> QED
    BY <1>1, DrivenAlways, PTL

\* A run never has two drivers: a task for it, a loop at work on it and a pending
\* approval exclude each other, and a rejection leaves none (decide_approval's
\* check of the decision, engine.py's pause).
THEOREM NeverTwoDrivers == Spec => []OneDriver
  <1>1. DrivenInv => OneDriver
    BY DEF DrivenInv
  <1> QED
    BY <1>1, DrivenAlways, PTL
-----------------------------------------------------------------------------
(***************************************************************************)
(* The orders of a step.  A key makes one paper order.  An order of a step *)
(* without an approval belongs to one execution of it: the loop is still   *)
(* trying, or the step is recorded as done, or nobody will come to the run *)
(* again; and each try has sent one order at most.                         *)
(***************************************************************************)

KeysKept ==
  \A r \in Runs, i \in StepIds : \A n \in DOMAIN orders[r][i] : orders[r][i][n].crid = <<r, i>>

OnePaperOrder == \A r \in Runs, i \in StepIds : \A m, n \in OnPaper(r, i) : m = n

UngatedStep(r, i) == i \in StepsOf(r) /\ Kind(r, i) \notin Gated

\* Nobody is on the run, and nobody is asked to send it on.
Closed(r) == Handed(r) /\ \A j \in StepIds : decision[r][j] # "pending"

Trying(w, r, i) ==
  loop[w].pc \in {"attempt", "record"} /\ loop[w].run = r /\ loop[w].step = i

SentIsHeld ==
  \A r \in Runs, i \in StepIds : UngatedStep(r, i) =>
    \/ orders[r][i] = <<>>
    \/ step_status[r][i] = "succeeded"
    \/ Closed(r)
    \/ \E w \in Loops : Trying(w, r, i)

SendsCounted ==
  \A r \in Runs, i \in StepIds : UngatedStep(r, i) => Len(orders[r][i]) <= Budget(r, i)

\* The tries whose orders are out.
Tries(w) == IF loop[w].pc = "record" THEN loop[w].attempt ELSE loop[w].attempt - 1

TriesCounted ==
  \A w \in Loops :
    /\ loop[w].pc \in {"lock", "boundary"} => loop[w].attempt = 1
    /\ loop[w].pc \in {"attempt", "record"} =>
         /\ loop[w].attempt \in 1 .. Budget(loop[w].run, loop[w].step)
         /\ KindAt(w) \notin Gated => Len(orders[loop[w].run][loop[w].step]) <= Tries(w)
    /\ loop[w].pc = "pause_step" => KindAt(w) \in Gated

AbsentSentNothing ==
  \A r \in Runs : run_status[r] = "absent" => \A i \in StepIds : orders[r][i] = <<>>

SendInv ==
  /\ KeysKept /\ OnePaperOrder
  /\ SentIsHeld /\ SendsCounted /\ TriesCounted /\ AbsentSentNothing

LEMMA BudgetsAreNumbers ==
  ASSUME NEW r \in Runs, NEW i \in StepsOf(r)
  PROVE  MaxRetries[Kind(r, i)] \in Nat /\ Budget(r, i) \in Nat /\ Budget(r, i) >= 1
  <1>1. MaxRetries[Kind(r, i)] \in Nat
    BY StepsAreNumbered, PlanAssumption
  <1> QED
    BY <1>1 DEF Budget

LEMMA AppendedEntries ==
  ASSUME NEW s \in Seq(Order), NEW e \in Order
  PROVE  /\ \A n \in DOMAIN s : s[n] \in Order
         /\ \A n \in DOMAIN Append(s, e) :
              \/ n \in DOMAIN s /\ Append(s, e)[n] = s[n]
              \/ n = Len(s) + 1 /\ Append(s, e)[n] = e
  <1>1. DOMAIN s = 1 .. Len(s) /\ Len(s) \in Nat
    BY LenProperties
  <1>2. /\ Len(Append(s, e)) = Len(s) + 1 /\ Append(s, e) \in Seq(Order)
        /\ \A n \in 1 .. Len(s) : Append(s, e)[n] = s[n]
        /\ Append(s, e)[Len(s) + 1] = e
    BY AppendProperties
  <1>3. DOMAIN Append(s, e) = 1 .. Len(s) + 1
    BY <1>2, LenProperties
  <1>4. \A n \in DOMAIN s : s[n] \in Order
    BY ElementOfSeq, <1>1
  <1> QED
    BY <1>1, <1>2, <1>3, <1>4

\* An order is its broker and its key.
LEMMA KnownByKey ==
  ASSUME NEW a \in Order, NEW b \in Order, a.broker = b.broker, a.crid = b.crid
  PROVE  a = b
  BY DEF Order

\* One paper order for a key.
LEMMA KeysStep ==
  ASSUME EngineTyped, KeysKept, OnePaperOrder, NEW w \in Loops, PlaceOrder(w)
  PROVE  KeysKept' /\ OnePaperOrder'
  <1> PICK r, i : r = loop[w].run /\ i = loop[w].step
    OBVIOUS
  <1>1. r \in Runs /\ i \in StepIds
    BY OrderPlaced
  <1>2. orders[r][i] \in Seq(Order)
    BY <1>1 DEF EngineTyped, TypeOK
  <1>3. PICK order \in Order :
          /\ order.crid = <<r, i>>
          /\ \/ UNCHANGED orders
             \/ /\ order.broker = "paper" => ~Opened(r, i, order)
                /\ orders' = [orders EXCEPT ![r][i] = Append(@, order)]
    BY OrderPlaced
  <1>4. CASE UNCHANGED orders
    BY <1>4 DEF KeysKept, OnePaperOrder, OnPaper
  <1>5. CASE orders' = [orders EXCEPT ![r][i] = Append(@, order)]
            /\ (order.broker = "paper" => ~Opened(r, i, order))
    <2>1. \A q \in Runs, j \in StepIds : q # r \/ j # i => orders'[q][j] = orders[q][j]
      BY OrdersTyped
    <2>2. orders'[r][i] = Append(orders[r][i], order)
      BY <1>1, <1>5 DEF EngineTyped, TypeOK
    <2>3. /\ \A n \in DOMAIN orders[r][i] : orders[r][i][n] \in Order
          /\ \A n \in DOMAIN orders'[r][i] :
               \/ n \in DOMAIN orders[r][i] /\ orders'[r][i][n] = orders[r][i][n]
               \/ n = Len(orders[r][i]) + 1 /\ orders'[r][i][n] = order
      <3> DEFINE old == orders[r][i]
                 new == orders'[r][i]
      <3>1. old \in Seq(Order) /\ new = Append(old, order)
        BY <1>2, <2>2
      <3> HIDE DEF old, new
      <3>2. /\ \A n \in DOMAIN old : old[n] \in Order
            /\ \A n \in DOMAIN new :
                 \/ n \in DOMAIN old /\ new[n] = old[n]
                 \/ n = Len(old) + 1 /\ new[n] = order
        BY <3>1, AppendedEntries
      <3> QED
        BY <3>2 DEF old, new
    <2>4. KeysKept'
      <3>1. \A n \in DOMAIN orders'[r][i] : orders'[r][i][n].crid = <<r, i>>
        <4>1. \A n \in DOMAIN orders[r][i] : orders[r][i][n].crid = <<r, i>>
          BY <1>1 DEF KeysKept
        <4>2. order.crid = <<r, i>>
          BY <1>3
        <4>3. ASSUME NEW n \in DOMAIN orders'[r][i]
              PROVE  orders'[r][i][n].crid = <<r, i>>
          <5>1. CASE n \in DOMAIN orders[r][i] /\ orders'[r][i][n] = orders[r][i][n]
            BY <4>1, <5>1
          <5>2. CASE orders'[r][i][n] = order
            BY <4>2, <5>2
          <5> QED
            BY <2>3, <4>3, <5>1, <5>2
        <4> QED
          BY <4>3
      <3> QED
        BY <2>1, <3>1 DEF KeysKept
    <2>5. \A m, n \in DOMAIN orders'[r][i] :
            orders'[r][i][m].broker = "paper" /\ orders'[r][i][n].broker = "paper" => m = n
      <3>1. ASSUME NEW m \in DOMAIN orders[r][i], orders[r][i][m].broker = "paper"
            PROVE  order.broker # "paper"
        <4> DEFINE old == orders[r][i][m]
        <4>1. old \in Order /\ old.crid = <<r, i>>
          BY <1>1, <2>3, <3>1, Zenon DEF KeysKept
        <4>2. ASSUME order.broker = "paper" PROVE old = order
          <5>1. old.broker = "paper"
            BY <3>1
          <5> HIDE DEF old
          <5> QED
            BY <1>3, <4>1, <4>2, <5>1, KnownByKey
        <4> QED
          BY <1>5, <4>2 DEF Opened
      <3>2. \A m, n \in DOMAIN orders[r][i] :
              orders[r][i][m].broker = "paper" /\ orders[r][i][n].broker = "paper" => m = n
        BY <1>1 DEF OnePaperOrder, OnPaper
      <3> SUFFICES ASSUME NEW m \in DOMAIN orders'[r][i], NEW n \in DOMAIN orders'[r][i],
                          orders'[r][i][m].broker = "paper", orders'[r][i][n].broker = "paper"
                   PROVE  m = n
        OBVIOUS
      <3>3. CASE m \in DOMAIN orders[r][i] /\ n \in DOMAIN orders[r][i]
                 /\ orders'[r][i][m] = orders[r][i][m] /\ orders'[r][i][n] = orders[r][i][n]
        BY <3>2, <3>3
      <3>4. CASE m = Len(orders[r][i]) + 1 /\ n = Len(orders[r][i]) + 1
        BY <3>4
      <3>5. ASSUME NEW x \in DOMAIN orders[r][i], orders'[r][i][x] = orders[r][i][x],
                   orders'[r][i][x].broker = "paper",
                   NEW y \in DOMAIN orders'[r][i], orders'[r][i][y] = order,
                   orders'[r][i][y].broker = "paper"
            PROVE  FALSE
        BY <3>1, <3>5, Zenon
      <3> QED
        BY <2>3, <3>3, <3>4, <3>5, Zenon
    <2>6. OnePaperOrder'
      BY <2>1, <2>5 DEF OnePaperOrder, OnPaper
    <2> QED
      BY <2>4, <2>6
  <1> QED
    BY <1>3, <1>4, <1>5

\* What a thread at a step does to its row and its orders.
LEMMA ThreadSends ==
  ASSUME EngineTyped, NEW w \in Loops, LoopStep(w)
  PROVE  /\ UNCHANGED orders \/ PlaceOrder(w)
         /\ UNCHANGED step_status \/ (AtWork(w) /\ \E st \in StepStatus : SetStep(w, st))
         /\ Recorded(w) = "succeeded" /\ loop[w].pc = "boundary" => UNCHANGED step_status
         /\ loop[w].pc \in {"pause_run", "terminate", "finally"} => UNCHANGED step_status
         /\ loop[w].pc \in {"attempt", "record"} =>
              \/ /\ loop'[w].pc \in {"attempt", "record"}
                 /\ loop'[w].run = loop[w].run /\ loop'[w].step = loop[w].step
              \/ SetStep(w, "succeeded")
              \/ ~Active(w)'
  <1> USE DEF Untouched
  <1>0. loop \in [Loops -> LoopState]
    BY DEF EngineTyped
  <1>1. UNCHANGED orders \/ PlaceOrder(w)
    BY DEF LoopStep, AcquireLock, WriteOutcome, EndLoop, SeeCancel, OutOfTime, PassOver,
           SkipStep, EnterStep, AllDone, AttemptCancelled, Succeed, SkipNext, ConditionFails,
           Fail, RegisterOrder, RecordOrder, AskApproval, PauseStep, PauseRun, RecordSuccess,
           database
  <1>2. {"running", "awaiting_approval", "succeeded", "skipped", "failed"} \subseteq StepStatus
    BY DEF StepStatus
  <1>3. UNCHANGED step_status \/ (AtWork(w) /\ \E st \in StepStatus : SetStep(w, st))
    <2>1. ASSUME Raise(w), loop[w].pc = "attempt"
          PROVE  UNCHANGED step_status \/ (AtWork(w) /\ SetStep(w, "failed"))
      BY <2>1 DEF Raise, AtWork
    <2>2. CASE PlaceOrder(w) \/ Fail(w)
      BY <1>2, <2>1, <2>2 DEF PlaceOrder, Fail, OrderIsDue, Attempting
    <2>3. CASE SkipStep(w) \/ EnterStep(w)
      BY <1>2, <2>3 DEF SkipStep, EnterStep, Ahead, AtWork
    <2>4. CASE AttemptCancelled(w) \/ ConditionFails(w) \/ PauseStep(w)
      BY <1>2, <2>4 DEF AttemptCancelled, ConditionFails, PauseStep, Attempting, AtWork
    <2>5. CASE Succeed(w) \/ SkipNext(w) \/ RecordOrder(w)
      BY <1>2, <2>5 DEF Succeed, SkipNext, RecordOrder, RecordSuccess, Attempting, AtWork
    <2> QED
      BY <2>2, <2>3, <2>4, <2>5
         DEF LoopStep, AcquireLock, WriteOutcome, EndLoop, SeeCancel, OutOfTime, PassOver, AllDone,
             RegisterOrder, AskApproval, PauseRun, database
  <1>4. Recorded(w) = "succeeded" /\ loop[w].pc = "boundary" => UNCHANGED step_status
    BY DEF LoopStep, AcquireLock, WriteOutcome, EndLoop, SeeCancel, OutOfTime, PassOver, AllDone,
           SkipStep, EnterStep, Ahead, AttemptCancelled, Succeed, SkipNext, ConditionFails,
           Fail, PlaceOrder, RegisterOrder, RecordOrder, AskApproval, PauseStep, PauseRun,
           OrderIsDue, Attempting, database
  <1>5. loop[w].pc \in {"pause_run", "terminate", "finally"} => UNCHANGED step_status
    BY <1>3 DEF LoopStep, AcquireLock, WriteOutcome, EndLoop, SeeCancel, OutOfTime, PassOver,
           AllDone, SkipStep, EnterStep, Ahead, AtStep, AttemptCancelled, Succeed, SkipNext,
           ConditionFails, Fail, PlaceOrder, RegisterOrder, RecordOrder, AskApproval, PauseStep,
           PauseRun, OrderIsDue, Attempting, database
  <1>6. ASSUME NEW pc, Goto(w, pc)
        PROVE  loop'[w].pc = pc /\ loop'[w].run = loop[w].run /\ loop'[w].step = loop[w].step
    BY <1>0, <1>6 DEF Goto, LoopState
  <1>7. ASSUME NEW outcome, Terminate(w, outcome) PROVE ~Active(w)'
    BY <1>0, <1>7 DEF Terminate, Active, LoopState
  <1>8. ASSUME Raise(w)
        PROVE  \/ /\ loop'[w].pc = loop[w].pc
                  /\ loop'[w].run = loop[w].run /\ loop'[w].step = loop[w].step
               \/ ~Active(w)'
    BY <1>0, <1>7, <1>8 DEF Raise, LoopState
  <1>9. ASSUME loop[w].pc \in {"attempt", "record"}
        PROVE  \/ /\ loop'[w].pc \in {"attempt", "record"}
                  /\ loop'[w].run = loop[w].run /\ loop'[w].step = loop[w].step
               \/ SetStep(w, "succeeded")
               \/ ~Active(w)'
    <2>1. CASE PlaceOrder(w) \/ Fail(w) \/ RegisterOrder(w)
      BY <1>6, <1>8, <1>9, <2>1 DEF PlaceOrder, Fail, RegisterOrder
    <2>2. CASE AttemptCancelled(w)
      BY <1>7, <2>2 DEF AttemptCancelled
    <2>3. CASE Succeed(w) \/ SkipNext(w) \/ RecordOrder(w) \/ ConditionFails(w)
      BY <2>3 DEF Succeed, SkipNext, RecordOrder, RecordSuccess, ConditionFails
    <2>4. CASE AskApproval(w)
      BY <1>6, <2>4 DEF AskApproval, Active
    <2> QED
      BY <1>9, <2>1, <2>2, <2>3, <2>4
         DEF LoopStep, AcquireLock, WriteOutcome, EndLoop, SeeCancel, OutOfTime, PassOver, AllDone,
             SkipStep, EnterStep, Ahead, AtStep, PauseStep, PauseRun
  <1> QED
    BY <1>1, <1>3, <1>4, <1>5, <1>9

\* A run that is being driven has sent nothing it does not account for.
LEMMA CarriedSends ==
  ASSUME EngineTyped, OneDriver, SentIsHeld, NEW w \in Loops, Active(w),
         NEW j \in StepIds, UngatedStep(loop[w].run, j)
  PROVE  \/ orders[loop[w].run][j] = <<>>
         \/ step_status[loop[w].run][j] = "succeeded"
         \/ Trying(w, loop[w].run, j)
  <1>1. loop[w].run \in Runs
    BY DEF EngineTyped, TypeOK, Active
  <1>2. ~Closed(loop[w].run)
    BY DEF Closed, Handed
  <1>3. ASSUME NEW v \in Loops, Trying(v, loop[w].run, j) PROVE v = w
    BY <1>3 DEF Trying, Active, OneDriver, OneLoop
  <1> QED
    BY <1>1, <1>2, <1>3 DEF SentIsHeld

\* A thread that leaves off leaves nobody behind it.
LEMMA LeftIsClosed ==
  ASSUME EngineTyped, OneDriver, NEW w \in Loops, LoopStep(w), Active(w), ~Active(w)',
         ~AskApproval(w), NEW r \in Runs, loop[w].run = r
  PROVE  Closed(r)'
  <1>1. ~Handed(r)
    BY DEF Active, Handed
  <1>2. UNCHANGED <<tasks, decision>> /\ \A v \in Loops : v # w => loop'[v] = loop[v]
    BY ThreadStep, ThreadDecides DEF ThreadFrame, EngineTyped
  <1>3. \A v \in Loops : Active(v)' => loop'[v].run # r
    BY <1>2 DEF OneDriver, OneLoop, Active
  <1>4. \A t \in tasks' : t.run # r
    BY <1>2 DEF OneDriver, LoopOrTask
  <1>5. \A j \in StepIds : decision'[r][j] # "pending"
    BY <1>1, <1>2 DEF OneDriver, OneApproval
  <1> QED
    BY <1>3, <1>4, <1>5 DEF Closed, Handed

LEMMA HandedKept ==
  ASSUME EngineTyped, NEW w \in Loops, LoopStep(w), NEW q \in Runs, Handed(q)
  PROVE  Handed(q)'
  <1>1. UNCHANGED tasks /\ \A v \in Loops : v # w => loop'[v] = loop[v]
    BY ThreadStep DEF ThreadFrame, EngineTyped
  <1>2. Active(w)' => Active(w) /\ loop'[w].run = loop[w].run
    BY ThreadStep, NoWayBack DEF Active, ThreadFrame
  <1> QED
    BY <1>1, <1>2 DEF Handed, Active

\* Another step than the thread's is not touched.
LEMMA OtherRowsKept ==
  ASSUME EngineTyped, NEW w \in Loops, LoopStep(w), NEW q \in Runs, NEW j \in StepIds,
         q # loop[w].run \/ j # loop[w].step
  PROVE  step_status'[q][j] = step_status[q][j] /\ orders'[q][j] = orders[q][j]
  <1>1. orders'[q][j] = orders[q][j]
    BY ThreadSends, OrdersTyped
  <1>2. CASE UNCHANGED step_status
    BY <1>1, <1>2
  <1>3. ASSUME AtWork(w), NEW st \in StepStatus, SetStep(w, st)
        PROVE  step_status'[q][j] = step_status[q][j]
    BY <1>3, StepAtHand DEF SetStep, EngineTyped, TypeOK
  <1> QED
    BY <1>1, <1>2, <1>3, ThreadSends

LEMMA SentHeldByThread ==
  ASSUME EngineTyped, OneDriver, SendInv, NEW w \in Loops, LoopStep(w)
  PROVE  SentIsHeld'
  <1> PICK r, i : r = loop[w].run /\ i = loop[w].step
    OBVIOUS
  <1>0. /\ SentIsHeld /\ TriesCounted /\ ThreadFrame(w)
        /\ \A v \in Loops : v # w => loop'[v] = loop[v]
    BY ThreadStep DEF SendInv, ThreadFrame, EngineTyped
  <1>1. \A q \in Runs : q # r \/ ~AskApproval(w) =>
          \A j \in StepIds : decision'[q][j] = decision[q][j]
    <2>1. CASE AskApproval(w)
      <3>1. decision' = [decision EXCEPT ![r][i] = "pending"]
        BY <2>1 DEF AskApproval
      <3>2. decision \in [Runs -> [StepIds -> {"none", "pending"} \cup Decided]]
        BY DEF EngineTyped, TypeOK
      <3> QED
        BY <2>1, <3>1, <3>2
    <2>2. CASE UNCHANGED decision
      BY <2>2
    <2> QED
      BY <2>1, <2>2, ThreadDecides
  <1>2. ASSUME NEW q \in Runs, q # r \/ ~AskApproval(w), Closed(q) PROVE Closed(q)'
    BY <1>1, <1>2, HandedKept DEF Closed
  <1> SUFFICES ASSUME NEW q \in Runs, NEW j \in StepIds, UngatedStep(q, j)
               PROVE  \/ orders'[q][j] = <<>>
                      \/ step_status'[q][j] = "succeeded"
                      \/ Closed(q)'
                      \/ \E v \in Loops : Trying(v, q, j)'
    BY DEF SentIsHeld, UngatedStep, StepsOf, Kind, PlanOf
  <1>3. ASSUME NEW v \in Loops \ {w}, Trying(v, q, j) PROVE Trying(v, q, j)'
    BY <1>0, <1>3 DEF Trying
  <1>4. CASE ~Active(w)
    <2>1. ~AskApproval(w) /\ ~PlaceOrder(w) /\ ~Trying(w, q, j)
      BY <1>4, OrderPlaced DEF AskApproval, Attempting, Active, Trying
    <2>2. UNCHANGED orders
      BY <2>1, ThreadSends
    <2>3. step_status'[q][j] = step_status[q][j]
      <3>1. CASE loop[w].pc = "pause_step"
        <4>1. Kind(r, i) \in Gated
          BY <1>0, <3>1 DEF TriesCounted, KindAt
        <4> QED
          BY <4>1, OtherRowsKept DEF UngatedStep
      <3>2. CASE loop[w].pc \in {"pause_run", "terminate", "finally"}
        BY <3>2, ThreadSends
      <3>3. loop[w].pc \in {"pause_step", "pause_run", "terminate", "finally"}
        BY <1>0, <1>4 DEF Active, ThreadFrame, EngineTyped, LoopState, PCs
      <3> QED
        BY <3>1, <3>2, <3>3
    <2> QED
      BY <1>0, <1>2, <1>3, <2>1, <2>2, <2>3 DEF SentIsHeld
  <1>5. CASE Active(w) /\ q # r
    <2>1. ~Trying(w, q, j)
      BY <1>5 DEF Trying
    <2>2. step_status'[q][j] = step_status[q][j] /\ orders'[q][j] = orders[q][j]
      BY <1>5, OtherRowsKept
    <2> QED
      BY <1>0, <1>2, <1>3, <1>5, <2>1, <2>2 DEF SentIsHeld
  <1>6. CASE Active(w) /\ q = r /\ ~Trying(w, r, j)
    <2>1. orders[r][j] = <<>> \/ step_status[r][j] = "succeeded"
      BY <1>0, <1>6, CarriedSends
    <2>2. ~PlaceOrder(w) \/ j # i
      BY <1>6, OrderPlaced DEF Trying
    <2>3. orders'[r][j] = orders[r][j]
      BY <1>6, <2>2, ThreadSends, OtherRowsKept
    <2>4. step_status[r][j] = "succeeded" => step_status'[r][j] = "succeeded"
      <3>1. CASE j # i
        BY <1>6, <3>1, OtherRowsKept
      <3>2. CASE j = i
        <4>1. loop[w].pc \in {"lock", "boundary"}
          BY <1>6, <3>2 DEF Trying, Active
        <4> QED
          BY <3>2, <4>1, ThreadSends DEF Recorded, AtWork, AtStep
      <3> QED
        BY <3>1, <3>2
    <2> QED
      BY <1>6, <2>1, <2>3, <2>4
  <1>7. CASE Active(w) /\ q = r /\ Trying(w, r, j)
    <2>1. j = i /\ loop[w].pc \in {"attempt", "record"}
      BY <1>7 DEF Trying
    <2>2. CASE loop'[w].pc \in {"attempt", "record"} /\ loop'[w].run = r /\ loop'[w].step = i
      BY <1>7, <2>1, <2>2 DEF Trying
    <2>3. CASE SetStep(w, "succeeded")
      BY <1>7, <2>1, <2>3 DEF SetStep, EngineTyped, TypeOK
    <2>4. CASE ~Active(w)'
      <3>1. ~AskApproval(w)
        BY <1>7, <2>1 DEF AskApproval, Attempting, KindAt, UngatedStep
      <3> QED
        BY <1>7, <2>4, <3>1, LeftIsClosed, Zenon
    <2> QED
      BY <2>1, <2>2, <2>3, <2>4, ThreadSends
  <1> QED
    BY <1>4, <1>5, <1>6, <1>7

\* One more order for one more try.
LEMMA PlacedIsCounted ==
  ASSUME EngineTyped, TriesCounted, NEW w \in Loops, PlaceOrder(w), KindAt(w) \notin Gated
  PROVE  /\ Len(orders'[loop[w].run][loop[w].step]) <= loop[w].attempt
         /\ loop[w].attempt \in 1 .. Budget(loop[w].run, loop[w].step)
  <1> PICK r, i : r = loop[w].run /\ i = loop[w].step
    OBVIOUS
  <1>1. loop[w].pc = "attempt" /\ r \in Runs /\ i \in StepIds
    BY OrderPlaced
  <1>2. loop[w].attempt \in 1 .. Budget(r, i) /\ Len(orders[r][i]) <= loop[w].attempt - 1
    BY <1>1 DEF TriesCounted, Tries
  <1>3. orders[r][i] \in Seq(Order) /\ Len(orders[r][i]) \in Nat
    BY <1>1 DEF EngineTyped, TypeOK
  <1> DEFINE before == orders[r][i]
             after == orders'[r][i]
             n == loop[w].attempt
  <1>4. n \in Nat /\ n \in 1 .. Budget(r, i) /\ Len(before) <= n - 1
    BY <1>2 DEF EngineTyped, LoopState
  <1>5. before \in Seq(Order) /\ Len(before) \in Nat
    BY <1>3
  <1>6. after = before \/ \E order \in Order : after = Append(before, order)
    BY OrdersTyped
  <1> HIDE DEF before, after, n
  <1>7. Len(after) \in Nat /\ Len(after) <= Len(before) + 1
    BY <1>5, <1>6, AppendProperties
  <1>8. Len(after) <= n
    BY <1>4, <1>5, <1>7
  <1> QED
    BY <1>4, <1>8 DEF after, n

LEMMA TriesCountedByThread ==
  ASSUME EngineTyped, OneDriver, SendInv, NEW w \in Loops, LoopStep(w)
  PROVE  TriesCounted'
  <1> USE DEF Untouched
  <1>0. /\ SentIsHeld /\ TriesCounted /\ loop \in [Loops -> LoopState]
        /\ \A v \in Loops : v # w => loop'[v] = loop[v]
    BY ThreadStep DEF SendInv, ThreadFrame, EngineTyped
  <1> DEFINE counted(l, sent) ==
               /\ l.pc \in {"lock", "boundary"} => l.attempt = 1
               /\ l.pc \in {"attempt", "record"} =>
                    /\ l.attempt \in 1 .. Budget(l.run, l.step)
                    /\ Kind(l.run, l.step) \notin Gated =>
                         Len(sent) <= IF l.pc = "record" THEN l.attempt ELSE l.attempt - 1
               /\ l.pc = "pause_step" => Kind(l.run, l.step) \in Gated
  <1>a. TriesCounted = \A v \in Loops : counted(loop[v], orders[loop[v].run][loop[v].step])
    BY DEF TriesCounted, Tries, KindAt
  <1>b. TriesCounted' = \A v \in Loops : counted(loop'[v], orders'[loop'[v].run][loop'[v].step])
    BY DEF TriesCounted, Tries, KindAt, Kind, PlanOf, Budget
  <1> DEFINE l == loop[w]
             m == loop'[w]
             sent == orders[l.run][l.step]
  <1>c. counted(l, sent)
    BY <1>0, <1>a
  <1>1. ASSUME NEW v \in Loops, v # w
        PROVE  counted(loop'[v], orders'[loop'[v].run][loop'[v].step])
    <2>1. CASE loop[v].pc \notin {"attempt", "record"} \/ ~PlaceOrder(w)
      <3>1. counted(loop[v], orders[loop[v].run][loop[v].step]) /\ loop'[v] = loop[v]
        BY <1>0, <1>1, <1>a
      <3>2. loop[v].pc \notin {"attempt", "record"} \/ UNCHANGED orders
        BY <2>1, ThreadSends
      <3> QED
        BY <3>1, <3>2
    <2>2. CASE loop[v].pc \in {"attempt", "record"} /\ PlaceOrder(w)
      <3>1. loop[w].pc = "attempt" /\ Active(w) /\ Active(v)
        BY <2>2, OrderPlaced DEF Active
      <3>2. loop[v].run # loop[w].run
        BY <1>1, <3>1 DEF OneDriver, OneLoop
      <3>3. loop[v].run \in Runs /\ loop[v].step \in StepIds
        BY <2>2, StepAtHand DEF AtWork
      <3>4. orders'[loop[v].run][loop[v].step] = orders[loop[v].run][loop[v].step]
        BY <3>2, <3>3, OtherRowsKept
      <3>5. counted(loop[v], orders[loop[v].run][loop[v].step]) /\ loop'[v] = loop[v]
        BY <1>0, <1>1, <1>a
      <3> QED
        BY <3>4, <3>5
    <2> QED
      BY <2>1, <2>2
  <1> DEFINE done == counted(m, orders'[m.run][m.step])
  <1>2. ASSUME m.pc \in {"pause_run", "terminate", "finally", "idle"} PROVE done
    BY <1>2
  <1>3. ASSUME m.pc = "boundary", m.attempt = 1 PROVE done
    BY <1>3
  <1>d. ASSUME NEW outcome, Terminate(w, outcome) PROVE m.pc = "terminate"
    BY <1>0, <1>d DEF Terminate, LoopState
  <1>e. ASSUME NEW skip, NextStep(w, skip) PROVE m.pc = "boundary" /\ m.attempt = 1
    BY <1>0, <1>e DEF NextStep, LoopAt, LoopState
  <1>f. ASSUME NEW pc, Goto(w, pc)
        PROVE  m.pc = pc /\ m.run = l.run /\ m.step = l.step /\ m.attempt = l.attempt
    BY <1>0, <1>f DEF Goto, LoopState
  <1> HIDE DEF done
  <1>4. ASSUME AcquireLock(w) PROVE done
    <2>1. l.pc = "lock" /\ l.attempt = 1
      BY <1>4, <1>c DEF AcquireLock
    <2> QED
      BY <1>4, <1>2, <1>3, <1>d, <1>f, <2>1 DEF AcquireLock
  <1>5. ASSUME WriteOutcome(w) \/ PauseRun(w) \/ PauseStep(w) PROVE done
    BY <1>5, <1>2, <1>f DEF WriteOutcome, PauseRun, PauseStep
  <1>6. ASSUME EndLoop(w) PROVE done
    <2>1. m.pc = "idle"
      BY <1>0, <1>6, NoLoopTyped DEF EndLoop
    <2> QED
      BY <1>2, <2>1
  <1>7. ASSUME SeeCancel(w) \/ OutOfTime(w) \/ AllDone(w) \/ AttemptCancelled(w) \/ ConditionFails(w)
        PROVE  done
    BY <1>7, <1>2, <1>d DEF SeeCancel, OutOfTime, AllDone, AttemptCancelled, ConditionFails
  <1>8. ASSUME PassOver(w) \/ SkipStep(w) \/ Succeed(w) \/ SkipNext(w) \/ RecordOrder(w)
        PROVE  done
    BY <1>8, <1>3, <1>e DEF PassOver, SkipStep, Succeed, SkipNext, RecordOrder, RecordSuccess
  <1>9. ASSUME EnterStep(w) PROVE done
    <2>1. /\ l.pc = "boundary" /\ l.attempt = 1 /\ AtWork(w) /\ Active(w)
          /\ Recorded(w) # "succeeded" /\ UNCHANGED orders
      BY <1>9, <1>c DEF EnterStep, Ahead, AtStep, AtWork, Active
    <2>2. l.run \in Runs /\ l.step \in StepIds /\ l.step \in StepsOf(l.run)
      BY <2>1, StepAtHand
    <2>3. Kind(l.run, l.step) \notin Gated => sent = <<>>
      BY <1>0, <2>1, <2>2, CarriedSends DEF UngatedStep, Trying, Recorded
    <2>4. CASE Goto(w, "attempt")
      <3>1. m.pc = "attempt" /\ m.run = l.run /\ m.step = l.step /\ m.attempt = 1
        BY <1>f, <2>1, <2>4
      <3>2. 1 \in 1 .. Budget(l.run, l.step)
        BY <2>2, BudgetsAreNumbers
      <3>3. Len(<<>>) = 0
        OBVIOUS
      <3> HIDE DEF l, m, sent
      <3> QED
        BY <2>1, <2>3, <3>1, <3>2, <3>3 DEF done, sent
    <2>5. CASE Terminate(w, "failed")
      BY <1>2, <1>d, <2>5
    <2> QED
      BY <1>9, <2>4, <2>5 DEF EnterStep
  <1>10. ASSUME AskApproval(w) PROVE done
    <2>1. m.pc = "pause_step" /\ m.run = l.run /\ m.step = l.step /\ Kind(l.run, l.step) \in Gated
      BY <1>10, <1>f DEF AskApproval, Attempting, KindAt
    <2> QED
      BY <2>1 DEF done
  <1>g. ASSUME Raise(w), l.pc = "attempt",
               Kind(l.run, l.step) \notin Gated => Len(orders'[l.run][l.step]) <= l.attempt
        PROVE  done
    <2>1. CASE l.attempt <= MaxRetries[KindAt(w)] /\ loop' = [loop EXCEPT ![w].attempt = @ + 1]
      <3>1. m.pc = "attempt" /\ m.run = l.run /\ m.step = l.step /\ m.attempt = l.attempt + 1
        BY <1>0, <1>g, <2>1 DEF LoopState
      <3>2. l.run \in Runs /\ l.step \in StepsOf(l.run) /\ l.attempt \in Nat
        BY <1>g, StepAtHand DEF AtWork
      <3>3. m.attempt \in 1 .. Budget(l.run, l.step)
        <4>1. MaxRetries[Kind(l.run, l.step)] \in Nat
          BY <3>2, BudgetsAreNumbers
        <4>2. l.attempt <= MaxRetries[Kind(l.run, l.step)]
          BY <2>1 DEF KindAt
        <4> QED
          BY <3>1, <3>2, <4>1, <4>2 DEF Budget
      <3>4. m.attempt - 1 = l.attempt
        BY <3>1, <3>2
      <3> HIDE DEF l, m
      <3> QED
        BY <1>g, <3>1, <3>3, <3>4 DEF done
    <2>2. CASE Terminate(w, "failed")
      BY <1>2, <1>d, <2>2
    <2> QED
      BY <1>g, <2>1, <2>2 DEF Raise
  <1>h. ASSUME l.pc = "attempt"
        PROVE  Kind(l.run, l.step) \notin Gated => Len(sent) <= l.attempt
    <2>1. Kind(l.run, l.step) \notin Gated => Len(sent) <= l.attempt - 1
      BY <1>c, <1>h
    <2>2. l.run \in Runs /\ l.step \in StepIds /\ l.attempt \in Nat
      BY <1>h, StepAtHand DEF AtWork
    <2>3. Len(sent) \in Nat
      BY <2>2 DEF EngineTyped, TypeOK
    <2> QED
      BY <2>1, <2>2, <2>3
  <1>11. ASSUME Fail(w) PROVE done
    BY <1>11, <1>g, <1>h DEF Fail, Attempting
  <1>i. ASSUME Goto(w, "record"), l.pc = "attempt",
               Kind(l.run, l.step) \notin Gated => Len(orders'[l.run][l.step]) <= l.attempt
        PROVE  done
    <2>1. m.pc = "record" /\ m.run = l.run /\ m.step = l.step /\ m.attempt = l.attempt
      BY <1>f, <1>i
    <2>2. l.attempt \in 1 .. Budget(l.run, l.step)
      BY <1>c, <1>i
    <2> HIDE DEF l, m
    <2> QED
      BY <1>i, <2>1, <2>2 DEF done
  <1>12. ASSUME PlaceOrder(w) PROVE done
    <2>1. l.pc = "attempt"
      BY <1>12, OrderPlaced
    <2>2. Kind(l.run, l.step) \notin Gated => Len(orders'[l.run][l.step]) <= l.attempt
      BY <1>0, <1>12, PlacedIsCounted DEF KindAt
    <2> QED
      BY <1>12, <1>g, <1>i, <2>1, <2>2 DEF PlaceOrder
  <1>13. ASSUME RegisterOrder(w) PROVE done
    <2>1. l.pc = "attempt" /\ Goto(w, "record") /\ UNCHANGED orders
      BY <1>13 DEF RegisterOrder, OrderIsDue, Attempting
    <2> QED
      BY <1>h, <1>i, <2>1
  <1>14. done
    BY <1>4, <1>5, <1>6, <1>7, <1>8, <1>9, <1>10, <1>11, <1>12, <1>13 DEF LoopStep
  <1> QED
    BY <1>1, <1>14, <1>b DEF done

LEMMA SendThread ==
  ASSUME EngineTyped, OneDriver, SendInv, NEW w \in Loops, LoopStep(w)
  PROVE  SendInv'
  <1>0. KeysKept /\ OnePaperOrder /\ SendsCounted /\ TriesCounted /\ AbsentSentNothing
    BY DEF SendInv
  <1>1. KeysKept' /\ OnePaperOrder'
    <2>1. CASE UNCHANGED orders
      BY <1>0, <2>1 DEF KeysKept, OnePaperOrder, OnPaper
    <2> QED
      BY <1>0, <2>1, KeysStep, ThreadSends
  <1>2. SendsCounted'
    <2> SUFFICES ASSUME NEW q \in Runs, NEW j \in StepIds, UngatedStep(q, j)
                 PROVE  Len(orders'[q][j]) <= Budget(q, j)
      BY DEF SendsCounted, UngatedStep, StepsOf, Kind, PlanOf, Budget
    <2>1. CASE q # loop[w].run \/ j # loop[w].step \/ ~PlaceOrder(w)
      <3>1. orders'[q][j] = orders[q][j]
        BY <2>1, OtherRowsKept, ThreadSends
      <3> QED
        BY <1>0, <3>1 DEF SendsCounted
    <2>2. CASE q = loop[w].run /\ j = loop[w].step /\ PlaceOrder(w)
      <3> DEFINE n == loop[w].attempt
                 sent == Len(orders'[q][j])
      <3>1. sent <= n /\ n \in 1 .. Budget(q, j)
        BY <1>0, <2>2, PlacedIsCounted DEF UngatedStep, KindAt
      <3>2. orders'[q][j] \in Seq(Order)
        BY <2>2, OrdersTyped
      <3>3. sent \in Nat
        BY <3>2
      <3>4. Budget(q, j) \in Nat
        BY BudgetsAreNumbers DEF UngatedStep
      <3> HIDE DEF n, sent
      <3>5. sent <= Budget(q, j)
        BY <3>1, <3>3, <3>4
      <3> QED
        BY <3>5 DEF sent
    <2> QED
      BY <2>1, <2>2
  <1>3. AbsentSentNothing'
    <2> SUFFICES ASSUME NEW q \in Runs, run_status'[q] = "absent", NEW j \in StepIds
                 PROVE  orders'[q][j] = <<>>
      BY DEF AbsentSentNothing
    <2>1. run_status[q] = "absent"
      BY ThreadSettles
    <2>2. Handed(q)
      BY <2>1 DEF OneDriver, AbsentIsUntouched
    <2>3. ~PlaceOrder(w) \/ q # loop[w].run
      BY <2>2, OrderPlaced DEF Handed, Active
    <2>4. orders'[q][j] = orders[q][j]
      BY <2>3, ThreadSends, OtherRowsKept
    <2> QED
      BY <1>0, <2>1, <2>4 DEF AbsentSentNothing
  <1> QED
    BY <1>1, <1>2, <1>3, SentHeldByThread, TriesCountedByThread DEF SendInv

\* What leaves the orders, the rows and the loops at work as they are.
LEMMA SendsUndisturbed ==
  ASSUME EngineTyped, SendInv, UNCHANGED <<orders, step_status>>,
         \A v \in Loops : loop'[v] = loop[v]
                          \/ (loop[v].pc = "idle" /\ loop'[v].pc = "lock" /\ loop'[v].attempt = 1),
         \A q \in Runs : (\E j \in StepIds : orders[q][j] # <<>>) /\ Closed(q) => Closed(q)',
         \A q \in Runs : run_status'[q] = "absent" => run_status[q] = "absent"
  PROVE  SendInv'
  <1>0. KeysKept /\ OnePaperOrder /\ SentIsHeld /\ SendsCounted /\ TriesCounted /\ AbsentSentNothing
    BY DEF SendInv
  <1>1. KeysKept' /\ OnePaperOrder' /\ AbsentSentNothing'
    BY <1>0 DEF KeysKept, OnePaperOrder, OnPaper, AbsentSentNothing
  <1>2. SendsCounted'
    BY <1>0 DEF SendsCounted, UngatedStep, StepsOf, Kind, PlanOf, Budget
  <1>3. TriesCounted'
    <2> SUFFICES ASSUME NEW v \in Loops
                 PROVE  /\ loop'[v].pc \in {"lock", "boundary"} => loop'[v].attempt = 1
                        /\ loop'[v].pc \in {"attempt", "record"} =>
                             /\ loop'[v].attempt \in 1 .. Budget(loop'[v].run, loop'[v].step)
                             /\ KindAt(v)' \notin Gated =>
                                  Len(orders'[loop'[v].run][loop'[v].step]) <= Tries(v)'
                        /\ loop'[v].pc = "pause_step" => KindAt(v)' \in Gated
      BY DEF TriesCounted, Budget, Kind, PlanOf
    <2>1. CASE loop'[v] = loop[v]
      BY <1>0, <2>1 DEF TriesCounted, KindAt, Tries, Kind, PlanOf
    <2>2. CASE loop'[v].pc = "lock" /\ loop'[v].attempt = 1
      BY <2>2
    <2> QED
      BY <2>1, <2>2
  <1>4. SentIsHeld'
    <2> SUFFICES ASSUME NEW q \in Runs, NEW j \in StepIds, UngatedStep(q, j), orders[q][j] # <<>>
                 PROVE  \/ step_status[q][j] = "succeeded"
                        \/ Closed(q)'
                        \/ \E v \in Loops : Trying(v, q, j)'
      BY DEF SentIsHeld, UngatedStep, StepsOf, Kind, PlanOf
    <2>1. ASSUME NEW v \in Loops, Trying(v, q, j) PROVE Trying(v, q, j)'
      BY <2>1 DEF Trying
    <2> QED
      BY <1>0, <2>1 DEF SentIsHeld
  <1> QED
    BY <1>1, <1>2, <1>3, <1>4 DEF SendInv

LEMMA SendCrash ==
  ASSUME EngineTyped, OneDriver, SendInv, Crash
  PROVE  SendInv'
  <1>0. /\ KeysKept /\ OnePaperOrder /\ SentIsHeld /\ SendsCounted /\ AbsentSentNothing
        /\ UNCHANGED <<orders, step_status, decision, run_status>>
        /\ tasks' = {} /\ \A v \in Loops : loop'[v].pc = "idle"
    BY NoLoopTyped DEF SendInv, Crash, database
  <1>1. KeysKept' /\ OnePaperOrder' /\ AbsentSentNothing' /\ SendsCounted'
    BY <1>0 DEF KeysKept, OnePaperOrder, OnPaper, AbsentSentNothing, SendsCounted, UngatedStep,
                StepsOf, Kind, PlanOf, Budget
  <1>2. TriesCounted'
    BY <1>0 DEF TriesCounted
  <1>3. SentIsHeld'
    <2> SUFFICES ASSUME NEW q \in Runs, NEW j \in StepIds, UngatedStep(q, j), orders[q][j] # <<>>
                 PROVE  step_status[q][j] = "succeeded" \/ Closed(q)'
      BY <1>0 DEF SentIsHeld, UngatedStep, StepsOf, Kind, PlanOf
    <2>1. Handed(q)'
      BY <1>0 DEF Handed, Active
    <2>2. ASSUME NEW v \in Loops, Trying(v, q, j)
          PROVE  \A k \in StepIds : decision[q][k] # "pending"
      BY <2>2 DEF OneDriver, OneApproval, Handed, Trying, Active
    <2> QED
      BY <1>0, <2>1, <2>2 DEF SentIsHeld, Closed
  <1> QED
    BY <1>1, <1>2, <1>3 DEF SendInv

LEMMA SendStep ==
  ASSUME EngineTyped, OneDriver, SendInv, Next
  PROVE  SendInv'
  <1>0. TypeOK /\ loop \in [Loops -> LoopState]
    BY DEF EngineTyped
  <1>1. ASSUME NEW r \in Runs, CreateRun(r) PROVE SendInv'
    <2>1. /\ UNCHANGED <<orders, step_status, loop, decision>>
          /\ run_status[r] = "absent" /\ tasks' = tasks \cup {Task(r, FALSE)}
          /\ run_status' = [run_status EXCEPT ![r] = "running"]
      BY <1>1 DEF CreateRun
    <2>2. \A j \in StepIds : orders[r][j] = <<>>
      BY <2>1 DEF SendInv, AbsentSentNothing
    <2>3. ASSUME NEW q \in Runs, q # r, Closed(q) PROVE Closed(q)'
      <3>1. Task(r, FALSE).run = r
        BY DEF Task
      <3> QED
        BY <2>1, <2>3, <3>1 DEF Closed, Handed, Active
    <2>4. \A q \in Runs : run_status'[q] = "absent" => run_status[q] = "absent"
      BY <1>0, <2>1 DEF TypeOK
    <2> QED
      BY <2>1, <2>2, <2>3, <2>4, SendsUndisturbed
  <1>2. ASSUME NEW r \in Runs, ReadForCancel(r) \/ FlagCancel(r) \/ DirectCancel(r)
        PROVE  SendInv'
    <2>1. /\ UNCHANGED <<orders, step_status, loop, decision, tasks>>
          /\ \A q \in Runs : run_status'[q] = "absent" => run_status[q] = "absent"
      BY <1>0, <1>2 DEF ReadForCancel, FlagCancel, DirectCancel, database, TypeOK
    <2>2. \A q \in Runs : Closed(q) => Closed(q)'
      BY <2>1 DEF Closed, Handed, Active
    <2> QED
      BY <2>1, <2>2, SendsUndisturbed
  <1>3. ASSUME NEW w \in Loops, NEW t \in tasks, StartLoop(w, t) PROVE SendInv'
    <2>1. /\ UNCHANGED <<orders, step_status, decision, run_status>>
          /\ loop[w].pc = "idle" /\ tasks' = tasks \ {t}
          /\ \A v \in Loops : v # w => loop'[v] = loop[v]
          /\ \/ UNCHANGED loop
             \/ loop'[w].pc = "lock" /\ loop'[w].attempt = 1 /\ loop'[w].run = t.run
      BY <1>0, <1>3 DEF StartLoop, LoopAt, database
    <2>2. ASSUME NEW q \in Runs, Closed(q) PROVE Closed(q)'
      BY <2>1, <2>2 DEF Closed, Handed, Active
    <2>3. \A v \in Loops : loop'[v] = loop[v]
            \/ (loop[v].pc = "idle" /\ loop'[v].pc = "lock" /\ loop'[v].attempt = 1)
      BY <2>1
    <2> QED
      BY <2>1, <2>2, <2>3, SendsUndisturbed
  <1>4. ASSUME NEW r \in Runs, NEW i \in StepIds, NEW d \in Decided, Decide(r, i, d)
        PROVE  SendInv'
    <2>1. /\ UNCHANGED <<orders, step_status, loop>>
          /\ decision[r][i] = "pending" /\ decision' = [decision EXCEPT ![r][i] = d]
      BY <1>4 DEF Decide
    <2>2. \A q \in Runs : run_status'[q] = "absent" => run_status[q] = "absent"
      <3>1. \/ run_status' = [run_status EXCEPT ![r] = "cancelled"]
            \/ run_status' = [run_status EXCEPT ![r] = "running"]
        BY <1>4 DEF Decide
      <3> QED
        BY <1>0, <3>1 DEF TypeOK
    <2>3. ASSUME NEW q \in Runs, Closed(q) PROVE Closed(q)'
      <3>1. q # r
        BY <2>1, <2>3 DEF Closed
      <3>2. \A j \in StepIds : decision'[q][j] = decision[q][j]
        BY <1>0, <2>1, <3>1 DEF TypeOK
      <3>3. tasks' = tasks \/ tasks' = tasks \cup {Task(r, TRUE)}
        BY <1>4 DEF Decide
      <3>4. Task(r, TRUE).run = r
        BY DEF Task
      <3> QED
        BY <2>1, <2>3, <3>1, <3>2, <3>3, <3>4 DEF Closed, Handed, Active
    <2> QED
      BY <2>1, <2>2, <2>3, SendsUndisturbed
  <1>5. ASSUME NEW r \in Runs, NEW i \in StepIds, Expire(r, i) PROVE SendInv'
    <2>1. UNCHANGED <<orders, step_status, loop, decision, tasks, run_status>>
      BY <1>5 DEF Expire, memory
    <2>2. \A q \in Runs : Closed(q) => Closed(q)'
      BY <2>1 DEF Closed, Handed, Active
    <2> QED
      BY <2>1, <2>2, SendsUndisturbed
  <1> QED
    BY <1>1, <1>2, <1>3, <1>4, <1>5, SendThread, SendCrash DEF Next

\* Retries whose answers were lost, loops that are resumed twice, restarts and a
\* user who changes accounts in between never make two paper orders of a step; and
\* a step without an approval never makes more orders, of any kind, than one
\* execution of it has tries (routing.py, _wf_crid; engine.py, execute_run).
THEOREM OnlyRetriesResend == Spec => []ResendsAreRetries
  <1>1. Init => SendInv
    <2> SUFFICES ASSUME Init PROVE SendInv
      OBVIOUS
    <2>1. \A r \in Runs, i \in StepIds : orders[r][i] = <<>>
      BY DEF Init
    <2>2. \A w \in Loops : loop[w].pc = "idle"
      BY NoLoopTyped DEF Init
    <2>3. DOMAIN <<>> = {} /\ Len(<<>>) = 0
      OBVIOUS
    <2>4. SendsCounted
      BY <2>1, <2>3, BudgetsAreNumbers DEF SendsCounted, UngatedStep
    <2>5. KeysKept /\ OnePaperOrder /\ SentIsHeld /\ AbsentSentNothing
      BY <2>1, <2>3 DEF KeysKept, OnePaperOrder, OnPaper, SentIsHeld, AbsentSentNothing
    <2>6. TriesCounted
      BY <2>2 DEF TriesCounted
    <2> QED
      BY <2>4, <2>5, <2>6 DEF SendInv
  <1>2. DrivenInv /\ SendInv /\ [Next]_vars => SendInv'
    <2>1. ASSUME DrivenInv, SendInv, UNCHANGED vars PROVE SendInv'
      <3>1. UNCHANGED <<orders, step_status, loop, decision, tasks, run_status>>
        BY <2>1 DEF vars, database, memory
      <3>2. \A q \in Runs : Closed(q) => Closed(q)'
        BY <3>1 DEF Closed, Handed, Active
      <3> QED
        BY <2>1, <3>1, <3>2, SendsUndisturbed DEF DrivenInv
    <2> QED
      BY <2>1, SendStep DEF DrivenInv
  <1>3. SendInv => ResendsAreRetries
    <2> SUFFICES ASSUME SendInv, NEW r \in Runs, NEW i \in StepsOf(r)
                 PROVE  /\ \A m, n \in OnPaper(r, i) : m = n
                        /\ Kind(r, i) \notin Gated => Len(orders[r][i]) <= Budget(r, i)
      BY DEF ResendsAreRetries
    <2>1. i \in StepIds
      BY StepsAreNumbered
    <2> QED
      BY <2>1 DEF SendInv, OnePaperOrder, SendsCounted, UngatedStep
  <1> QED
    BY <1>1, <1>2, <1>3, DrivenAlways, PTL DEF Spec

-----------------------------------------------------------------------------
(***************************************************************************)
(* The engine against the abstract desk.  A gate's state is read off its   *)
(* approval and its step's row; a skipped step never has an approval       *)
(* asked for it, or an answer would open the gate a second time.           *)
(***************************************************************************)

SkippedUnasked ==
  \A r \in Runs, j \in StepIds :
    step_status[r][j] = "skipped" => decision[r][j] \in {"none", "approved"}

DeskInv == DrivenInv /\ SkippedUnasked

\* The row a thread writes, when it does not skip the step: one it works on, and
\* not a skipped one unless its approval stands.
LEMMA RowAtWork ==
  ASSUME GateInv, NEW w \in Loops, LoopStep(w), ~SkipStep(w)
  PROVE  \/ UNCHANGED step_status
         \/ /\ AtWork(w)
            /\ DecisionAt(w) = "approved" \/ Recorded(w) # "skipped"
            /\ \E st \in StepStatus \ {"skipped"} : SetStep(w, st)
  <1> USE DEF Untouched
  <1>0. {"running", "awaiting_approval", "succeeded", "failed"} \subseteq StepStatus \ {"skipped"}
    BY DEF StepStatus
  <1>1. CASE EnterStep(w)
    BY <1>0, <1>1 DEF EnterStep, Ahead, AtWork
  <1>2. CASE PauseStep(w)
    BY <1>0, <1>2 DEF PauseStep, AtWork, GateInv, PausingWasAsked, DecisionAt, Recorded
  <1>3. ASSUME loop[w].pc \in {"attempt", "record"}, NEW st \in {"succeeded", "failed"},
               SetStep(w, st)
        PROVE  /\ AtWork(w) /\ Recorded(w) # "skipped"
               /\ \E s \in StepStatus \ {"skipped"} : SetStep(w, s)
    BY <1>0, <1>3 DEF AtWork, GateInv, WorkNotSkipped, Recorded
  <1>4. \/ EnterStep(w) \/ PauseStep(w) \/ UNCHANGED step_status
        \/ /\ loop[w].pc \in {"attempt", "record"}
           /\ SetStep(w, "succeeded") \/ SetStep(w, "failed")
    BY DEF LoopStep, AcquireLock, WriteOutcome, EndLoop, SeeCancel, OutOfTime, PassOver, AllDone,
           AttemptCancelled, Succeed, SkipNext, ConditionFails, Fail, PlaceOrder, RegisterOrder, RecordOrder,
           AskApproval, PauseRun, RecordSuccess, Raise, OrderIsDue, Attempting, database
  <1> QED
    BY <1>1, <1>2, <1>3, <1>4

LEMMA GatedStepsAre ==
  ASSUME NEW g \in GatedSteps
  PROVE  /\ g = <<g[1], g[2]>> /\ g[1] \in Runs /\ g[2] \in StepIds /\ g[2] \in Nat
         /\ GatedStep(g[1], g[2])
  BY StepsAreNumbered DEF GatedSteps, GatedStep

LEMMA DeskGateIs ==
  /\ DeskGate = [g \in GatedSteps |-> GateOf(g[1], g[2])]
  /\ DeskGate' = [g \in GatedSteps |->
                    IF decision'[g[1]][g[2]] # "approved" /\ step_status'[g[1]][g[2]] = "skipped"
                    THEN "skipped" ELSE decision'[g[1]][g[2]]]
  <1>1. UNCHANGED GatedSteps
    BY DEF GatedSteps, StepIds, StepsOf, Kind, PlanOf
  <1> QED
    BY <1>1 DEF DeskGate, GateOf

LEMMA GatesUnmoved ==
  ASSUME EngineTyped, UNCHANGED decision,
         \A r \in Runs, j \in StepIds : decision[r][j] # "approved" =>
           (step_status'[r][j] = "skipped" <=> step_status[r][j] = "skipped")
  PROVE  UNCHANGED DeskGate
  BY DeskGateIs, GatedStepsAre DEF GateOf

\* A thread that neither skips nor asks opens and shuts nothing.
LEMMA GatesUnmovedByThread ==
  ASSUME EngineTyped, GateInv, NEW w \in Loops, LoopStep(w), ~SkipStep(w), UNCHANGED decision
  PROVE  UNCHANGED DeskGate
         /\ \A r \in Runs, j \in StepIds :
              step_status'[r][j] = "skipped" => step_status[r][j] = "skipped"
  <1>0. TypeOK
    BY DEF EngineTyped
  <1>1. CASE UNCHANGED step_status
    BY <1>1, GatesUnmoved
  <1>2. ASSUME AtWork(w), NEW st \in StepStatus \ {"skipped"}, SetStep(w, st),
               DecisionAt(w) = "approved" \/ Recorded(w) # "skipped"
        PROVE  UNCHANGED DeskGate
               /\ \A r \in Runs, j \in StepIds :
                    step_status'[r][j] = "skipped" => step_status[r][j] = "skipped"
    <2>1. loop[w].run \in Runs /\ loop[w].step \in StepIds
      BY <1>2, StepAtHand
    <2>2. \A r \in Runs, j \in StepIds :
            /\ r = loop[w].run /\ j = loop[w].step => step_status'[r][j] = st
            /\ r # loop[w].run \/ j # loop[w].step => step_status'[r][j] = step_status[r][j]
      BY <1>0, <1>2, <2>1 DEF SetStep, TypeOK
    <2>3. \A r \in Runs, j \in StepIds : decision[r][j] # "approved" =>
            (step_status'[r][j] = "skipped" <=> step_status[r][j] = "skipped")
      BY <1>2, <2>2 DEF DecisionAt, Recorded
    <2> QED
      BY <1>2, <2>2, <2>3, GatesUnmoved
  <1> QED
    BY <1>1, <1>2, RowAtWork

\* A run that a loop carries has no answer outstanding and no refusal.
LEMMA CarriedIsDecided ==
  ASSUME EngineTyped, OneDriver, NEW w \in Loops, Active(w), NEW j \in StepIds
  PROVE  loop[w].run \in Runs /\ decision[loop[w].run][j] \in {"none", "approved"}
  <1>1. loop[w].run \in Runs
    BY DEF EngineTyped, TypeOK, Active
  <1>2. decision[loop[w].run][j] \notin {"pending", "rejected"}
    BY <1>1 DEF OneDriver, OneApproval, RejectedIsOver, Handed
  <1> QED
    BY <1>1, <1>2 DEF EngineTyped, TypeOK, Decided

LEMMA CarriedHasReached ==
  ASSUME DrivenInv, NEW w \in Loops, Active(w)
  PROVE  Desk!Reached(loop[w].run, loop[w].step)
  <1> SUFFICES ASSUME NEW g \in GatedSteps, g[1] = loop[w].run
               PROVE  /\ DeskGate[g] \notin {"pending", "rejected"}
                      /\ g[2] < loop[w].step => DeskGate[g] \in {"approved", "skipped"}
    BY DEF Desk!Reached, Desk!GatesOf, Desk!Open
  <1>1. /\ g[2] \in StepIds /\ GatedStep(loop[w].run, g[2])
        /\ decision[loop[w].run][g[2]] \in {"none", "approved"}
    BY GatedStepsAre, CarriedIsDecided DEF DrivenInv
  <1>2. g[2] < loop[w].step => Passed(loop[w].run, g[2])
    BY <1>1 DEF DrivenInv, GateInv, PassedBehind, GatedStep
  <1> QED
    BY <1>1, <1>2, DeskGateIs DEF GateOf, Passed

\* What the desk sees of a thread's step.
LEMMA DeskAsks ==
  ASSUME DrivenInv, NEW w \in Loops, AskApproval(w)
  PROVE  \E g \in GatedSteps : Desk!Ask(g)
  <1> PICK r, i : r = loop[w].run /\ i = loop[w].step
    OBVIOUS
  <1>0. EngineTyped /\ TypeOK /\ loop[w].pc = "attempt" /\ Active(w) /\ UNCHANGED <<step_status, orders>>
    BY DEF DrivenInv, EngineTyped, AskApproval, Attempting, Active
  <1>1. r \in Runs /\ i \in StepsOf(r) /\ i \in StepIds /\ Kind(r, i) \in Gated
    BY <1>0, StepAtHand DEF AtWork, AskApproval, Attempting, KindAt
  <1>2. <<r, i>> \in GatedSteps
    BY <1>1 DEF GatedSteps
  <1>3. decision[r][i] = "none" /\ step_status[r][i] # "skipped"
    BY <1>0, <1>1, CarriedIsDecided
       DEF DrivenInv, GateInv, WorkNotSkipped, AskApproval, DecisionAt, Decided
  <1>4. \A q \in Runs, j \in StepIds :
          /\ q = r /\ j = i => decision'[q][j] = "pending"
          /\ q # r \/ j # i => decision'[q][j] = decision[q][j]
    BY <1>0, <1>1 DEF AskApproval, TypeOK
  <1>5. DeskGate[<<r, i>>] = "none"
    BY <1>2, <1>3, DeskGateIs DEF GateOf
  <1>6. DeskGate' = [DeskGate EXCEPT ![<<r, i>>] = "pending"]
    <2>1. \A g \in GatedSteps : g = <<r, i>> \/ g[1] # r \/ g[2] # i
      BY GatedStepsAre
    <2>2. ASSUME NEW g \in GatedSteps
          PROVE  DeskGate'[g] = IF g = <<r, i>> THEN "pending" ELSE DeskGate[g]
      <3>1. g[1] \in Runs /\ g[2] \in StepIds
        BY GatedStepsAre
      <3>2. CASE g = <<r, i>>
        BY <1>0, <1>1, <1>3, <1>4, <3>2, DeskGateIs
      <3>3. CASE g # <<r, i>>
        BY <1>0, <1>4, <2>1, <3>1, <3>3, DeskGateIs DEF GateOf
      <3> QED
        BY <3>2, <3>3
    <2> QED
      BY <2>2, DeskGateIs
  <1>7. UNCHANGED DeskSent
    BY <1>0 DEF DeskSent
  <1>8. Desk!Reached(r, i)
    BY <1>0, CarriedHasReached
  <1> QED
    BY <1>2, <1>5, <1>6, <1>7, <1>8 DEF Desk!Ask

LEMMA DeskSkips ==
  ASSUME DrivenInv, NEW w \in Loops, SkipStep(w)
  PROVE  (\E g \in GatedSteps : Desk!Skip(g)) \/ UNCHANGED <<DeskGate, DeskSent>>
  <1> PICK r, i : r = loop[w].run /\ i = loop[w].step
    OBVIOUS
  <1>0. /\ EngineTyped /\ TypeOK /\ Active(w) /\ AtWork(w) /\ UNCHANGED <<decision, orders>>
        /\ step_status[r][i] # "skipped"
    BY DEF DrivenInv, EngineTyped, SkipStep, Ahead, AtStep, AtWork, Active, Untouched, Recorded
  <1>1. r \in Runs /\ i \in StepsOf(r) /\ i \in StepIds /\ decision[r][i] \in {"none", "approved"}
    BY <1>0, StepAtHand, CarriedIsDecided DEF DrivenInv
  <1>2. \A q \in Runs, j \in StepIds :
          /\ q = r /\ j = i => step_status'[q][j] = "skipped"
          /\ q # r \/ j # i => step_status'[q][j] = step_status[q][j]
    BY <1>0, <1>1 DEF SkipStep, SetStep, TypeOK
  <1>3. UNCHANGED DeskSent
    BY <1>0 DEF DeskSent
  <1>4. CASE <<r, i>> \notin GatedSteps \/ decision[r][i] = "approved"
    <2>1. \A g \in GatedSteps : g # <<r, i>> => g[1] # r \/ g[2] # i
      BY GatedStepsAre
    <2>2. ASSUME NEW g \in GatedSteps PROVE DeskGate'[g] = DeskGate[g]
      BY <1>0, <1>2, <1>4, <2>1, GatedStepsAre, DeskGateIs DEF GateOf
    <2> QED
      BY <1>3, <2>2, DeskGateIs
  <1>5. CASE <<r, i>> \in GatedSteps /\ decision[r][i] = "none"
    <2>1. DeskGate[<<r, i>>] = "none"
      BY <1>0, <1>5, DeskGateIs DEF GateOf
    <2>2. ASSUME NEW g \in GatedSteps
          PROVE  DeskGate'[g] = IF g = <<r, i>> THEN "skipped" ELSE DeskGate[g]
      <3>1. g[1] \in Runs /\ g[2] \in StepIds /\ (g = <<r, i>> \/ g[1] # r \/ g[2] # i)
        BY GatedStepsAre
      <3>2. CASE g = <<r, i>>
        BY <1>0, <1>1, <1>2, <1>5, <3>2, DeskGateIs
      <3>3. CASE g # <<r, i>>
        BY <1>0, <1>2, <3>1, <3>3, DeskGateIs DEF GateOf
      <3> QED
        BY <3>2, <3>3
    <2>3. DeskGate' = [DeskGate EXCEPT ![<<r, i>>] = "skipped"]
      BY <2>2, DeskGateIs
    <2>4. Desk!Reached(r, i)
      BY <1>0, CarriedHasReached
    <2> QED
      BY <1>3, <1>5, <2>1, <2>3, <2>4 DEF Desk!Skip
  <1> QED
    BY <1>1, <1>4, <1>5

LEMMA DeskSends ==
  ASSUME DrivenInv, NEW w \in Loops, PlaceOrder(w), UNCHANGED DeskGate
  PROVE  (\E r \in Runs, i \in StepIds : Desk!Send(r, i)) \/ UNCHANGED <<DeskGate, DeskSent>>
  <1> PICK r, i : r = loop[w].run /\ i = loop[w].step
    OBVIOUS
  <1>0. EngineTyped /\ TypeOK
    BY DEF DrivenInv, EngineTyped
  <1>1. /\ r \in Runs /\ i \in StepIds /\ Active(w)
        /\ Kind(r, i) \in Gated => decision[r][i] = "approved"
    BY <1>0, OrderPlaced DEF Active
  <1>2. UNCHANGED DeskSent \/ DeskSent' = [DeskSent EXCEPT ![<<r, i>>] = @ + 1]
    <2>1. CASE UNCHANGED orders
      BY <2>1 DEF DeskSent
    <2>2. ASSUME NEW order \in Order, orders'[r][i] = Append(orders[r][i], order)
          PROVE  DeskSent' = [DeskSent EXCEPT ![<<r, i>>] = @ + 1]
      <3>1. Len(orders'[r][i]) = Len(orders[r][i]) + 1
        <4> DEFINE old == orders[r][i]
        <4>1. old \in Seq(Order)
          BY <1>0, <1>1 DEF TypeOK
        <4> HIDE DEF old
        <4>2. Len(Append(old, order)) = Len(old) + 1
          BY <4>1
        <4> QED
          BY <2>2, <4>2 DEF old
      <3>2. \A q \in Runs, j \in StepIds :
              <<q, j>> # <<r, i>> => orders'[q][j] = orders[q][j]
        BY <1>0, OrdersTyped
      <3>3. /\ DeskSent = [s \in Runs \X StepIds |-> Len(orders[s[1]][s[2]])]
            /\ DeskSent' = [s \in Runs \X StepIds |-> Len(orders'[s[1]][s[2]])]
        BY DEF DeskSent
      <3>4. \A s \in Runs \X StepIds :
              Len(orders'[s[1]][s[2]]) = IF s = <<r, i>> THEN Len(orders[r][i]) + 1
                                         ELSE Len(orders[s[1]][s[2]])
        <4> SUFFICES ASSUME NEW s \in Runs \X StepIds
                     PROVE  Len(orders'[s[1]][s[2]]) = IF s = <<r, i>> THEN Len(orders[r][i]) + 1
                                                       ELSE Len(orders[s[1]][s[2]])
          OBVIOUS
        <4>1. CASE s = <<r, i>>
          BY <3>1, <4>1
        <4>2. CASE s # <<r, i>>
          BY <3>2, <4>2
        <4> QED
          BY <4>1, <4>2
      <3> QED
        BY <1>1, <3>3, <3>4
    <2> QED
      BY <1>0, <2>1, <2>2, OrdersTyped
  <1>3. <<r, i>> \in GatedSteps => DeskGate[<<r, i>>] = "approved"
    <2>1. ASSUME <<r, i>> \in GatedSteps PROVE decision[r][i] = "approved"
      BY <1>1, <2>1, GatedStepsAre DEF GatedStep
    <2> QED
      BY <2>1, DeskGateIs DEF GateOf
  <1>4. Desk!Reached(r, i)
    BY <1>1, CarriedHasReached
  <1> QED
    BY <1>1, <1>2, <1>3, <1>4 DEF Desk!Send

LEMMA DeskAnswers ==
  ASSUME DeskInv, NEW r \in Runs, NEW i \in StepIds, NEW d \in Decided, Decide(r, i, d)
  PROVE  (\E g \in GatedSteps : Desk!Answer(g, d)) \/ UNCHANGED <<DeskGate, DeskSent>>
  <1>0. /\ TypeOK /\ decision[r][i] = "pending" /\ UNCHANGED <<step_status, orders>>
        /\ step_status[r][i] # "skipped"
    BY DEF DeskInv, DrivenInv, EngineTyped, SkippedUnasked, Decide
  <1>1. \A q \in Runs, j \in StepIds :
          /\ q = r /\ j = i => decision'[q][j] = d
          /\ q # r \/ j # i => decision'[q][j] = decision[q][j]
    BY <1>0 DEF Decide, TypeOK
  <1>2. UNCHANGED DeskSent
    BY <1>0 DEF DeskSent
  <1>3. ASSUME NEW g \in GatedSteps
        PROVE  DeskGate'[g] = IF g = <<r, i>> THEN d ELSE DeskGate[g]
    <2>1. g[1] \in Runs /\ g[2] \in StepIds /\ (g = <<r, i>> \/ g[1] # r \/ g[2] # i)
      BY GatedStepsAre
    <2>2. CASE g = <<r, i>>
      BY <1>0, <1>1, <2>2, DeskGateIs
    <2>3. CASE g # <<r, i>>
      BY <1>0, <1>1, <2>1, <2>3, DeskGateIs DEF GateOf
    <2> QED
      BY <2>2, <2>3
  <1>4. CASE <<r, i>> \notin GatedSteps
    BY <1>2, <1>3, <1>4, DeskGateIs
  <1>5. CASE <<r, i>> \in GatedSteps
    <2>1. DeskGate[<<r, i>>] = "pending"
      BY <1>0, <1>5, DeskGateIs DEF GateOf
    <2>2. DeskGate' = [DeskGate EXCEPT ![<<r, i>>] = d]
      BY <1>3, DeskGateIs
    <2> QED
      BY <1>2, <1>5, <2>1, <2>2 DEF Desk!Answer
  <1> QED
    BY <1>4, <1>5

\* A thread's step, on the desk and on the rows behind it.
LEMMA DeskThread ==
  ASSUME DeskInv, NEW w \in Loops, LoopStep(w)
  PROVE  [Desk!Next]_(Desk!vars) /\ SkippedUnasked'
  <1>0. DrivenInv /\ EngineTyped /\ TypeOK /\ OneDriver /\ GateInv /\ SkippedUnasked
    BY DEF DeskInv, DrivenInv, EngineTyped
  <1>1. CASE SkipStep(w)
    <2>1. [Desk!Next]_(Desk!vars)
      BY <1>0, <1>1, DeskSkips DEF Desk!Next, Desk!vars
    <2>2. loop[w].run \in Runs /\ loop[w].step \in StepIds /\ Active(w) /\ UNCHANGED decision
      BY <1>0, <1>1, StepAtHand DEF SkipStep, Ahead, AtStep, AtWork, Active, Untouched
    <2>3. \A q \in Runs, j \in StepIds :
            q # loop[w].run \/ j # loop[w].step => step_status'[q][j] = step_status[q][j]
      BY <1>0, <1>1, <2>2 DEF SkipStep, SetStep, TypeOK
    <2>4. SkippedUnasked'
      BY <1>0, <2>2, <2>3, CarriedIsDecided DEF SkippedUnasked
    <2> QED
      BY <2>1, <2>4
  <1>2. CASE AskApproval(w)
    <2>1. [Desk!Next]_(Desk!vars)
      BY <1>0, <1>2, DeskAsks DEF Desk!Next, Desk!vars
    <2>2. /\ loop[w].run \in Runs /\ loop[w].step \in StepIds /\ UNCHANGED step_status
          /\ step_status[loop[w].run][loop[w].step] # "skipped"
      BY <1>0, <1>2, StepAtHand DEF AskApproval, Attempting, AtWork, GateInv, WorkNotSkipped
    <2>3. \A q \in Runs, j \in StepIds :
            q # loop[w].run \/ j # loop[w].step => decision'[q][j] = decision[q][j]
      BY <1>0, <1>2, <2>2 DEF AskApproval, TypeOK
    <2>4. SkippedUnasked'
      BY <1>0, <2>2, <2>3 DEF SkippedUnasked
    <2> QED
      BY <2>1, <2>4
  <1>3. CASE ~SkipStep(w) /\ ~AskApproval(w)
    <2>0. UNCHANGED decision
      BY <1>3, ThreadDecides
    <2>1. UNCHANGED DeskGate
          /\ \A r \in Runs, j \in StepIds :
               step_status'[r][j] = "skipped" => step_status[r][j] = "skipped"
      BY <1>0, <1>3, <2>0, GatesUnmovedByThread
    <2>2. SkippedUnasked'
      BY <1>0, <2>0, <2>1 DEF SkippedUnasked
    <2>3. CASE PlaceOrder(w)
      BY <1>0, <2>1, <2>2, <2>3, DeskSends DEF Desk!Next, Desk!vars
    <2>4. CASE UNCHANGED orders
      BY <2>1, <2>2, <2>4 DEF DeskSent, Desk!vars
    <2>5. PlaceOrder(w) \/ UNCHANGED orders
      BY DEF LoopStep, AcquireLock, WriteOutcome, EndLoop, SeeCancel, OutOfTime, PassOver,
             SkipStep, EnterStep, AllDone, AttemptCancelled, Succeed, SkipNext, ConditionFails,
             Fail, RegisterOrder, RecordOrder, AskApproval, PauseStep, PauseRun, RecordSuccess,
             database
    <2> QED
      BY <2>3, <2>4, <2>5
  <1> QED
    BY <1>1, <1>2, <1>3

LEMMA DeskStep ==
  ASSUME DeskInv, Next
  PROVE  [Desk!Next]_(Desk!vars) /\ SkippedUnasked'
  <1>0. DrivenInv /\ EngineTyped /\ TypeOK /\ SkippedUnasked
    BY DEF DeskInv, DrivenInv, EngineTyped
  <1>1. ASSUME NEW r \in Runs, NEW i \in StepIds, NEW d \in Decided, Decide(r, i, d)
        PROVE  [Desk!Next]_(Desk!vars) /\ SkippedUnasked'
    <2>1. [Desk!Next]_(Desk!vars)
      BY <1>1, DeskAnswers DEF Desk!Next, Desk!vars, Decided
    <2>2. decision[r][i] = "pending" /\ UNCHANGED step_status
      BY <1>1 DEF Decide
    <2>3. step_status[r][i] # "skipped"
      BY <1>0, <2>2 DEF SkippedUnasked
    <2>4. \A q \in Runs, j \in StepIds :
            q # r \/ j # i => decision'[q][j] = decision[q][j]
      BY <1>0, <1>1 DEF Decide, TypeOK
    <2>5. SkippedUnasked'
      BY <1>0, <2>2, <2>3, <2>4 DEF SkippedUnasked
    <2> QED
      BY <2>1, <2>5
  <1>2. ASSUME UNCHANGED <<step_status, decision, orders>>
        PROVE  [Desk!Next]_(Desk!vars) /\ SkippedUnasked'
    <2>1. UNCHANGED DeskGate
      BY <1>0, <1>2, GatesUnmoved
    <2>2. UNCHANGED DeskSent
      BY <1>2 DEF DeskSent
    <2> QED
      BY <1>0, <1>2, <2>1, <2>2 DEF Desk!vars, SkippedUnasked
  <1>3. \/ \E w \in Loops : LoopStep(w)
        \/ \E r \in Runs, i \in StepIds, d \in Decided : Decide(r, i, d)
        \/ UNCHANGED <<step_status, decision, orders>>
    BY DEF Next, CreateRun, ReadForCancel, FlagCancel, DirectCancel, StartLoop, Expire, Crash,
           database
  <1> QED
    BY <1>1, <1>2, <1>3, DeskThread

LEMMA DeskStutter ==
  ASSUME DeskInv, UNCHANGED vars
  PROVE  [Desk!Next]_(Desk!vars) /\ SkippedUnasked'
  <1>0. EngineTyped
    BY DEF DeskInv, DrivenInv
  <1>1. UNCHANGED <<step_status, decision, orders>>
    BY DEF vars, database
  <1>2. UNCHANGED DeskGate
    BY <1>0, <1>1, GatesUnmoved
  <1>3. UNCHANGED DeskSent
    BY <1>1 DEF DeskSent
  <1> QED
    BY <1>1, <1>2, <1>3 DEF Desk!vars, DeskInv, SkippedUnasked

\* For every plan, every number of threads and any crashes, the engine keeps the
\* desk's promise: gates open in the order of the plan, an answer is final, and an
\* order, a repeated one too, leaves past open gates only, never while an answer is
\* outstanding and never after a refusal (engine.py, execute_run; approvals.py, decide_approval).
THEOREM EngineImplementsApprovalDesk == Spec => ImplementsApprovalDesk
  <1>1. Init => Desk!Init /\ SkippedUnasked
    <2> SUFFICES ASSUME Init PROVE Desk!Init /\ SkippedUnasked
      OBVIOUS
    <2>1. DeskGate = [g \in GatedSteps |-> "none"]
      BY DeskGateIs, GatedStepsAre DEF Init, GateOf
    <2> QED
      BY <2>1 DEF Init, Desk!Init, DeskSent, SkippedUnasked
  <1>2. DrivenInv /\ SkippedUnasked /\ [Next]_vars => [Desk!Next]_(Desk!vars) /\ SkippedUnasked'
    BY DeskStep, DeskStutter DEF DeskInv
  <1> QED
    BY <1>1, <1>2, DrivenAlways, PTL DEF Spec, ImplementsApprovalDesk, Desk!Spec

=============================================================================
