----------------------- MODULE WorkflowTriggers_proofs -----------------------
(***************************************************************************)
(* Theorems about the firing of workflows, for every number of workflows,  *)
(* every trigger list, and any number of edits and crashes.                *)
(***************************************************************************)
EXTENDS WorkflowTriggers, SequenceTheorems, WellFoundedInduction, TLAPS

-----------------------------------------------------------------------------
(* Instants and trigger lists *)

LEMMA MinIsLeast ==
  ASSUME NEW S \in SUBSET Nat, S # {}
  PROVE  MinOf(S) \in S /\ \A y \in S : MinOf(S) <= y
  <1> DEFINE Less == {p \in Nat \X Nat : p[1] < p[2]}
  <1>1. IsWellFoundedOn(Less, Nat)
    BY NatLessThanWellFounded DEF OpToRel
  <1>2. \A x, y \in Nat : <<y, x>> \in Less <=> y < x
    OBVIOUS
  <1> HIDE DEF Less
  <1>3. PICK x \in S : \A y \in S : ~ (<<y, x>> \in Less)
    BY <1>1, WFMin
  <1>4. \A y \in S : x <= y
    <2> TAKE y \in S
    <2>1. x \in Nat /\ y \in Nat
      OBVIOUS
    <2>2. ~ (y < x)
      BY <1>2, <1>3, <2>1
    <2> QED
      BY <2>1, <2>2
  <1> QED
    BY <1>4 DEF MinOf

LEMMA EarliestIsLeast ==
  ASSUME NEW S \in SUBSET Deadline
  PROVE  /\ Earliest(S) \in Deadline
         /\ Earliest(S) # None => Earliest(S) \in S
         /\ S \subseteq {None} <=> Earliest(S) = None
  <1>1. CASE S \ {None} = {}
    BY <1>1 DEF Earliest, Deadline
  <1>2. CASE S \ {None} # {}
    <2>1. S \ {None} \in SUBSET Nat
      BY DEF Deadline
    <2>2. Earliest(S) \in S \ {None}
      BY <1>2, <2>1, MinIsLeast DEF Earliest
    <2> QED
      BY <1>2, <2>1, <2>2 DEF Deadline
  <1> QED
    BY <1>1, <1>2

\* What a step may keep of itself in the row: an instant, or nothing.
Column == UNION {[1 .. n -> Deadline] : n \in Nat}
PlanRow == Plans \cup {<<>>}

LEMMA PlanTyped ==
  ASSUME NEW plan \in PlanRow
  PROVE  /\ plan \in Seq(Trigger) /\ Len(plan) \in Nat /\ DOMAIN plan = 1 .. Len(plan)
         /\ \A i \in DOMAIN plan : plan[i] \in Trigger /\ i \in Nat \ {0}
  <1>1. plan \in Seq(Trigger)
    BY TriggerAssumption, EmptySeq DEF PlanRow
  <1>2. Len(plan) \in Nat /\ DOMAIN plan = 1 .. Len(plan)
    BY <1>1, LenProperties
  <1> QED
    BY <1>1, <1>2, ElementOfSeq

LEMMA TriggerTyped ==
  ASSUME NEW trigger \in Trigger
  PROVE  trigger.kind \in Scheduled \cup Watched /\ trigger.at \subseteq Nat
  BY TriggerAssumption DEF Trigger

LEMMA ColumnTyped ==
  ASSUME NEW column \in Column
  PROVE  /\ \A i \in DOMAIN column : column[i] \in Deadline
         /\ \A i \in DOMAIN column, key \in Deadline :
              /\ [column EXCEPT ![i] = key] \in Column
              /\ DOMAIN [column EXCEPT ![i] = key] = DOMAIN column
  <1>1. PICK n \in Nat : column \in [1 .. n -> Deadline]
    BY DEF Column
  <1>2. ASSUME NEW i \in DOMAIN column, NEW key \in Deadline
        PROVE  [column EXCEPT ![i] = key] \in [1 .. n -> Deadline]
    BY <1>1
  <1> QED
    BY <1>1, <1>2 DEF Column

LEMMA NewColumn ==
  ASSUME NEW plan \in PlanRow, NEW column, column = [i \in DOMAIN plan |-> column[i]],
         \A i \in DOMAIN plan : column[i] \in Deadline
  PROVE  column \in Column /\ DOMAIN column = DOMAIN plan
  <1>1. PICK n \in Nat : DOMAIN plan = 1 .. n
    BY PlanTyped
  <1>2. column \in [1 .. n -> Deadline]
    BY <1>1
  <1> QED
    BY <1>1, <1>2 DEF Column

LEMMA UnarmedColumn ==
  ASSUME NEW plan \in PlanRow
  PROVE  /\ Unarmed(plan) \in Column /\ DOMAIN Unarmed(plan) = DOMAIN plan
         /\ \A i \in DOMAIN plan : Unarmed(plan)[i] = None
  <1>1. Unarmed(plan) = [i \in DOMAIN plan |-> Unarmed(plan)[i]]
    BY DEF Unarmed
  <1>2. \A i \in DOMAIN plan : Unarmed(plan)[i] = None
    BY DEF Unarmed
  <1> QED
    BY <1>1, <1>2, NewColumn DEF Deadline

\* An armed schedule waits for an instant strictly after now.
LEMMA ArmedColumn ==
  ASSUME NEW plan \in PlanRow, now \in Nat
  PROVE  /\ Armed(plan) \in Column /\ DOMAIN Armed(plan) = DOMAIN plan
         /\ \A i \in DOMAIN plan :
              /\ Armed(plan)[i] \in Deadline
              /\ Armed(plan)[i] # None =>
                   plan[i].kind \in Scheduled /\ Armed(plan)[i] > now
              /\ Spent(plan) => Armed(plan)[i] = None
  <1>1. ASSUME NEW i \in DOMAIN plan
        PROVE  /\ NextInstant(plan[i]) \in Deadline
               /\ NextInstant(plan[i]) # None => NextInstant(plan[i]) > now
    <2>1. {t \in plan[i].at : t > now} \in SUBSET Deadline
      BY PlanTyped, TriggerTyped DEF Deadline
    <2> QED
      BY <2>1, EarliestIsLeast DEF NextInstant
  <1>2. \A i \in DOMAIN plan :
          Armed(plan)[i] = IF plan[i].kind \in Scheduled THEN NextInstant(plan[i]) ELSE None
    BY DEF Armed
  <1>3. Armed(plan) = [i \in DOMAIN plan |-> Armed(plan)[i]]
    BY DEF Armed
  <1>4. \A i \in DOMAIN plan : Armed(plan)[i] \in Deadline
    BY <1>1, <1>2 DEF Deadline
  <1>5. Armed(plan) \in Column /\ DOMAIN Armed(plan) = DOMAIN plan
    BY <1>3, <1>4, NewColumn
  <1>6. \A i \in DOMAIN plan : Spent(plan) => Armed(plan)[i] = None
    BY <1>2 DEF Spent
  <1> QED
    BY <1>1, <1>2, <1>4, <1>5, <1>6

-----------------------------------------------------------------------------
(* Types *)

PCs == {"idle", "scan", "latch", "fire", "clear", "expire"}

Entries ==
  [wf : Workflows, step : Nat \ {0}, seen : Nat, trigger : Trigger,
   had : Deadline, occ : Deadline]

JobState ==
  [pc : PCs, fired_at : Nat, todo : SUBSET Entries, cur : Entries \cup {NoEntry}]

\* What a job reads is of its own family.
OfJob(e, j) ==
  IF j = "poll" THEN e.trigger.kind \in Scheduled /\ e.occ \in Nat
  ELSE e.trigger.kind \in Watched /\ JobOf(e.trigger.kind) = j

\* The watcher j has an entry in hand.
InHand(j) == j \in Watchers /\ job[j].pc \notin {"idle", "scan"}

RowsTyped ==
  /\ status \in [Workflows -> Status]
  /\ version \in [Workflows -> 1 .. MaxVersion]
  /\ steps \in [Workflows -> PlanRow]
  /\ next_run \in [Workflows -> Column] /\ latch \in [Workflows -> Column]
  /\ \A wf \in Workflows : DOMAIN next_run[wf] = StepsOf(wf) /\ DOMAIN latch[wf] = StepsOf(wf)
  /\ \A wf \in Workflows : \A i \in StepsOf(wf) :
       next_run[wf][i] # None => steps[wf][i].kind \in Scheduled
  /\ next_run_at \in [Workflows -> Deadline] /\ expires_at \in [Workflows -> Deadline]

JobsTyped ==
  /\ job \in [Jobs -> JobState]
  /\ \A j \in Jobs :
       /\ \A e \in job[j].todo : OfJob(e, j)
       /\ InHand(j) => job[j].cur \in Entries /\ OfJob(job[j].cur, j) /\ job[j].cur.occ \in Nat

TriggersTyped ==
  /\ now \in 0 .. MaxTime /\ crashes \in 0 .. MaxCrashes
  /\ RowsTyped /\ JobsTyped

LEMMA JobNames ==
  /\ Watchers = {"watch", "macro", "earnings", "ipo"}
  /\ Jobs = {"watch", "macro", "earnings", "ipo", "poll"}
  /\ Scheduled \cap Watched = {}
  /\ \A k \in Scheduled : JobOf(k) \notin Jobs
  BY DEF Watchers, Jobs, JobOf, Watched, Scheduled

LEMMA IdleTyped == Idle \in JobState /\ Idle.pc = "idle" /\ Idle.todo = {} /\ Idle.fired_at = 0
  BY DEF Idle, JobState, PCs

LEMMA TypedMeansTypeOK == TriggersTyped => TypeOK
  <1> SUFFICES ASSUME TriggersTyped PROVE TypeOK
    OBVIOUS
  <1>1. \A wf \in Workflows : \A i \in StepsOf(wf) :
          next_run[wf][i] \in Deadline /\ latch[wf][i] \in Deadline
    BY ColumnTyped DEF TriggersTyped, RowsTyped
  <1>2. \A j \in Jobs : job[j].pc \in PCs
    BY DEF TriggersTyped, JobsTyped, JobState
  <1> QED
    BY <1>1, <1>2 DEF TypeOK, TriggersTyped, RowsTyped, PCs, PlanRow

\* The rows: what the operations on them do, column by column.
LEMMA UpsertTyped ==
  ASSUME TriggersTyped, NEW wf \in Workflows, NEW st \in Status, Upsert(wf, st),
         UNCHANGED <<version, steps, expires_at, latch>>
  PROVE  RowsTyped'
  <1> PICK armed : /\ armed = IF st = "active" THEN Armed(steps[wf]) ELSE Unarmed(steps[wf])
                   /\ next_run' = [next_run EXCEPT ![wf] = armed]
                   /\ next_run_at' = [next_run_at EXCEPT
                        ![wf] = Earliest({armed[i] : i \in StepsOf(wf)})]
                   /\ status' \in [Workflows -> Status]
    BY DEF Upsert, TriggersTyped, RowsTyped, Status
  <1>1. steps[wf] \in PlanRow /\ now \in Nat
    BY TriggerAssumption DEF TriggersTyped, RowsTyped
  <1>2. /\ armed \in Column /\ DOMAIN armed = StepsOf(wf)
        /\ \A i \in StepsOf(wf) :
             armed[i] \in Deadline /\ (armed[i] # None => steps[wf][i].kind \in Scheduled)
    BY <1>1, ArmedColumn, UnarmedColumn, ColumnTyped DEF StepsOf
  <1>3. Earliest({armed[i] : i \in StepsOf(wf)}) \in Deadline
    BY <1>2, EarliestIsLeast
  <1> QED
    BY <1>2, <1>3 DEF TriggersTyped, RowsTyped, StepsOf

LEMMA DeactivateTyped ==
  ASSUME TriggersTyped, NEW wfs \in SUBSET Workflows, Deactivate(wfs),
         UNCHANGED <<version, steps, expires_at, latch>>
  PROVE  RowsTyped'
  <1>1. \A wf \in Workflows : steps[wf] \in PlanRow
    BY DEF TriggersTyped, RowsTyped
  <1>2. \A wf \in Workflows :
          /\ Unarmed(steps[wf]) \in Column /\ DOMAIN Unarmed(steps[wf]) = StepsOf(wf)
          /\ \A i \in StepsOf(wf) : Unarmed(steps[wf])[i] = None
    BY <1>1, UnarmedColumn DEF StepsOf
  <1>3. status' \in [Workflows -> Status] /\ next_run_at' \in [Workflows -> Deadline]
    BY DEF Deactivate, TriggersTyped, RowsTyped, Status, Deadline
  <1>4. next_run' \in [Workflows -> Column]
    BY <1>2 DEF Deactivate, TriggersTyped, RowsTyped
  <1>5. \A wf \in Workflows :
          next_run'[wf] = IF wf \in wfs THEN Unarmed(steps[wf]) ELSE next_run[wf]
    BY DEF Deactivate
  <1>6. \A wf \in Workflows :
          /\ DOMAIN next_run'[wf] = StepsOf(wf)
          /\ \A i \in StepsOf(wf) : next_run'[wf][i] # None => steps[wf][i].kind \in Scheduled
    BY <1>2, <1>5 DEF TriggersTyped, RowsTyped
  <1> QED
    BY <1>3, <1>4, <1>6 DEF TriggersTyped, RowsTyped, StepsOf

LEMMA PatchTyped ==
  ASSUME TriggersTyped, NEW wf \in Workflows, NEW plan \in Plans, NEW expiry \in Expiries,
         NEW keep \in BOOLEAN, Patch(wf, plan, expiry, keep)
  PROVE  RowsTyped'
  <1> PICK kept : /\ kept = [i \in DOMAIN plan |->
                       IF keep /\ i \in StepsOf(wf) /\ plan[i] = steps[wf][i]
                       THEN latch[wf][i] ELSE None]
                  /\ latch' = [latch EXCEPT ![wf] = kept]
    BY DEF Patch, TriggersTyped, RowsTyped
  <1>1. plan \in PlanRow /\ \A i \in StepsOf(wf) : latch[wf][i] \in Deadline
    BY ColumnTyped DEF TriggersTyped, RowsTyped, PlanRow
  <1>2. \A i \in DOMAIN plan : kept[i] \in Deadline
    BY <1>1 DEF Deadline
  <1>3. kept \in Column /\ DOMAIN kept = DOMAIN plan
    BY <1>1, <1>2, NewColumn
  <1>4. /\ Unarmed(plan) \in Column /\ DOMAIN Unarmed(plan) = DOMAIN plan
        /\ \A i \in DOMAIN plan : Unarmed(plan)[i] = None
    BY <1>1, UnarmedColumn
  <1>5. latch' \in [Workflows -> Column] /\ next_run' \in [Workflows -> Column]
    BY <1>3, <1>4 DEF Patch, TriggersTyped, RowsTyped
  <1>6. steps' \in [Workflows -> PlanRow] /\ version' \in [Workflows -> 1 .. MaxVersion]
    BY <1>1, TriggerAssumption DEF Patch, TriggersTyped, RowsTyped
  <1>7. expires_at' \in [Workflows -> Deadline]
    BY TriggerAssumption DEF Patch, TriggersTyped, RowsTyped, Deadline
  <1>8. \A v \in Workflows :
          /\ steps'[v] = IF v = wf THEN plan ELSE steps[v]
          /\ next_run'[v] = IF v = wf THEN Unarmed(plan) ELSE next_run[v]
          /\ latch'[v] = IF v = wf THEN kept ELSE latch[v]
    BY DEF Patch, TriggersTyped, RowsTyped
  <1>9. UNCHANGED <<status, next_run_at>>
    BY DEF Patch
  <1> QED
    BY <1>3, <1>4, <1>5, <1>6, <1>7, <1>8, <1>9 DEF TriggersTyped, RowsTyped, StepsOf

LEMMA DeleteTyped ==
  ASSUME TriggersTyped, NEW wf \in Workflows, Delete(wf)
  PROVE  RowsTyped'
  <1>1. <<>> \in Column /\ DOMAIN <<>> = {} /\ <<>> \in PlanRow
    <2>1. <<>> \in [1 .. 0 -> Deadline]
      OBVIOUS
    <2> QED
      BY <2>1 DEF Column, PlanRow
  <1>2. /\ steps' \in [Workflows -> PlanRow]
        /\ latch' \in [Workflows -> Column] /\ next_run' \in [Workflows -> Column]
    BY <1>1 DEF Delete, TriggersTyped, RowsTyped
  <1>3. \A v \in Workflows :
          /\ steps'[v] = IF v = wf THEN <<>> ELSE steps[v]
          /\ next_run'[v] = IF v = wf THEN <<>> ELSE next_run[v]
          /\ latch'[v] = IF v = wf THEN <<>> ELSE latch[v]
    BY DEF Delete, TriggersTyped, RowsTyped
  <1>4. status' \in [Workflows -> Status] /\ next_run_at' \in [Workflows -> Deadline]
    BY DEF Delete, TriggersTyped, RowsTyped, Status, Deadline
  <1>5. UNCHANGED <<version, expires_at>>
    BY DEF Delete
  <1> QED
    BY <1>1, <1>2, <1>3, <1>4, <1>5 DEF TriggersTyped, RowsTyped, StepsOf

LEMMA SetLatchTyped ==
  ASSUME TriggersTyped, NEW e \in Entries, NEW key \in Deadline, SetLatch(e, key),
         UNCHANGED <<status, version, steps, next_run, next_run_at, expires_at>>
  PROVE  RowsTyped'
  <1>1. e.wf \in Workflows
    BY DEF Entries
  <1>2. CASE latch' = latch
    BY <1>2 DEF TriggersTyped, RowsTyped, StepsOf
  <1>3. CASE /\ e.step \in StepsOf(e.wf)
             /\ latch' = [latch EXCEPT ![e.wf] = [@ EXCEPT ![e.step] = key]]
    <2>1. /\ [latch[e.wf] EXCEPT ![e.step] = key] \in Column
          /\ DOMAIN [latch[e.wf] EXCEPT ![e.step] = key] = StepsOf(e.wf)
      BY <1>1, <1>3, ColumnTyped DEF TriggersTyped, RowsTyped
    <2> QED
      BY <1>1, <1>3, <2>1 DEF TriggersTyped, RowsTyped, StepsOf
  <1> QED
    BY <1>2, <1>3 DEF SetLatch

\* The jobs: what each leaves in hand.
LEMMA DoneTyped ==
  ASSUME TriggersTyped, NEW j \in Jobs, NEW e, job' = Done(j, e)
  PROVE  /\ JobsTyped'
         /\ \A k \in Jobs : k # j => job'[k] = job[k]
         /\ job'[j].todo \subseteq job[j].todo /\ ~InHand(j)'
         /\ job'[j].todo # {} => job'[j].fired_at = job[j].fired_at
  <1>1. job \in [Jobs -> JobState]
    BY DEF TriggersTyped, JobsTyped
  <1>2. CASE job' = [job EXCEPT ![j] = Idle]
    BY <1>1, <1>2, IdleTyped DEF TriggersTyped, JobsTyped, InHand
  <1>3. CASE job' = [job EXCEPT ![j] =
                [@ EXCEPT !.todo = job[j].todo \ {e}, !.cur = NoEntry,
                          !.pc = IF j = "poll" THEN "fire" ELSE "scan"]]
    <2>1. job'[j] = [job[j] EXCEPT !.todo = job[j].todo \ {e}, !.cur = NoEntry,
                                   !.pc = IF j = "poll" THEN "fire" ELSE "scan"]
      BY <1>1, <1>3
    <2>2. job'[j] \in JobState
      BY <1>1, <2>1 DEF JobState, PCs
    <2>3. job' \in [Jobs -> JobState] /\ \A k \in Jobs : k # j => job'[k] = job[k]
      BY <1>1, <1>3, <2>1, <2>2
    <2>4. job'[j].todo \subseteq job[j].todo /\ ~InHand(j)' /\ job'[j].fired_at = job[j].fired_at
      BY <1>1, <2>1, JobNames DEF JobState, InHand
    <2> QED
      BY <2>3, <2>4 DEF TriggersTyped, JobsTyped, InHand
  <1> QED
    BY <1>2, <1>3 DEF Done

LEMMA AfterTyped ==
  ASSUME TriggersTyped, NEW j \in Watchers, InHand(j), NEW created \in BOOLEAN,
         job' = After(j, job[j].cur, created)
  PROVE  /\ JobsTyped'
         /\ \A k \in Jobs : k # j => job'[k] = job[k]
         /\ job'[j].todo \subseteq job[j].todo
         /\ InHand(j)' => job'[j].pc \in {"clear", "expire"} /\ job'[j].cur = job[j].cur
         /\ job'[j].pc = "clear" => ~created /\ job[j].cur.trigger.kind \in {"macro", "earnings"}
         /\ ~created /\ job[j].cur.trigger.kind \in {"macro", "earnings"} => job'[j].pc = "clear"
         /\ job'[j].pc = "expire" => job[j].cur.trigger.kind = "ipo"
         /\ job'[j].todo # {} => job'[j].fired_at = job[j].fired_at
  <1>1. j \in Jobs /\ job \in [Jobs -> JobState]
    BY DEF TriggersTyped, JobsTyped, Jobs
  <1>2. ASSUME NEW pc \in {"clear", "expire"}, job' = [job EXCEPT ![j].pc = pc]
        PROVE  /\ JobsTyped' /\ \A k \in Jobs : k # j => job'[k] = job[k]
               /\ job'[j].todo = job[j].todo /\ job'[j].cur = job[j].cur /\ job'[j].pc = pc
               /\ job'[j].fired_at = job[j].fired_at
    <2>1. job'[j] = [job[j] EXCEPT !.pc = pc]
      BY <1>1, <1>2
    <2>2. job'[j] \in JobState /\ job'[j].todo = job[j].todo /\ job'[j].cur = job[j].cur
          /\ job'[j].pc = pc /\ job'[j].fired_at = job[j].fired_at
      BY <1>1, <2>1 DEF JobState, PCs
    <2>3. job' \in [Jobs -> JobState] /\ \A k \in Jobs : k # j => job'[k] = job[k]
      BY <1>1, <1>2, <2>2
    <2> QED
      BY <2>2, <2>3 DEF TriggersTyped, JobsTyped, InHand
  <1>3. CASE job' = Done(j, job[j].cur) /\ job[j].cur.trigger.kind # "ipo"
             /\ (created \/ job[j].cur.trigger.kind \notin {"macro", "earnings"})
    <2>1. /\ JobsTyped'
          /\ \A k \in Jobs : k # j => job'[k] = job[k]
          /\ job'[j].todo \subseteq job[j].todo /\ ~InHand(j)'
          /\ job'[j].todo # {} => job'[j].fired_at = job[j].fired_at
      BY <1>1, <1>3, DoneTyped
    <2> QED
      BY <1>3, <2>1 DEF InHand
  <1>4. CASE /\ job' = [job EXCEPT ![j].pc = "clear"] /\ ~created
             /\ job[j].cur.trigger.kind \in {"macro", "earnings"}
    BY <1>2, <1>4
  <1>5. CASE job' = [job EXCEPT ![j].pc = "expire"] /\ job[j].cur.trigger.kind = "ipo"
    BY <1>2, <1>5
  <1> QED
    BY <1>3, <1>4, <1>5 DEF After

LEMMA EntryTyped ==
  ASSUME TriggersTyped, NEW wf \in Workflows, NEW i \in StepsOf(wf), NEW occ \in Deadline
  PROVE  Entry(wf, i, occ) \in Entries
  <1>1. steps[wf][i] \in Trigger /\ i \in Nat \ {0}
    BY PlanTyped DEF TriggersTyped, RowsTyped, StepsOf
  <1>2. latch[wf][i] \in Deadline /\ version[wf] \in Nat
    BY ColumnTyped DEF TriggersTyped, RowsTyped
  <1> QED
    BY <1>1, <1>2 DEF Entry, Entries

\* What a poll reads of the active workflows, and what a watcher does.
DueOf(live) == UNION {DueEntries(wf) : wf \in live}
FoundBy(j) ==
  UNION {{Entry(wf, i, None) : i \in {k \in StepsOf(wf) : /\ steps[wf][k].kind \in Watched
                                                          /\ JobOf(steps[wf][k].kind) = j}} :
           wf \in {w \in Workflows : status[w] = "active"}}

LEMMA DueTyped ==
  ASSUME TriggersTyped, NEW live \in SUBSET Workflows, NEW e \in DueOf(live)
  PROVE  /\ e \in Entries /\ OfJob(e, "poll")
         /\ e.wf \in live /\ e.step \in StepsOf(e.wf) /\ e.occ = next_run[e.wf][e.step]
         /\ e.occ <= now /\ e.seen = version[e.wf] /\ e.trigger = steps[e.wf][e.step]
         /\ e = Entry(e.wf, e.step, next_run[e.wf][e.step])
  <1>1. PICK wf \in live : e \in DueEntries(wf)
    BY DEF DueOf
  <1>2. PICK i \in StepsOf(wf) : /\ next_run[wf][i] # None /\ next_run[wf][i] <= now
                                 /\ e = Entry(wf, i, next_run[wf][i])
    BY <1>1 DEF DueEntries
  <1>3. next_run[wf][i] \in Nat /\ steps[wf][i].kind \in Scheduled
    BY <1>2, ColumnTyped DEF TriggersTyped, RowsTyped, Deadline
  <1>4. e \in Entries
    BY <1>2, <1>3, EntryTyped DEF Deadline
  <1>5. /\ e.wf = wf /\ e.step = i /\ e.occ = next_run[wf][i] /\ e.seen = version[wf]
        /\ e.trigger = steps[wf][i]
    BY <1>2 DEF Entry
  <1> QED
    BY <1>2, <1>3, <1>4, <1>5 DEF OfJob

LEMMA FoundTyped ==
  ASSUME TriggersTyped, NEW j \in Watchers, NEW e \in FoundBy(j)
  PROVE  /\ e \in Entries /\ OfJob(e, j)
         /\ e.wf \in Workflows /\ status[e.wf] = "active" /\ e.step \in StepsOf(e.wf)
         /\ e.seen = version[e.wf] /\ e.trigger = steps[e.wf][e.step]
         /\ e.had = latch[e.wf][e.step] /\ e = Entry(e.wf, e.step, None)
  <1>0. PICK wf \in Workflows :
          /\ status[wf] = "active"
          /\ e \in {Entry(wf, i, None) :
                    i \in {k \in StepsOf(wf) : /\ steps[wf][k].kind \in Watched
                                               /\ JobOf(steps[wf][k].kind) = j}}
    BY DEF FoundBy
  <1>1. PICK i \in StepsOf(wf) :
          /\ status[wf] = "active" /\ steps[wf][i].kind \in Watched
          /\ JobOf(steps[wf][i].kind) = j /\ e = Entry(wf, i, None)
    BY <1>0
  <1>2. e \in Entries
    BY <1>1, EntryTyped DEF Deadline
  <1>3. /\ e.wf = wf /\ e.step = i /\ e.seen = version[wf] /\ e.trigger = steps[wf][i]
        /\ e.had = latch[wf][i]
    BY <1>1 DEF Entry
  <1>4. j # "poll"
    BY JobNames
  <1> QED
    BY <1>1, <1>2, <1>3, <1>4 DEF OfJob

\* A job that begins: it keeps what it read, and the time.
LEMMA BeginTyped ==
  ASSUME TriggersTyped, NEW j \in Jobs, NEW found \in SUBSET Entries,
         \A e \in found : OfJob(e, j),
         NEW pc \in {"scan", "fire"}, pc = "fire" => j = "poll",
         job' = [job EXCEPT ![j] = [Idle EXCEPT !.pc = pc, !.fired_at = now, !.todo = found]]
  PROVE  /\ JobsTyped' /\ \A k \in Jobs : k # j => job'[k] = job[k]
         /\ job'[j].todo = found /\ job'[j].fired_at = now /\ ~InHand(j)' /\ job'[j].pc = pc
  <1>1. now \in Nat /\ job \in [Jobs -> JobState]
    BY TriggerAssumption DEF TriggersTyped, JobsTyped
  <1>2. job'[j] = [Idle EXCEPT !.pc = pc, !.fired_at = now, !.todo = found]
    BY <1>1
  <1>3. job'[j] \in JobState /\ job'[j].todo = found /\ job'[j].pc = pc /\ job'[j].fired_at = now
    BY <1>1, <1>2 DEF Idle, JobState, PCs
  <1>4. job' \in [Jobs -> JobState] /\ \A k \in Jobs : k # j => job'[k] = job[k]
    BY <1>1, <1>3
  <1>5. ~InHand(j)'
    BY <1>3, JobNames DEF InHand
  <1> QED
    BY <1>3, <1>4, <1>5 DEF TriggersTyped, JobsTyped, InHand

LEMMA TypeInit == Init => TriggersTyped
  <1> SUFFICES ASSUME Init PROVE TriggersTyped
    OBVIOUS
  <1>1. steps \in [Workflows -> PlanRow]
    BY DEF Init, PlanRow
  <1>2. \A wf \in Workflows :
          /\ Unarmed(steps[wf]) \in Column /\ DOMAIN Unarmed(steps[wf]) = StepsOf(wf)
          /\ \A i \in StepsOf(wf) : Unarmed(steps[wf])[i] = None
    BY <1>1, UnarmedColumn DEF StepsOf
  <1>3. RowsTyped
    <2>1. next_run \in [Workflows -> Column] /\ latch \in [Workflows -> Column]
      BY <1>2 DEF Init
    <2>2. /\ status \in [Workflows -> Status] /\ version \in [Workflows -> 1 .. MaxVersion]
          /\ next_run_at \in [Workflows -> Deadline]
      BY TriggerAssumption DEF Init, Status, Deadline
    <2>3. expires_at \in [Workflows -> Deadline]
      BY TriggerAssumption DEF Init, Deadline
    <2>4. \A wf \in Workflows :
            next_run[wf] = Unarmed(steps[wf]) /\ latch[wf] = Unarmed(steps[wf])
      BY DEF Init
    <2> QED
      BY <1>1, <1>2, <2>1, <2>2, <2>3, <2>4 DEF RowsTyped
  <1>4. JobsTyped
    BY IdleTyped DEF Init, JobsTyped, InHand
  <1> QED
    BY <1>3, <1>4, TriggerAssumption DEF Init, TriggersTyped

LEMMA RowsFrame ==
  ASSUME TriggersTyped, UNCHANGED rowVars
  PROVE  RowsTyped'
  BY DEF rowVars, TriggersTyped, RowsTyped, StepsOf

LEMMA JobsFrame ==
  ASSUME TriggersTyped, UNCHANGED job
  PROVE  JobsTyped'
  BY DEF TriggersTyped, JobsTyped, InHand

LEMMA UserTyped ==
  ASSUME TriggersTyped, NEW wf \in Workflows,
         \/ Activate(wf) \/ Pause(wf) \/ Archive(wf) \/ Delete(wf) \/ RunNow(wf)
         \/ \E plan \in Plans, expiry \in Expiries, keep \in BOOLEAN :
              Patch(wf, plan, expiry, keep)
  PROVE  RowsTyped' /\ UNCHANGED <<now, job, crashes>>
  <1>1. CASE Activate(wf)
    BY <1>1, UpsertTyped DEF Activate, Status
  <1>2. CASE Pause(wf)
    BY <1>2, UpsertTyped DEF Pause, Status
  <1>3. CASE Archive(wf)
    BY <1>3, UpsertTyped DEF Archive, Status
  <1>4. CASE Delete(wf)
    BY <1>4, DeleteTyped DEF Delete
  <1>5. CASE RunNow(wf)
    BY <1>5, RowsFrame DEF RunNow
  <1>6. ASSUME NEW plan \in Plans, NEW expiry \in Expiries, NEW keep \in BOOLEAN,
               Patch(wf, plan, expiry, keep)
        PROVE  RowsTyped' /\ UNCHANGED <<now, job, crashes>>
    <2>1. RowsTyped'
      BY <1>6, PatchTyped
    <2> QED
      BY <1>6, <2>1 DEF Patch
  <1> QED
    BY <1>1, <1>2, <1>3, <1>4, <1>5, <1>6

LEMMA StartPollTyped ==
  ASSUME TriggersTyped, StartPoll
  PROVE  /\ RowsTyped' /\ JobsTyped'
         /\ \A k \in Jobs : k # "poll" => job'[k] = job[k]
         /\ \E live \in SUBSET {wf \in Workflows : status[wf] = "active"} :
              /\ job'["poll"].todo = DueOf(live)
              /\ \A wf \in live : status'[wf] = "active" /\ next_run'[wf] = next_run[wf]
         /\ job'["poll"].todo # {} => job'["poll"].fired_at = now
  <1> DEFINE swept == {wf \in Workflows : status[wf] = "active" /\ Expired(wf, now)}
             live  == {wf \in Workflows : status[wf] = "active"} \ swept
  <1>1. /\ Deactivate(swept)
        /\ UNCHANGED <<now, version, steps, expires_at, latch, runs, crashes>>
        /\ job' = [job EXCEPT !["poll"] =
             IF DueOf(live) = {} THEN Idle
             ELSE [Idle EXCEPT !.pc = "fire", !.fired_at = now, !.todo = DueOf(live)]]
    BY DEF StartPoll, DueOf
  <1>2. RowsTyped'
    BY <1>1, DeactivateTyped
  <1>3. "poll" \in Jobs /\ job \in [Jobs -> JobState]
    BY DEF Jobs, TriggersTyped, JobsTyped
  <1>4. \A wf \in live : status'[wf] = "active" /\ next_run'[wf] = next_run[wf]
    BY <1>1 DEF Deactivate
  <1>5. DueOf(live) \in SUBSET Entries /\ \A e \in DueOf(live) : OfJob(e, "poll")
    BY DueTyped
  <1> HIDE DEF live
  <1>6. CASE DueOf(live) = {}
    <2>1. job' = [job EXCEPT !["poll"] = Idle]
      BY <1>1, <1>6
    <2>2. JobsTyped' /\ job'["poll"].todo = {} /\ \A k \in Jobs : k # "poll" => job'[k] = job[k]
      BY <1>3, <2>1, IdleTyped DEF TriggersTyped, JobsTyped, InHand
    <2> QED
      BY <1>2, <1>4, <1>6, <2>2 DEF live
  <1>7. CASE DueOf(live) # {}
    <2>1. job' = [job EXCEPT !["poll"] =
                    [Idle EXCEPT !.pc = "fire", !.fired_at = now, !.todo = DueOf(live)]]
      BY <1>1, <1>7
    <2>2. /\ JobsTyped' /\ job'["poll"].todo = DueOf(live) /\ job'["poll"].fired_at = now
          /\ \A k \in Jobs : k # "poll" => job'[k] = job[k]
      BY <1>3, <1>5, <2>1, BeginTyped
    <2> QED
      BY <1>2, <1>4, <2>2 DEF live
  <1> QED
    BY <1>6, <1>7

\* A schedule is served: a run, a refusal, or the end of the workflow.
LEMMA FireOneTyped ==
  ASSUME TriggersTyped, NEW e \in job["poll"].todo, FireOne(e)
  PROVE  /\ RowsTyped' /\ JobsTyped' /\ e \in Entries /\ OfJob(e, "poll")
         /\ \A k \in Jobs : k # "poll" => job'[k] = job[k]
         /\ job'["poll"].todo \subseteq job["poll"].todo \ {e}
         /\ job'["poll"].todo # {} => job'["poll"].fired_at = job["poll"].fired_at
         /\ \/ UNCHANGED <<status, next_run, next_run_at, runs>>
            \/ status[e.wf] = "active" /\ Deactivate({e.wf}) /\ UNCHANGED runs
            \/ /\ status[e.wf] = "active" /\ Upsert(e.wf, "active")
               /\ runs' = runs \cup {Run(e, now)}
  <1>1. "poll" \in Jobs /\ job \in [Jobs -> JobState]
    BY DEF Jobs, TriggersTyped, JobsTyped
  <1>2. e \in Entries /\ e.wf \in Workflows /\ OfJob(e, "poll")
    BY <1>1 DEF JobState, Entries, TriggersTyped, JobsTyped
  <1>3. /\ JobsTyped' /\ \A k \in Jobs : k # "poll" => job'[k] = job[k]
        /\ job'["poll"].todo # {} => job'["poll"].fired_at = job["poll"].fired_at
    BY <1>1, DoneTyped DEF FireOne
  <1>4. job'["poll"].todo \subseteq job["poll"].todo \ {e}
    BY <1>1, IdleTyped DEF FireOne, Done, JobState
  <1>5. /\ \/ UNCHANGED <<status, next_run, next_run_at, runs>>
           \/ status[e.wf] = "active" /\ Deactivate({e.wf}) /\ UNCHANGED runs
           \/ /\ status[e.wf] = "active" /\ Upsert(e.wf, "active")
              /\ runs' = runs \cup {Run(e, now)}
        /\ UNCHANGED <<version, steps, expires_at, latch>>
    BY DEF FireOne
  <1>6. RowsTyped'
    BY <1>2, <1>5, UpsertTyped, DeactivateTyped, RowsFrame DEF rowVars, Status
  <1> QED
    BY <1>2, <1>3, <1>4, <1>5, <1>6

LEMMA EntryAtHand ==
  ASSUME TriggersTyped, NEW j \in Jobs, NEW e \in job[j].todo
  PROVE  e \in Entries /\ OfJob(e, j) /\ e.wf \in Workflows
  BY DEF TriggersTyped, JobsTyped, JobState, Entries

LEMMA CurAtHand ==
  ASSUME TriggersTyped, NEW j \in Watchers, InHand(j)
  PROVE  /\ j \in Jobs /\ job[j].cur \in Entries /\ OfJob(job[j].cur, j)
         /\ job[j].cur.occ \in Nat /\ job[j].cur.wf \in Workflows
  BY DEF TriggersTyped, JobsTyped, Jobs, Entries

LEMMA ScanTyped ==
  ASSUME TriggersTyped, NEW j, Scan(j)
  PROVE  /\ j \in Watchers /\ UNCHANGED <<now, rowVars, runs, crashes>>
         /\ JobsTyped' /\ \A k \in Jobs : k # j => job'[k] = job[k]
         /\ job'[j].todo = FoundBy(j) /\ job'[j].fired_at = now /\ ~InHand(j)'
  <1>1. /\ j \in Watchers /\ UNCHANGED <<now, rowVars, runs, crashes>>
        /\ job' = [job EXCEPT ![j] =
             [Idle EXCEPT !.pc = "scan", !.fired_at = now, !.todo = FoundBy(j)]]
    BY DEF Scan, FoundBy
  <1>2. FoundBy(j) \in SUBSET Entries /\ (\A e \in FoundBy(j) : OfJob(e, j)) /\ j \in Jobs
    BY <1>1, FoundTyped DEF Jobs
  <1> QED
    BY <1>1, <1>2, BeginTyped

LEMMA MatchTyped ==
  ASSUME TriggersTyped, NEW j, NEW e \in job[j].todo, NEW occ \in e.trigger.at, Match(j, e, occ)
  PROVE  /\ j \in Watchers /\ UNCHANGED <<now, rowVars, runs, crashes>>
         /\ JobsTyped' /\ \A k \in Jobs : k # j => job'[k] = job[k]
         /\ job'[j].todo = job[j].todo \ {e} /\ job'[j].fired_at = job[j].fired_at
         /\ InHand(j)' /\ job'[j].pc = "latch" /\ job'[j].cur = [e EXCEPT !.occ = occ]
         /\ ~InHand(j) /\ e \in Entries /\ OfJob(e, j) /\ occ \in Nat
  <1>1. /\ j \in Watchers /\ j \in Jobs /\ UNCHANGED <<now, rowVars, runs, crashes>>
        /\ job[j].pc = "scan"
        /\ job' = [job EXCEPT ![j] =
             [@ EXCEPT !.pc = "latch", !.todo = job[j].todo \ {e}, !.cur = [e EXCEPT !.occ = occ]]]
    BY DEF Match, Jobs
  <1>2. job \in [Jobs -> JobState] /\ e \in Entries /\ OfJob(e, j)
    BY <1>1, EntryAtHand DEF TriggersTyped, JobsTyped
  <1>3. occ \in Nat
    BY <1>2, TriggerTyped DEF Entries
  <1>4. [e EXCEPT !.occ = occ] \in Entries /\ OfJob([e EXCEPT !.occ = occ], j)
        /\ [e EXCEPT !.occ = occ].occ = occ
    BY <1>2, <1>3 DEF Entries, OfJob, Deadline
  <1>5. job'[j] = [job[j] EXCEPT !.pc = "latch", !.todo = job[j].todo \ {e},
                                 !.cur = [e EXCEPT !.occ = occ]]
    BY <1>1, <1>2
  <1>6. /\ job'[j] \in JobState /\ job'[j].pc = "latch" /\ job'[j].cur = [e EXCEPT !.occ = occ]
        /\ job'[j].todo = job[j].todo \ {e} /\ job'[j].fired_at = job[j].fired_at
    BY <1>1, <1>2, <1>4, <1>5 DEF JobState, PCs
  <1>7. job' \in [Jobs -> JobState] /\ \A k \in Jobs : k # j => job'[k] = job[k]
    BY <1>1, <1>2, <1>6
  <1>8. JobsTyped'
    <2>1. /\ \A f \in job'[j].todo : OfJob(f, j)
          /\ job'[j].cur \in Entries /\ OfJob(job'[j].cur, j) /\ job'[j].cur.occ \in Nat
      BY <1>1, <1>3, <1>4, <1>6 DEF TriggersTyped, JobsTyped
    <2> QED
      BY <1>7, <2>1 DEF TriggersTyped, JobsTyped, InHand
  <1>9. InHand(j)' /\ ~InHand(j)
    BY <1>1, <1>6 DEF InHand
  <1> QED
    BY <1>1, <1>2, <1>3, <1>6, <1>7, <1>8, <1>9

LEMMA PassOverTyped ==
  ASSUME TriggersTyped, NEW j, NEW e \in job[j].todo, PassOver(j, e)
  PROVE  /\ j \in Watchers /\ UNCHANGED <<now, rowVars, runs, crashes>>
         /\ JobsTyped' /\ \A k \in Jobs : k # j => job'[k] = job[k]
         /\ job'[j].todo \subseteq job[j].todo /\ ~InHand(j)' /\ ~InHand(j)
         /\ job'[j].todo # {} => job'[j].fired_at = job[j].fired_at
  BY DoneTyped DEF PassOver, Jobs, InHand

LEMMA PersistLatchTyped ==
  ASSUME TriggersTyped, NEW j \in Watchers, PersistLatch(j)
  PROVE  /\ InHand(j) /\ RowsTyped' /\ JobsTyped' /\ \A k \in Jobs : k # j => job'[k] = job[k]
         /\ job[j].pc = "latch" /\ job'[j].pc = "fire" /\ job'[j].cur = job[j].cur
         /\ job'[j].todo = job[j].todo /\ job'[j].fired_at = job[j].fired_at
         /\ IF job[j].cur.trigger.kind = "expiry" THEN UNCHANGED latch
            ELSE SetLatch(job[j].cur, job[j].cur.occ)
         /\ UNCHANGED <<now, status, version, steps, next_run, next_run_at, expires_at, runs,
                        crashes>>
  <1>1. /\ InHand(j) /\ job[j].pc = "latch" /\ j \in Jobs
        /\ IF job[j].cur.trigger.kind = "expiry" THEN UNCHANGED latch
           ELSE SetLatch(job[j].cur, job[j].cur.occ)
        /\ job' = [job EXCEPT ![j].pc = "fire"]
        /\ UNCHANGED <<now, status, version, steps, next_run, next_run_at, expires_at, runs,
                       crashes>>
    BY DEF PersistLatch, InHand, Jobs
  <1>2. job \in [Jobs -> JobState]
    BY DEF TriggersTyped, JobsTyped
  <1>3. /\ job'[j] \in JobState /\ job'[j].pc = "fire" /\ job'[j].cur = job[j].cur
        /\ job'[j].todo = job[j].todo /\ job'[j].fired_at = job[j].fired_at
    BY <1>1, <1>2 DEF JobState, PCs
  <1>4. job' \in [Jobs -> JobState] /\ \A k \in Jobs : k # j => job'[k] = job[k]
    BY <1>1, <1>2, <1>3
  <1>5. JobsTyped'
    BY <1>1, <1>3, <1>4 DEF TriggersTyped, JobsTyped, InHand
  <1>6. RowsTyped'
    BY <1>1, CurAtHand, SetLatchTyped, RowsFrame DEF rowVars, Deadline
  <1> QED
    BY <1>1, <1>3, <1>4, <1>5, <1>6

LEMMA FireWatchTyped ==
  ASSUME TriggersTyped, NEW j \in Watchers, FireWatch(j)
  PROVE  /\ InHand(j) /\ RowsTyped' /\ JobsTyped' /\ \A k \in Jobs : k # j => job'[k] = job[k]
         /\ job[j].pc = "fire" /\ job'[j].todo \subseteq job[j].todo
         /\ job'[j].todo # {} => job'[j].fired_at = job[j].fired_at
         /\ InHand(j)' => job'[j].pc \in {"clear", "expire"} /\ job'[j].cur = job[j].cur
         /\ job'[j].pc = "expire" => job[j].cur.trigger.kind = "ipo"
         /\ job'[j].pc = "clear" => job[j].cur.trigger.kind \in {"macro", "earnings"}
         /\ \/ /\ UNCHANGED runs
               /\ job[j].cur.trigger.kind \in {"macro", "earnings"} => job'[j].pc = "clear"
               /\ UNCHANGED <<status, next_run, next_run_at>> \/ Deactivate({job[j].cur.wf})
            \/ /\ status[job[j].cur.wf] = "active" /\ runs' = runs \cup {Run(job[j].cur, now)}
               /\ job'[j].pc # "clear" /\ UNCHANGED <<status, next_run, next_run_at>>
         /\ UNCHANGED <<now, version, steps, expires_at, latch, crashes>>
         /\ \A wf \in Workflows : status[wf] # "active" => status'[wf] = status[wf]
  <1>1. InHand(j) /\ job[j].pc = "fire"
    BY DEF FireWatch, InHand
  <1>2. UNCHANGED <<now, version, steps, expires_at, latch, crashes>>
    BY DEF FireWatch
  <1>3. PICK created \in BOOLEAN :
          /\ job' = After(j, job[j].cur, created)
          /\ created => /\ status[job[j].cur.wf] = "active"
                        /\ runs' = runs \cup {Run(job[j].cur, now)}
                        /\ UNCHANGED <<status, next_run, next_run_at>>
          /\ ~created => /\ UNCHANGED runs
                         /\ \/ UNCHANGED <<status, next_run, next_run_at>>
                            \/ /\ status[job[j].cur.wf] = "active"
                               /\ Deactivate({job[j].cur.wf})
    BY DEF FireWatch
  <1>4. /\ JobsTyped'
        /\ \A k \in Jobs : k # j => job'[k] = job[k]
        /\ job'[j].todo \subseteq job[j].todo
        /\ InHand(j)' => job'[j].pc \in {"clear", "expire"} /\ job'[j].cur = job[j].cur
        /\ job'[j].pc = "clear" => ~created /\ job[j].cur.trigger.kind \in {"macro", "earnings"}
        /\ ~created /\ job[j].cur.trigger.kind \in {"macro", "earnings"} => job'[j].pc = "clear"
        /\ job'[j].pc = "expire" => job[j].cur.trigger.kind = "ipo"
        /\ job'[j].todo # {} => job'[j].fired_at = job[j].fired_at
    BY <1>1, <1>3, AfterTyped
  <1>5. RowsTyped'
    BY <1>1, <1>2, <1>3, CurAtHand, DeactivateTyped, RowsFrame DEF rowVars
  <1>6. \A wf \in Workflows : status[wf] # "active" => status'[wf] = status[wf]
    BY <1>3 DEF Deactivate
  <1> QED
    BY <1>1, <1>2, <1>3, <1>4, <1>5, <1>6

LEMMA ClearLatchTyped ==
  ASSUME TriggersTyped, NEW j \in Watchers, ClearLatch(j)
  PROVE  /\ InHand(j) /\ RowsTyped' /\ JobsTyped' /\ \A k \in Jobs : k # j => job'[k] = job[k]
         /\ job[j].pc = "clear" /\ job'[j].todo \subseteq job[j].todo /\ ~InHand(j)'
         /\ job'[j].todo # {} => job'[j].fired_at = job[j].fired_at
         /\ SetLatch(job[j].cur, None)
         /\ UNCHANGED <<now, status, version, steps, next_run, next_run_at, expires_at, runs,
                        crashes>>
  <1>1. /\ InHand(j) /\ job[j].pc = "clear" /\ SetLatch(job[j].cur, None)
        /\ job' = Done(j, job[j].cur)
        /\ UNCHANGED <<now, status, version, steps, next_run, next_run_at, expires_at, runs,
                       crashes>>
    BY DEF ClearLatch, InHand
  <1>2. RowsTyped'
    BY <1>1, CurAtHand, SetLatchTyped DEF Deadline
  <1> QED
    BY <1>1, <1>2, CurAtHand, DoneTyped

LEMMA SetExpiryTyped ==
  ASSUME TriggersTyped, NEW j \in Watchers, SetExpiry(j)
  PROVE  /\ InHand(j) /\ RowsTyped' /\ JobsTyped' /\ \A k \in Jobs : k # j => job'[k] = job[k]
         /\ job[j].pc = "expire" /\ job'[j].todo \subseteq job[j].todo /\ ~InHand(j)'
         /\ job'[j].todo # {} => job'[j].fired_at = job[j].fired_at
         /\ UNCHANGED <<now, status, version, steps, next_run, next_run_at, latch, runs, crashes>>
  <1>1. /\ InHand(j) /\ job[j].pc = "expire" /\ job' = Done(j, job[j].cur)
        /\ UNCHANGED <<now, status, version, steps, next_run, next_run_at, latch, runs, crashes>>
    BY DEF SetExpiry, InHand
  <1>2. PICK key : /\ expires_at' = [expires_at EXCEPT ![job[j].cur.wf] = key]
                   /\ key \in {Earliest({expires_at[job[j].cur.wf], ListingEnd}),
                               expires_at[job[j].cur.wf]}
    BY DEF SetExpiry
  <1>3. job[j].cur.wf \in Workflows /\ expires_at \in [Workflows -> Deadline]
    BY <1>1, CurAtHand DEF TriggersTyped, RowsTyped
  <1>4. {expires_at[job[j].cur.wf], ListingEnd} \in SUBSET Deadline
    BY <1>3, TriggerAssumption DEF Deadline
  <1>5. key \in Deadline
    BY <1>2, <1>3, <1>4, EarliestIsLeast
  <1>6. expires_at' \in [Workflows -> Deadline]
    BY <1>2, <1>3, <1>5
  <1>7. RowsTyped'
    BY <1>1, <1>6 DEF TriggersTyped, RowsTyped, StepsOf
  <1> QED
    BY <1>1, <1>7, CurAtHand, DoneTyped

LEMMA CrashTyped ==
  ASSUME TriggersTyped, Crash
  PROVE  /\ crashes' \in 0 .. MaxCrashes /\ crashes' # 0 /\ JobsTyped'
         /\ \A j \in Jobs : job'[j] = Idle
         /\ UNCHANGED <<now, rowVars, runs>>
  <1>1. JobsTyped' /\ \A j \in Jobs : job'[j] = Idle
    BY IdleTyped DEF Crash, JobsTyped, InHand
  <1> QED
    BY <1>1, TriggerAssumption DEF Crash, TriggersTyped

LEMMA TypeStep == ASSUME TriggersTyped, Next PROVE TriggersTyped'
  <1>1. CASE UserStep
    BY <1>1, UserTyped, JobsFrame DEF UserStep, TriggersTyped
  <1>2. CASE PollStep
    <2>1. RowsTyped' /\ JobsTyped'
      BY <1>2, StartPollTyped, FireOneTyped DEF PollStep
    <2>2. UNCHANGED <<now, crashes>>
      BY <1>2 DEF PollStep, StartPoll, FireOne
    <2> QED
      BY <2>1, <2>2 DEF TriggersTyped
  <1>3. CASE Tick
    BY <1>3, TriggerAssumption, RowsFrame, JobsFrame DEF Tick, TriggersTyped
  <1>4. CASE Crash
    BY <1>4, CrashTyped, RowsFrame DEF TriggersTyped
  <1>5. ASSUME NEW j \in Watchers, WatchStep(j) PROVE TriggersTyped'
    <2>1. CASE Scan(j)
      BY <2>1, ScanTyped, RowsFrame DEF TriggersTyped
    <2>2. CASE PersistLatch(j)
      BY <2>2, PersistLatchTyped DEF TriggersTyped
    <2>3. CASE FireWatch(j)
      BY <2>3, FireWatchTyped DEF TriggersTyped
    <2>4. CASE ClearLatch(j)
      BY <2>4, ClearLatchTyped DEF TriggersTyped
    <2>5. CASE SetExpiry(j)
      BY <2>5, SetExpiryTyped DEF TriggersTyped
    <2>6. ASSUME NEW e \in job[j].todo, PassOver(j, e) PROVE TriggersTyped'
      BY <2>6, PassOverTyped, RowsFrame DEF TriggersTyped
    <2>7. ASSUME NEW e \in job[j].todo, NEW occ \in e.trigger.at, Match(j, e, occ)
          PROVE  TriggersTyped'
      BY <2>7, MatchTyped, RowsFrame DEF TriggersTyped
    <2> QED
      BY <1>5, <2>1, <2>2, <2>3, <2>4, <2>5, <2>6, <2>7 DEF WatchStep
  <1> QED
    BY <1>1, <1>2, <1>3, <1>4, <1>5 DEF Next

LEMMA TypeStutter == ASSUME TriggersTyped, UNCHANGED vars PROVE TriggersTyped'
  BY RowsFrame, JobsFrame DEF vars, TriggersTyped

LEMMA AlwaysTyped == Spec => []TriggersTyped
  <1>1. TriggersTyped /\ [Next]_vars => TriggersTyped'
    BY TypeStep, TypeStutter
  <1> QED
    BY <1>1, TypeInit, PTL DEF Spec

\* Every variable of the scheduler keeps its type: the rows of models.py, the
\* fire-once keys in the step configs, and what the polling jobs keep in memory.
THEOREM TriggersTypeCorrect == Spec => []TypeOK
  BY AlwaysTyped, TypedMeansTypeOK, PTL

-----------------------------------------------------------------------------
(* The summary and its steps *)

SameArms == UNCHANGED <<status, steps, next_run, next_run_at>>

LEMMA SameArmsKeep == ASSUME ArmedTogether, SameArms PROVE ArmedTogether'
  BY DEF SameArms, ArmedTogether, StepsOf

LEMMA NothingArmed ==
  ASSUME NEW column, NEW S, \A i \in S : column[i] = None
  PROVE  Earliest({column[i] : i \in S}) = None
  <1>1. {column[i] : i \in S} \in SUBSET Deadline /\ {column[i] : i \in S} \subseteq {None}
    BY DEF Deadline
  <1> QED
    BY <1>1, EarliestIsLeast

\* upsert_workflow_schedule: a workflow it leaves or makes inactive is disarmed,
\* the spent one-time agent among them.
LEMMA UpsertArms ==
  ASSUME TriggersTyped, ArmedTogether, NEW wf \in Workflows, NEW st \in Status,
         Upsert(wf, st), UNCHANGED steps
  PROVE  ArmedTogether'
  <1> PICK armed : armed = IF st = "active" THEN Armed(steps[wf]) ELSE Unarmed(steps[wf])
    OBVIOUS
  <1> DEFINE summary == Earliest({armed[i] : i \in StepsOf(wf)})
  <1>1. steps[wf] \in PlanRow /\ now \in Nat
    BY TriggerAssumption DEF TriggersTyped, RowsTyped
  <1>2. \A v \in Workflows :
          /\ next_run'[v] = IF v = wf THEN armed ELSE next_run[v]
          /\ next_run_at'[v] = IF v = wf THEN summary ELSE next_run_at[v]
          /\ v # wf => status'[v] = status[v]
    BY DEF Upsert, TriggersTyped, RowsTyped
  <1>3. summary # None => status'[wf] = "active"
    <2>1. CASE st = "active" /\ ~Spent(steps[wf])
      BY <2>1 DEF Upsert, TriggersTyped, RowsTyped
    <2>2. CASE st # "active" \/ Spent(steps[wf])
      <3>1. \A i \in StepsOf(wf) : armed[i] = None
        BY <1>1, <2>2, ArmedColumn, UnarmedColumn DEF StepsOf
      <3>2. summary = None
        BY <3>1, NothingArmed
      <3> QED
        BY <3>2
    <2> QED
      BY <2>1, <2>2
  <1> HIDE DEF summary
  <1>4. ASSUME NEW v \in Workflows
        PROVE  next_run_at'[v] = Earliest({next_run'[v][i] : i \in StepsOf(v)})
    <2>1. CASE v = wf
      <3>1. next_run'[v] = armed /\ next_run_at'[v] = summary
        BY <1>2, <2>1
      <3> QED
        BY <2>1, <3>1 DEF summary
    <2>2. CASE v # wf
      <3>1. next_run'[v] = next_run[v] /\ next_run_at'[v] = next_run_at[v]
        BY <1>2, <2>2
      <3> QED
        BY <3>1 DEF ArmedTogether
    <2> QED
      BY <2>1, <2>2
  <1> QED
    BY <1>2, <1>3, <1>4 DEF ArmedTogether, StepsOf

LEMMA DeactivateArms ==
  ASSUME TriggersTyped, ArmedTogether, NEW wfs, Deactivate(wfs), UNCHANGED steps
  PROVE  ArmedTogether'
  <1>1. \A v \in Workflows :
          /\ next_run'[v] = IF v \in wfs THEN Unarmed(steps[v]) ELSE next_run[v]
          /\ next_run_at'[v] = IF v \in wfs THEN None ELSE next_run_at[v]
          /\ v \notin wfs => status'[v] = status[v]
    BY DEF Deactivate
  <1>2. ASSUME NEW v \in wfs
        PROVE  Earliest({Unarmed(steps[v])[i] : i \in StepsOf(v)}) = None
    <2>1. \A i \in StepsOf(v) : Unarmed(steps[v])[i] = None
      BY DEF Unarmed, StepsOf
    <2> QED
      BY <2>1, NothingArmed
  <1>3. \A v \in Workflows :
          next_run_at'[v] = Earliest({next_run'[v][i] : i \in StepsOf(v)})
    BY <1>1, <1>2 DEF ArmedTogether
  <1> QED
    BY <1>1, <1>3 DEF ArmedTogether, StepsOf

LEMMA PatchArms ==
  ASSUME TriggersTyped, ArmedTogether, NEW wf \in Workflows, NEW plan \in Plans,
         NEW expiry \in Expiries, NEW keep \in BOOLEAN, Patch(wf, plan, expiry, keep)
  PROVE  ArmedTogether'
  <1>1. /\ next_run_at' = next_run_at /\ status' = status /\ status[wf] # "active"
        /\ \A v \in Workflows : /\ next_run'[v] = IF v = wf THEN Unarmed(plan) ELSE next_run[v]
                                /\ steps'[v] = IF v = wf THEN plan ELSE steps[v]
    BY DEF Patch, TriggersTyped, RowsTyped
  <1>2. next_run_at[wf] = None
    BY <1>1 DEF ArmedTogether
  <1>3. Earliest({Unarmed(plan)[i] : i \in DOMAIN plan}) = None
    <2>1. \A i \in DOMAIN plan : Unarmed(plan)[i] = None
      BY DEF Unarmed
    <2> QED
      BY <2>1, NothingArmed
  <1>4. ASSUME NEW v \in Workflows
        PROVE  next_run_at'[v] = Earliest({next_run'[v][i] : i \in DOMAIN steps'[v]})
    <2>1. CASE v = wf
      <3>1. next_run'[v] = Unarmed(plan) /\ steps'[v] = plan /\ next_run_at'[v] = None
        BY <1>1, <1>2, <2>1
      <3> QED
        BY <1>3, <3>1
    <2>2. CASE v # wf
      <3>1. /\ next_run'[v] = next_run[v] /\ steps'[v] = steps[v]
            /\ next_run_at'[v] = next_run_at[v]
        BY <1>1, <2>2
      <3> QED
        BY <3>1 DEF ArmedTogether, StepsOf
    <2> QED
      BY <2>1, <2>2
  <1>5. \A v \in Workflows : next_run_at'[v] # None => status'[v] = "active"
    BY <1>1 DEF ArmedTogether
  <1> QED
    BY <1>4, <1>5 DEF ArmedTogether, StepsOf

LEMMA DeleteArms ==
  ASSUME TriggersTyped, ArmedTogether, NEW wf \in Workflows, Delete(wf)
  PROVE  ArmedTogether'
  <1>1. \A v \in Workflows :
          /\ steps'[v] = IF v = wf THEN <<>> ELSE steps[v]
          /\ next_run'[v] = IF v = wf THEN <<>> ELSE next_run[v]
          /\ next_run_at'[v] = IF v = wf THEN None ELSE next_run_at[v]
          /\ v # wf => status'[v] = status[v]
    BY DEF Delete, TriggersTyped, RowsTyped
  <1>2. \A column : Earliest({column[i] : i \in DOMAIN <<>>}) = None
    BY NothingArmed
  <1>3. \A v \in Workflows :
          next_run_at'[v] = Earliest({next_run'[v][i] : i \in DOMAIN steps'[v]})
    BY <1>1, <1>2 DEF ArmedTogether, StepsOf
  <1> QED
    BY <1>1, <1>3 DEF ArmedTogether, StepsOf

LEMMA ArmedInit == Init => ArmedTogether
  <1> SUFFICES ASSUME Init PROVE ArmedTogether
    OBVIOUS
  <1>1. ASSUME NEW wf \in Workflows
        PROVE  Earliest({next_run[wf][i] : i \in StepsOf(wf)}) = None
    <2>1. \A i \in StepsOf(wf) : next_run[wf][i] = None
      BY DEF Init, Unarmed, StepsOf
    <2> QED
      BY <2>1, NothingArmed
  <1> QED
    BY <1>1 DEF Init, ArmedTogether

LEMMA ArmedStep == ASSUME TriggersTyped, ArmedTogether, Next PROVE ArmedTogether'
  <1>1. ASSUME NEW wf \in Workflows,
               Activate(wf) \/ Pause(wf) \/ Archive(wf) \/ Delete(wf) \/ RunNow(wf)
        PROVE  ArmedTogether'
    <2>1. CASE Activate(wf) \/ Pause(wf) \/ Archive(wf)
      BY <2>1, UpsertArms DEF Activate, Pause, Archive, Status
    <2>2. CASE RunNow(wf)
      BY <2>2, SameArmsKeep DEF RunNow, SameArms, rowVars
    <2> QED
      BY <1>1, <2>1, <2>2, DeleteArms
  <1>2. CASE UserStep
    BY <1>1, <1>2, PatchArms DEF UserStep
  <1>3. CASE StartPoll
    <2>1. \E wfs : Deactivate(wfs)
      BY <1>3 DEF StartPoll
    <2>2. UNCHANGED steps
      BY <1>3 DEF StartPoll
    <2> QED
      BY <2>1, <2>2, DeactivateArms
  <1>4. ASSUME NEW e \in job["poll"].todo, FireOne(e) PROVE ArmedTogether'
    <2>1. e.wf \in Workflows /\ UNCHANGED steps
      BY <1>4, EntryAtHand, JobNames DEF FireOne
    <2>2. \/ UNCHANGED <<status, next_run, next_run_at>>
          \/ Deactivate({e.wf}) \/ Upsert(e.wf, "active")
      BY <1>4 DEF FireOne
    <2> QED
      BY <2>1, <2>2, UpsertArms, DeactivateArms, SameArmsKeep DEF SameArms, Status
  <1>5. CASE Tick \/ Crash
    BY <1>5, SameArmsKeep DEF Tick, Crash, SameArms, rowVars
  <1>6. ASSUME NEW j \in Watchers, WatchStep(j) PROVE ArmedTogether'
    <2>1. CASE FireWatch(j)
      <3>1. SameArms \/ (UNCHANGED steps /\ \E wfs : Deactivate(wfs))
        BY <2>1 DEF FireWatch, SameArms
      <3> QED
        BY <3>1, DeactivateArms, SameArmsKeep
    <2>2. CASE ~FireWatch(j)
      <3>1. SameArms
        BY <1>6, <2>2 DEF WatchStep, Scan, PersistLatch, ClearLatch, SetExpiry, PassOver, Match,
                          SameArms, rowVars
      <3> QED
        BY <3>1, SameArmsKeep
    <2> QED
      BY <2>1, <2>2
  <1> QED
    BY <1>2, <1>3, <1>4, <1>5, <1>6 DEF Next, PollStep

\* Only an active workflow is armed, and its summary is the earliest of its
\* steps' instants, whatever activation, pause, edit, expiry, fire and deletion
\* do to it (upsert_workflow_schedule, _deactivate_expired, patch_workflow).
THEOREM SummaryNeverStale == Spec => []ArmedTogether
  <1>1. TriggersTyped /\ ArmedTogether /\ [Next]_vars => ArmedTogether'
    BY ArmedStep, SameArmsKeep DEF vars, rowVars, SameArms
  <1> QED
    BY <1>1, AlwaysTyped, ArmedInit, PTL DEF Spec

-----------------------------------------------------------------------------
(* A release's key stands for a run *)

Releases == {"macro", "earnings"}

\* The watcher of the step's kind is between the key and the run, or about to
\* take the key back.
InFlight(wf, i) ==
  LET j == steps[wf][i].kind IN
  /\ job[j].pc \in {"fire", "clear"}
  /\ job[j].cur.wf = wf /\ job[j].cur.step = i
  /\ job[j].cur.trigger.kind = j /\ job[j].cur.occ = latch[wf][i]

HasRun(wf, i) == \E r \in runs : r.wf = wf /\ r.step = i /\ r.occ = latch[wf][i]

Keyed(wf, i) == i \in StepsOf(wf) /\ steps[wf][i].kind \in Releases /\ latch[wf][i] # None

KeysBacked ==
  crashes = 0 =>
    \A wf \in Workflows : \A i \in StepsOf(wf) :
      Keyed(wf, i) => HasRun(wf, i) \/ InFlight(wf, i)

LEMMA BackedMeansLatch == KeysBacked => LatchMeansRun
  <1> SUFFICES ASSUME KeysBacked, crashes = 0, NEW wf \in Workflows, NEW i \in StepsOf(wf),
                      steps[wf][i].kind \in Releases, latch[wf][i] # None
               PROVE  \/ HasRun(wf, i)
                      \/ \E j \in Watchers : /\ job[j].pc \in {"fire", "clear"}
                                             /\ job[j].cur.wf = wf /\ job[j].cur.step = i
    BY DEF LatchMeansRun, HasRun, Releases
  <1>1. HasRun(wf, i) \/ InFlight(wf, i)
    BY DEF KeysBacked, Keyed
  <1>2. steps[wf][i].kind \in Watchers
    BY JobNames DEF Releases
  <1> QED
    BY <1>1, <1>2 DEF InFlight

\* A step whose trigger and key stay keeps its backing, if its runs do and the
\* watcher of its kind is not in the middle of another fire.
LEMMA BackingKept ==
  ASSUME KeysBacked, crashes = 0, NEW wf \in Workflows, NEW i \in StepsOf(wf), Keyed(wf, i),
         steps'[wf][i] = steps[wf][i], latch'[wf][i] = latch[wf][i],
         \A r \in runs : r.wf = wf => r \in runs',
         job'[steps[wf][i].kind] = job[steps[wf][i].kind]
           \/ job[steps[wf][i].kind].pc \notin {"fire", "clear"}
  PROVE  HasRun(wf, i)' \/ InFlight(wf, i)'
  <1>1. HasRun(wf, i) \/ InFlight(wf, i)
    BY DEF KeysBacked
  <1>2. CASE HasRun(wf, i)
    BY <1>2 DEF HasRun
  <1>3. CASE InFlight(wf, i)
    BY <1>3 DEF InFlight
  <1> QED
    BY <1>1, <1>2, <1>3

LEMMA BackedInit == Init => KeysBacked
  BY DEF Init, KeysBacked, Keyed, Unarmed, StepsOf

\* Where triggers and keys stay, and no fire is in the middle.
LEMMA BackedFrame ==
  ASSUME TriggersTyped, KeysBacked, UNCHANGED <<steps, latch, crashes>>, runs \subseteq runs',
         \A j \in Watchers : job'[j] = job[j] \/ job[j].pc \notin {"fire", "clear"}
  PROVE  KeysBacked'
  <1> SUFFICES ASSUME crashes' = 0, NEW wf \in Workflows, NEW i \in StepsOf(wf)', Keyed(wf, i)'
               PROVE  HasRun(wf, i)' \/ InFlight(wf, i)'
    BY DEF KeysBacked
  <1>1. crashes = 0 /\ i \in StepsOf(wf) /\ Keyed(wf, i)
    BY DEF StepsOf, Keyed
  <1>2. steps[wf][i].kind \in Watchers
    BY <1>1, JobNames DEF Keyed, Releases
  <1> QED
    BY <1>1, <1>2, BackingKept

LEMMA PatchBacked ==
  ASSUME TriggersTyped, KeysBacked, NEW wf \in Workflows, NEW plan \in Plans,
         NEW expiry \in Expiries, NEW keep \in BOOLEAN, Patch(wf, plan, expiry, keep)
  PROVE  KeysBacked'
  <1> SUFFICES ASSUME crashes' = 0, NEW v \in Workflows, NEW i \in StepsOf(v)', Keyed(v, i)'
               PROVE  HasRun(v, i)' \/ InFlight(v, i)'
    BY DEF KeysBacked
  <1>1. /\ UNCHANGED <<runs, job, crashes>>
        /\ v # wf => steps'[v] = steps[v] /\ latch'[v] = latch[v]
        /\ steps'[wf] = plan
        /\ latch'[wf] = [k \in DOMAIN plan |->
             IF keep /\ k \in StepsOf(wf) /\ plan[k] = steps[wf][k] THEN latch[wf][k] ELSE None]
    BY DEF Patch, TriggersTyped, RowsTyped
  <1>2. i \in StepsOf(v) /\ steps'[v][i] = steps[v][i] /\ latch'[v][i] = latch[v][i]
    BY <1>1 DEF Keyed, StepsOf
  <1>3. Keyed(v, i)
    BY <1>2 DEF Keyed
  <1> QED
    BY <1>1, <1>2, <1>3, BackingKept

LEMMA DeleteBacked ==
  ASSUME TriggersTyped, KeysBacked, NEW wf \in Workflows, Delete(wf)
  PROVE  KeysBacked'
  <1> SUFFICES ASSUME crashes' = 0, NEW v \in Workflows, NEW i \in StepsOf(v)', Keyed(v, i)'
               PROVE  HasRun(v, i)' \/ InFlight(v, i)'
    BY DEF KeysBacked
  <1>1. /\ UNCHANGED <<job, crashes>> /\ runs' = {r \in runs : r.wf # wf}
        /\ v # wf => steps'[v] = steps[v] /\ latch'[v] = latch[v]
        /\ steps'[wf] = <<>>
    BY DEF Delete, TriggersTyped, RowsTyped
  <1>2. v # wf
    BY <1>1 DEF StepsOf
  <1>3. i \in StepsOf(v) /\ Keyed(v, i)
    BY <1>1, <1>2 DEF Keyed, StepsOf
  <1> QED
    BY <1>1, <1>2, <1>3, BackingKept

LEMMA SetLatchFrame ==
  ASSUME TriggersTyped, NEW e \in Entries, NEW key, SetLatch(e, key),
         NEW wf \in Workflows, NEW i \in StepsOf(wf)
  PROVE  latch'[wf][i] =
           IF wf = e.wf /\ i = e.step /\ steps[wf][i].kind = e.trigger.kind
           THEN key ELSE latch[wf][i]
  <1>1. e.wf \in Workflows
    BY DEF Entries
  <1>2. i \in DOMAIN latch[wf] /\ latch \in [Workflows -> Column]
    BY DEF TriggersTyped, RowsTyped
  <1> QED
    BY <1>1, <1>2 DEF SetLatch

LEMMA PersistBacked ==
  ASSUME TriggersTyped, KeysBacked, NEW j \in Watchers, PersistLatch(j)
  PROVE  KeysBacked'
  <1> SUFFICES ASSUME crashes' = 0, NEW wf \in Workflows, NEW i \in StepsOf(wf)', Keyed(wf, i)'
               PROVE  HasRun(wf, i)' \/ InFlight(wf, i)'
    BY DEF KeysBacked
  <1> PICK e : e = job[j].cur
    OBVIOUS
  <1>1. /\ e \in Entries /\ OfJob(e, j) /\ UNCHANGED <<steps, runs, crashes>>
        /\ job[j].pc = "latch" /\ job'[j].pc = "fire" /\ job'[j].cur = e
        /\ \A k \in Jobs : k # j => job'[k] = job[k]
        /\ IF e.trigger.kind = "expiry" THEN UNCHANGED latch ELSE SetLatch(e, e.occ)
    BY PersistLatchTyped, CurAtHand
  <1>2. i \in StepsOf(wf) /\ steps[wf][i].kind \in Releases /\ crashes = 0
    BY <1>1 DEF StepsOf, Keyed
  <1>3. CASE wf = e.wf /\ i = e.step /\ steps[wf][i].kind = e.trigger.kind
    <2>1. e.trigger.kind = j
      BY <1>1, <1>2, <1>3, JobNames DEF OfJob, Releases, JobOf
    <2>2. latch'[wf][i] = e.occ
      BY <1>1, <1>2, <1>3, SetLatchFrame DEF Releases
    <2> QED
      BY <1>1, <1>3, <2>1, <2>2 DEF InFlight
  <1>4. CASE ~(wf = e.wf /\ i = e.step /\ steps[wf][i].kind = e.trigger.kind)
    <2>1. latch'[wf][i] = latch[wf][i]
      BY <1>1, <1>2, <1>4, SetLatchFrame
    <2>2. Keyed(wf, i)
      BY <1>1, <1>2, <2>1 DEF Keyed
    <2>3. steps[wf][i].kind \in Jobs
      BY <1>2, JobNames DEF Releases
    <2> QED
      BY <1>1, <1>2, <2>1, <2>2, <2>3, BackingKept
  <1> QED
    BY <1>3, <1>4

LEMMA ClearBacked ==
  ASSUME TriggersTyped, KeysBacked, NEW j \in Watchers, ClearLatch(j)
  PROVE  KeysBacked'
  <1> SUFFICES ASSUME crashes' = 0, NEW wf \in Workflows, NEW i \in StepsOf(wf)', Keyed(wf, i)'
               PROVE  HasRun(wf, i)' \/ InFlight(wf, i)'
    BY DEF KeysBacked
  <1> PICK e : e = job[j].cur
    OBVIOUS
  <1>1. /\ e \in Entries /\ OfJob(e, j) /\ UNCHANGED <<steps, runs, crashes>>
        /\ \A k \in Jobs : k # j => job'[k] = job[k]
        /\ SetLatch(e, None)
    BY ClearLatchTyped, CurAtHand
  <1>2. i \in StepsOf(wf) /\ steps[wf][i].kind \in Releases /\ crashes = 0
    BY <1>1 DEF StepsOf, Keyed
  <1>3. ~(wf = e.wf /\ i = e.step /\ steps[wf][i].kind = e.trigger.kind)
        /\ latch'[wf][i] = latch[wf][i]
    BY <1>1, <1>2, SetLatchFrame DEF Keyed
  <1>4. Keyed(wf, i)
    BY <1>1, <1>2, <1>3 DEF Keyed
  <1>5. steps[wf][i].kind \in Jobs
    BY <1>2, JobNames DEF Releases
  <1>6. CASE steps[wf][i].kind # j
    BY <1>1, <1>2, <1>3, <1>4, <1>5, <1>6, BackingKept
  <1>7. CASE steps[wf][i].kind = j
    <2>1. ~InFlight(wf, i)
      BY <1>3, <1>7 DEF InFlight
    <2>2. HasRun(wf, i)
      BY <1>2, <1>4, <2>1 DEF KeysBacked
    <2> QED
      BY <1>1, <1>3, <2>2 DEF HasRun
  <1> QED
    BY <1>6, <1>7

LEMMA FireWatchBacked ==
  ASSUME TriggersTyped, KeysBacked, NEW j \in Watchers, FireWatch(j)
  PROVE  KeysBacked'
  <1> SUFFICES ASSUME crashes' = 0, NEW wf \in Workflows, NEW i \in StepsOf(wf)', Keyed(wf, i)'
               PROVE  HasRun(wf, i)' \/ InFlight(wf, i)'
    BY DEF KeysBacked
  <1> PICK e : e = job[j].cur
    OBVIOUS
  <1>1. /\ e \in Entries /\ UNCHANGED <<steps, latch, crashes>> /\ runs \subseteq runs'
        /\ \A k \in Jobs : k # j => job'[k] = job[k]
        /\ \/ e.trigger.kind \in {"macro", "earnings"} => job'[j].pc = "clear"
           \/ runs' = runs \cup {Run(e, now)}
        /\ job'[j].pc = "clear" => job'[j].cur = e
    BY FireWatchTyped, CurAtHand DEF InHand
  <1>2. /\ i \in StepsOf(wf) /\ steps[wf][i].kind \in Releases /\ crashes = 0
        /\ Keyed(wf, i)
    BY <1>1 DEF StepsOf, Keyed
  <1>3. steps[wf][i].kind \in Jobs
    BY <1>2, JobNames DEF Releases
  <1>4. CASE steps[wf][i].kind # j
    BY <1>1, <1>2, <1>3, <1>4, BackingKept
  <1>5. CASE HasRun(wf, i)
    BY <1>1, <1>5 DEF HasRun
  <1>6. CASE steps[wf][i].kind = j /\ InFlight(wf, i)
    <2>1. e.wf = wf /\ e.step = i /\ e.trigger.kind = j /\ e.occ = latch[wf][i]
      BY <1>6 DEF InFlight
    <2>2. CASE job'[j].pc = "clear"
      BY <1>1, <1>6, <2>1, <2>2 DEF InFlight
    <2>3. CASE runs' = runs \cup {Run(e, now)}
      <3>1. Run(e, now).wf = wf /\ Run(e, now).step = i /\ Run(e, now).occ = latch[wf][i]
        BY <2>1 DEF Run
      <3> QED
        BY <1>1, <2>3, <3>1 DEF HasRun
    <2> QED
      BY <1>1, <1>2, <1>6, <2>1, <2>2, <2>3 DEF Releases
  <1> QED
    BY <1>2, <1>4, <1>5, <1>6 DEF KeysBacked

LEMMA BackedStep == ASSUME TriggersTyped, KeysBacked, Next PROVE KeysBacked'
  <1>1. ASSUME NEW wf \in Workflows,
               Activate(wf) \/ Pause(wf) \/ Archive(wf) \/ RunNow(wf)
        PROVE  KeysBacked'
    <2>1. UNCHANGED <<steps, latch, crashes, job>> /\ runs \subseteq runs'
      BY <1>1 DEF Activate, Pause, Archive, RunNow, rowVars
    <2> QED
      BY <2>1, BackedFrame
  <1>2. CASE UserStep
    BY <1>1, <1>2, PatchBacked, DeleteBacked DEF UserStep
  <1>3. CASE PollStep
    <2>1. "poll" \notin Watchers /\ Watchers \subseteq Jobs
      BY JobNames
    <2>2. \A j \in Watchers : job'[j] = job[j]
      BY <1>3, <2>1, StartPollTyped, FireOneTyped DEF PollStep
    <2>3. UNCHANGED <<steps, latch, crashes>> /\ runs \subseteq runs'
      BY <1>3 DEF PollStep, StartPoll, FireOne
    <2> QED
      BY <2>2, <2>3, BackedFrame
  <1>4. CASE Tick
    BY <1>4, BackedFrame DEF Tick, rowVars
  <1>5. CASE Crash
    BY <1>5, CrashTyped DEF KeysBacked
  <1>6. ASSUME NEW j \in Watchers, WatchStep(j) PROVE KeysBacked'
    <2>1. CASE \/ Scan(j) \/ SetExpiry(j)
               \/ \E e \in job[j].todo : PassOver(j, e) \/ \E occ \in e.trigger.at : Match(j, e, occ)
      <3>1. UNCHANGED <<steps, latch, crashes, runs>>
        BY <2>1 DEF Scan, SetExpiry, PassOver, Match, rowVars
      <3>2. job[j].pc \notin {"fire", "clear"}
        BY <2>1 DEF Scan, SetExpiry, PassOver, Match
      <3>3. \A k \in Watchers : k # j => job'[k] = job[k]
        <4>0. Watchers \subseteq Jobs
          BY DEF Jobs
        <4>1. CASE Scan(j)
          BY <4>0, <4>1, ScanTyped
        <4>2. CASE SetExpiry(j)
          BY <4>0, <4>2, SetExpiryTyped
        <4>3. ASSUME NEW e \in job[j].todo, PassOver(j, e)
              PROVE  \A k \in Watchers : k # j => job'[k] = job[k]
          BY <4>0, <4>3, PassOverTyped
        <4>4. ASSUME NEW e \in job[j].todo, NEW occ \in e.trigger.at, Match(j, e, occ)
              PROVE  \A k \in Watchers : k # j => job'[k] = job[k]
          <5>1. \A k \in Jobs : k # j => job'[k] = job[k]
            BY <4>4, MatchTyped, ZenonT(30)
          <5> QED
            BY <4>0, <5>1
        <4> QED
          BY <2>1, <4>1, <4>2, <4>3, <4>4
      <3> QED
        BY <3>1, <3>2, <3>3, BackedFrame
    <2> QED
      BY <1>6, <2>1, PersistBacked, ClearBacked, FireWatchBacked DEF WatchStep
  <1> QED
    BY <1>2, <1>3, <1>4, <1>5, <1>6 DEF Next

\* Without a crash, the key in a release trigger's config stands for a run, or
\* for a fire of its watcher that is not over (_poll_macro_triggers,
\* _poll_earnings_triggers: the key first, then the run, and the key back).
THEOREM KeysStandForRuns == Spec => []LatchMeansRun
  <1>1. TriggersTyped /\ KeysBacked /\ [Next]_vars => KeysBacked'
    <2>1. ASSUME TriggersTyped, KeysBacked, UNCHANGED vars PROVE KeysBacked'
      BY <2>1, BackedFrame DEF vars, rowVars
    <2> QED
      BY <2>1, BackedStep
  <1> QED
    BY <1>1, AlwaysTyped, BackedInit, BackedMeansLatch, PTL DEF Spec

-----------------------------------------------------------------------------
(* An instant or an occurrence fires one run *)

Dated == {"macro", "earnings", "event"}   \* the key is the occurrence fired last
Single == {"exit", "ipo"}                 \* the key says that the step has fired

Current(e) == e.seen = version[e.wf] /\ status[e.wf] # "deleted"
SameStep(r, e) == r.wf = e.wf /\ r.seen = e.seen /\ r.step = e.step

\* By the time t the key covers the occurrence, or a later one has come.
Superseded(occ, key, at, t) ==
  /\ occ \in at /\ occ <= t
  /\ key = occ \/ \E later \in at : occ < later /\ later <= t

\* What a row has to say of a run of its step.
Accounted(r) ==
  LET trigger == steps[r.wf][r.step]
      armed == next_run[r.wf][r.step]
      key == latch[r.wf][r.step]
  IN /\ trigger.kind \in Scheduled => r.occ <= now /\ (armed # None => r.occ < armed)
     /\ trigger.kind \in Dated => Superseded(r.occ, key, trigger.at, now)
     /\ trigger.kind \in Single => key # None
     /\ trigger.kind # "expiry" => ~r.again

Fired(r) == r.step # 0 /\ r.seen = version[r.wf]

RunsAccounted ==
  \A r \in runs :
    /\ r.wf \in Workflows /\ r.seen \in Nat /\ r.occ \in Nat
    /\ r.seen <= version[r.wf] /\ status[r.wf] # "deleted"
    /\ Fired(r) => r.step \in StepsOf(r.wf) /\ Accounted(r)

Holding(j) == InHand(j) /\ job[j].pc \in {"latch", "fire", "clear"}
Held(j) == job[j].todo \cup (IF Holding(j) THEN {job[j].cur} ELSE {})

KnowsStep(e) ==
  /\ e.seen <= version[e.wf]
  /\ Current(e) => e.step \in StepsOf(e.wf) /\ e.trigger = steps[e.wf][e.step]

\* While a job holds an entry of an older version, no step of its family has
\* fired in the new one: a stale write of a key does no harm.
NoneSince(e, j) ==
  e.seen < version[e.wf] =>
    \A r \in runs : r.wf = e.wf /\ Fired(r) => JobOf(steps[r.wf][r.step].kind) # j

HeldKnown(j) ==
  /\ \A e \in Held(j) : KnowsStep(e) /\ NoneSince(e, j)
  /\ \A e, f \in Held(j) : e.wf = f.wf => e.seen = f.seen /\ (e.step = f.step => e = f)
  /\ Holding(j) => job[j].cur \notin job[j].todo
  /\ job[j].todo # {} => job[j].fired_at <= now

TodoFresh(j) ==
  \A e \in job[j].todo :
    /\ j = "poll" => e.occ <= now
    /\ Current(e) => \A r \in runs : SameStep(r, e) =>
         /\ j = "poll" => r.occ # e.occ
         /\ e.trigger.kind \in Dated => Superseded(r.occ, e.had, e.trigger.at, job[j].fired_at)
         /\ e.trigger.kind \in Single => e.had # None

CurFresh(j) ==
  LET e == job[j].cur IN
  Holding(j) =>
    /\ e.trigger.kind \in Dated => e.occ \in e.trigger.at /\ e.occ <= now
    /\ job[j].pc = "clear" => e.trigger.kind \in Releases
    /\ Current(e) =>
         /\ \A r \in runs : SameStep(r, e) =>
              /\ e.trigger.kind \in Dated => r.occ < e.occ
              /\ e.trigger.kind \notin Single
         /\ job[j].pc # "latch" /\ e.trigger.kind # "expiry" => latch[e.wf][e.step] = e.occ

JobFresh(j) == HeldKnown(j) /\ TodoFresh(j) /\ CurFresh(j)

FireInv == TriggersTyped /\ RunsAccounted /\ \A j \in Jobs : JobFresh(j)

LEMMA FireInvMeansOnce == FireInv => FiresOnce
  BY DEF FireInv, RunsAccounted, Accounted, Fired, FiresOnce

\* What no step undoes.
Progress ==
  /\ now' >= now
  /\ \A wf \in Workflows :
       /\ version'[wf] >= version[wf]
       /\ version'[wf] = version[wf] /\ status'[wf] # "deleted" =>
            steps'[wf] = steps[wf] /\ status[wf] # "deleted"
  /\ \A r \in runs' : r.seen = version'[r.wf] =>
       version'[r.wf] = version[r.wf] /\ steps'[r.wf] = steps[r.wf]

LEMMA HeldTyped ==
  ASSUME TriggersTyped, NEW j \in Jobs, NEW e \in Held(j)
  PROVE  /\ e \in Entries /\ OfJob(e, j) /\ e.wf \in Workflows /\ e.seen \in Nat /\ e.step # 0
         /\ version[e.wf] \in Nat
  <1>1. e \in Entries /\ OfJob(e, j)
    BY EntryAtHand, CurAtHand DEF Held, Holding, InHand
  <1> QED
    BY <1>1 DEF Entries, TriggersTyped, RowsTyped

LEMMA KnowsStepKept ==
  ASSUME TriggersTyped, Progress, version' \in [Workflows -> Nat], NEW e \in Entries, KnowsStep(e)
  PROVE  KnowsStep(e)' /\ (Current(e)' => Current(e))
  <1>1. e.wf \in Workflows /\ e.seen \in Nat /\ version[e.wf] \in Nat /\ version'[e.wf] \in Nat
    BY DEF Entries, TriggersTyped, RowsTyped
  <1>2. Current(e)' => Current(e) /\ steps'[e.wf] = steps[e.wf]
    BY <1>1 DEF Progress, KnowsStep, Current
  <1> QED
    BY <1>1, <1>2 DEF Progress, KnowsStep, Current, StepsOf

\* A job that goes on with part of what it held stays fresh, if no new run is
\* of a step it holds, nor of its family past an edit.
LEMMA JobKept ==
  ASSUME TriggersTyped, Progress, version' \in [Workflows -> Nat], now' \in Nat, now \in Nat,
         NEW j \in Jobs, JobFresh(j),
         job'[j].todo \subseteq job[j].todo,
         job'[j].todo # {} => job'[j].fired_at = job[j].fired_at,
         job[j].fired_at \in Nat,
         Holding(j)' => /\ Holding(j) /\ job'[j].cur = job[j].cur
                        /\ job'[j].pc = "clear" => job[j].cur.trigger.kind \in Releases
                        /\ job[j].cur.trigger.kind # "expiry" /\ job'[j].pc # "latch"
                             /\ Current(job[j].cur)'
                             => latch'[job[j].cur.wf][job[j].cur.step] = job[j].cur.occ,
         \A r \in runs' \ runs : \A e \in Held(j)' :
           /\ ~(SameStep(r, e) /\ Current(e)')
           /\ r.wf = e.wf /\ e.seen < version'[e.wf] /\ Fired(r)' =>
                JobOf(steps'[r.wf][r.step].kind) # j
  PROVE  JobFresh(j)'
  <1>1. Held(j)' \subseteq Held(j)
    BY DEF Held
  <1>2. ASSUME NEW e \in Held(j)'
        PROVE  /\ e \in Held(j) /\ e \in Entries /\ KnowsStep(e)' /\ (Current(e)' => Current(e))
               /\ e.wf \in Workflows /\ version[e.wf] \in Nat /\ version'[e.wf] \in Nat
               /\ e.seen \in Nat
    BY <1>1, HeldTyped, KnowsStepKept DEF JobFresh, HeldKnown
  <1>3. ASSUME NEW e \in Held(j)' PROVE NoneSince(e, j)'
    <2> SUFFICES ASSUME e.seen < version'[e.wf], NEW r \in runs', r.wf = e.wf, Fired(r)'
                 PROVE  JobOf(steps'[r.wf][r.step].kind) # j
      BY DEF NoneSince
    <2>1. CASE r \in runs
      <3>1. version'[r.wf] = version[r.wf] /\ steps'[r.wf] = steps[r.wf]
        BY DEF Progress, Fired
      <3>2. Fired(r) /\ e.seen < version[e.wf]
        BY <3>1 DEF Fired
      <3> QED
        BY <1>2, <2>1, <3>1, <3>2 DEF JobFresh, HeldKnown, NoneSince
    <2> QED
      BY <2>1
  <1>4. HeldKnown(j)'
    <2>1. job'[j].todo # {} => job'[j].fired_at <= now'
      BY DEF JobFresh, HeldKnown, Progress
    <2>2. Holding(j)' => job'[j].cur \notin job'[j].todo
      BY DEF JobFresh, HeldKnown
    <2> QED
      BY <1>1, <1>2, <1>3, <2>1, <2>2 DEF JobFresh, HeldKnown
  <1>5. TodoFresh(j)'
    <2> SUFFICES ASSUME NEW e \in job'[j].todo
                 PROVE  /\ j = "poll" => e.occ <= now'
                        /\ Current(e)' => \A r \in runs' : SameStep(r, e) =>
                             /\ j = "poll" => r.occ # e.occ
                             /\ e.trigger.kind \in Dated =>
                                  Superseded(r.occ, e.had, e.trigger.at, job'[j].fired_at)
                             /\ e.trigger.kind \in Single => e.had # None
      BY DEF TodoFresh
    <2>1. e \in Held(j)' /\ e \in job[j].todo /\ job'[j].fired_at = job[j].fired_at
      BY DEF Held
    <2>2. j = "poll" => e.occ <= now'
      <3>1. j = "poll" => e.occ \in Nat /\ e.occ <= now
        BY <2>1, EntryAtHand DEF OfJob, JobFresh, TodoFresh
      <3> QED
        BY <3>1 DEF Progress
    <2>3. ASSUME Current(e)', NEW r \in runs', SameStep(r, e)
          PROVE  /\ r \in runs /\ Current(e)
      BY <1>2, <2>1, <2>3
    <2> QED
      BY <2>1, <2>2, <2>3 DEF JobFresh, TodoFresh
  <1>6. CurFresh(j)'
    <2> SUFFICES ASSUME Holding(j)' PROVE CurFresh(j)'
      BY DEF CurFresh
    <2> PICK e : e = job[j].cur
      OBVIOUS
    <2>1. e \in Held(j)' /\ Holding(j) /\ job'[j].cur = e
      BY DEF Held
    <2>2. e.trigger.kind \in Dated => e.occ \in e.trigger.at /\ e.occ <= now'
      <3>1. e.trigger.kind \in Dated => e.occ \in Nat /\ e.occ <= now /\ e.occ \in e.trigger.at
        BY <2>1, CurAtHand DEF JobFresh, CurFresh, Holding, InHand
      <3> QED
        BY <3>1 DEF Progress
    <2>3. ASSUME Current(e)', NEW r \in runs', SameStep(r, e)
          PROVE  /\ e.trigger.kind \in Dated => r.occ < e.occ
                 /\ e.trigger.kind \notin Single
      <3>1. r \in runs /\ Current(e)
        BY <1>2, <2>1, <2>3
      <3> QED
        BY <2>1, <2>3, <3>1 DEF JobFresh, CurFresh
    <2> QED
      BY <2>1, <2>2, <2>3 DEF CurFresh
  <1> QED
    BY <1>4, <1>5, <1>6 DEF JobFresh

\* Most steps leave the clock, the versions and the triggers alone.
Steady ==
  /\ UNCHANGED <<now, version, steps>>
  /\ \A wf \in Workflows : status'[wf] = "deleted" <=> status[wf] = "deleted"

Rearmed ==
  \A wf \in Workflows : \A i \in StepsOf(wf) :
    next_run'[wf][i] \in {None, next_run[wf][i]} \/ next_run'[wf][i] > now

LEMMA Numbers ==
  ASSUME TriggersTyped
  PROVE  now \in Nat /\ version \in [Workflows -> Nat]
  BY TriggerAssumption DEF TriggersTyped, RowsTyped

LEMMA SteadyProgress ==
  ASSUME TriggersTyped, RunsAccounted, Steady,
         \A r \in runs' : r.wf \in Workflows
  PROVE  Progress
  BY Numbers DEF Steady, Progress

LEMMA UpsertSteady ==
  ASSUME TriggersTyped, NEW wf \in Workflows, NEW st \in Status \ {"deleted"}, Upsert(wf, st),
         status[wf] # "deleted", UNCHANGED <<now, version, steps>>
  PROVE  Steady /\ Rearmed
  <1> PICK armed : armed = IF st = "active" THEN Armed(steps[wf]) ELSE Unarmed(steps[wf])
    OBVIOUS
  <1>1. steps[wf] \in PlanRow /\ now \in Nat
    BY Numbers DEF TriggersTyped, RowsTyped
  <1>2. \A i \in StepsOf(wf) : armed[i] = None \/ armed[i] > now
    BY <1>1, ArmedColumn, UnarmedColumn DEF StepsOf
  <1>3. \A v \in Workflows : /\ next_run'[v] = IF v = wf THEN armed ELSE next_run[v]
                             /\ v # wf => status'[v] = status[v]
                             /\ status'[wf] # "deleted"
    BY DEF Upsert, TriggersTyped, RowsTyped
  <1> QED
    BY <1>2, <1>3 DEF Steady, Rearmed

LEMMA DeactivateSteady ==
  ASSUME TriggersTyped, NEW wfs \in SUBSET Workflows, Deactivate(wfs),
         \A wf \in wfs : status[wf] # "deleted", UNCHANGED <<now, version, steps>>
  PROVE  Steady /\ Rearmed
  <1>1. \A wf \in Workflows :
          /\ next_run'[wf] = IF wf \in wfs THEN Unarmed(steps[wf]) ELSE next_run[wf]
          /\ status'[wf] = IF wf \in wfs THEN "paused" ELSE status[wf]
    BY DEF Deactivate
  <1>2. \A wf \in Workflows : \A i \in StepsOf(wf) : Unarmed(steps[wf])[i] = None
    BY DEF Unarmed, StepsOf
  <1> QED
    BY <1>1, <1>2 DEF Steady, Rearmed

LEMMA RunsKept ==
  ASSUME TriggersTyped, RowsTyped', RunsAccounted, Steady, Rearmed,
         \A r \in runs : Fired(r) =>
           LET trigger == steps[r.wf][r.step]  key == latch'[r.wf][r.step] IN
           /\ trigger.kind \in Dated => Superseded(r.occ, key, trigger.at, now)
           /\ trigger.kind \in Single => key # None,
         \A r \in runs' \ runs :
           /\ r.wf \in Workflows /\ r.seen \in Nat /\ r.occ \in Nat
           /\ r.seen <= version[r.wf] /\ status[r.wf] # "deleted"
           /\ Fired(r) => r.step \in StepsOf(r.wf) /\ Accounted(r)'
  PROVE  RunsAccounted'
  <1>1. UNCHANGED <<now, version, steps>> /\ now \in Nat
    BY Numbers DEF Steady
  <1>2. ASSUME NEW r \in runs'
        PROVE  /\ r.wf \in Workflows /\ r.seen \in Nat /\ r.occ \in Nat
               /\ r.seen <= version[r.wf] /\ status'[r.wf] # "deleted"
               /\ Fired(r) => r.step \in StepsOf(r.wf)
    BY DEF RunsAccounted, Steady
  <1>3. ASSUME NEW r \in runs, Fired(r) PROVE Accounted(r)'
    <2>1. /\ r.step \in StepsOf(r.wf) /\ r.wf \in Workflows /\ Accounted(r) /\ r.occ \in Nat
      BY <1>3 DEF RunsAccounted
    <2>2. steps[r.wf][r.step].kind \in Scheduled /\ next_run'[r.wf][r.step] # None
            => r.occ < next_run'[r.wf][r.step]
      <3>1. CASE next_run'[r.wf][r.step] \in {None, next_run[r.wf][r.step]}
        BY <2>1, <3>1 DEF Accounted
      <3>2. CASE next_run'[r.wf][r.step] > now /\ steps[r.wf][r.step].kind \in Scheduled
             /\ next_run'[r.wf][r.step] \in Nat
        BY <1>1, <2>1, <3>2 DEF Accounted
      <3>3. next_run'[r.wf][r.step] # None => next_run'[r.wf][r.step] \in Nat
        BY <1>1, <2>1, ColumnTyped DEF RowsTyped, StepsOf, Deadline
      <3> QED
        BY <2>1, <3>1, <3>2, <3>3 DEF Rearmed
    <2> QED
      BY <1>1, <1>3, <2>1, <2>2 DEF Accounted
  <1> QED
    BY <1>1, <1>2, <1>3 DEF RunsAccounted, Fired, StepsOf

LEMMA JobNumbers ==
  ASSUME TriggersTyped, NEW j \in Jobs
  PROVE  job[j].fired_at \in Nat
  BY DEF TriggersTyped, JobsTyped, JobState

\* A step that makes no run and writes no key.
LEMMA QuietRuns ==
  ASSUME FireInv, RowsTyped', Steady, Rearmed, UNCHANGED <<runs, latch>>
  PROVE  Progress /\ RunsAccounted'
  <1>1. Progress
    BY SteadyProgress DEF FireInv, RunsAccounted
  <1>2. \A r \in runs : Fired(r) => r.step \in StepsOf(r.wf) /\ Accounted(r)
    BY DEF FireInv, RunsAccounted
  <1>3. RunsAccounted'
    BY <1>2, RunsKept DEF FireInv, Accounted
  <1> QED
    BY <1>1, <1>3

\* A job that holds what it held, or puts it down.
LEMMA QuietJob ==
  ASSUME FireInv, TriggersTyped', Progress, UNCHANGED runs, NEW j \in Jobs,
         \/ /\ job'[j] = job[j]
            /\ Holding(j) /\ Current(job[j].cur)' =>
                 latch'[job[j].cur.wf][job[j].cur.step] = latch[job[j].cur.wf][job[j].cur.step]
         \/ /\ job'[j].todo \subseteq job[j].todo /\ ~Holding(j)'
            /\ job'[j].todo # {} => job'[j].fired_at = job[j].fired_at
  PROVE  JobFresh(j)'
  <1>1. /\ TriggersTyped /\ JobFresh(j) /\ version' \in [Workflows -> Nat]
        /\ now' \in Nat /\ now \in Nat /\ job[j].fired_at \in Nat
    <2>1. version' \in [Workflows -> Nat] /\ now' \in Nat
      BY TriggerAssumption DEF TriggersTyped, RowsTyped
    <2> QED
      BY <2>1, Numbers, JobNumbers DEF FireInv
  <1>2. ASSUME job'[j] = job[j],
               Holding(j) /\ Current(job[j].cur)' =>
                 latch'[job[j].cur.wf][job[j].cur.step] = latch[job[j].cur.wf][job[j].cur.step]
        PROVE  JobFresh(j)'
    <2>1. Holding(j)' <=> Holding(j)
      BY <1>2 DEF Holding, InHand
    <2>2. ASSUME Holding(j), Current(job[j].cur)'
          PROVE  Current(job[j].cur)
      <3> PICK e : e = job[j].cur
        OBVIOUS
      <3>1. e \in Held(j) /\ Current(e)'
        BY <1>2, <2>2 DEF Held
      <3>2. e \in Entries /\ KnowsStep(e)
        BY <1>1, <3>1, HeldTyped DEF JobFresh, HeldKnown
      <3>3. Current(e)
        BY <1>1, <3>1, <3>2, KnowsStepKept
      <3> QED
        BY <3>3
    <2>3. Holding(j) /\ job[j].pc = "clear" => job[j].cur.trigger.kind \in Releases
      BY <1>1 DEF JobFresh, CurFresh
    <2>4. ASSUME Holding(j), job[j].cur.trigger.kind # "expiry", job[j].pc # "latch",
                 Current(job[j].cur)'
          PROVE  latch'[job[j].cur.wf][job[j].cur.step] = job[j].cur.occ
      BY <1>1, <1>2, <2>2, <2>4 DEF JobFresh, CurFresh
    <2> QED
      BY <1>1, <1>2, <2>1, <2>3, <2>4, JobKept
  <1>3. CASE /\ job'[j].todo \subseteq job[j].todo /\ ~Holding(j)'
             /\ job'[j].todo # {} => job'[j].fired_at = job[j].fired_at
    BY <1>1, <1>3, JobKept
  <1> QED
    BY <1>2, <1>3

Fresh == RunsAccounted /\ \A j \in Jobs : JobFresh(j)

LEMMA QuietStep ==
  ASSUME FireInv, TriggersTyped', Steady, Rearmed, UNCHANGED <<runs, latch, job>>
  PROVE  Fresh'
  <1>1. Progress /\ RunsAccounted'
    BY QuietRuns DEF TriggersTyped
  <1>2. \A j \in Jobs : JobFresh(j)'
    BY <1>1, QuietJob
  <1> QED
    BY <1>1, <1>2 DEF Fresh

LEMMA RowsStill ==
  ASSUME UNCHANGED <<now, rowVars>>
  PROVE  Steady /\ Rearmed
  BY DEF rowVars, Steady, Rearmed

LEMMA TickFresh ==
  ASSUME FireInv, TriggersTyped', Tick
  PROVE  Fresh'
  <1>1. UNCHANGED <<rowVars, runs, job>> /\ now' = now + 1 /\ now \in Nat
    BY Numbers DEF Tick, FireInv
  <1>2. Progress
    BY <1>1, Numbers DEF FireInv, Progress, RunsAccounted, rowVars
  <1>3. ASSUME NEW r \in runs, Fired(r) PROVE Accounted(r)'
    <2>1. /\ r.step \in StepsOf(r.wf) /\ r.wf \in Workflows /\ Accounted(r) /\ r.occ \in Nat
          /\ steps[r.wf] \in PlanRow
      BY <1>3 DEF FireInv, RunsAccounted, TriggersTyped, RowsTyped
    <2>2. \A o \in steps[r.wf][r.step].at : o \in Nat
      BY <2>1, PlanTyped, TriggerTyped DEF StepsOf
    <2>3. ASSUME NEW key, Superseded(r.occ, key, steps[r.wf][r.step].at, now)
          PROVE  Superseded(r.occ, key, steps[r.wf][r.step].at, now')
      BY <1>1, <2>1, <2>2, <2>3 DEF Superseded
    <2> QED
      BY <1>1, <2>1, <2>3 DEF Accounted, rowVars
  <1>4. RunsAccounted'
    BY <1>1, <1>3 DEF FireInv, RunsAccounted, Fired, rowVars, StepsOf
  <1>5. \A j \in Jobs : JobFresh(j)'
    BY <1>1, <1>2, QuietJob DEF rowVars
  <1> QED
    BY <1>4, <1>5 DEF Fresh

LEMMA CrashFresh ==
  ASSUME FireInv, TriggersTyped', Crash
  PROVE  Fresh'
  <1>1. UNCHANGED <<now, rowVars, runs>> /\ \A j \in Jobs : job'[j] = Idle
    BY CrashTyped DEF FireInv
  <1>2. Progress /\ RunsAccounted'
    BY <1>1, RowsStill, QuietRuns DEF rowVars, TriggersTyped
  <1>3. \A j \in Jobs : JobFresh(j)'
    BY <1>1, <1>2, IdleTyped, QuietJob DEF Holding, InHand
  <1> QED
    BY <1>2, <1>3 DEF Fresh

\* An edit: no run of the new version, and what jobs hold is of an older one.
LEMMA PatchFresh ==
  ASSUME FireInv, TriggersTyped', NEW wf \in Workflows, NEW plan \in Plans,
         NEW expiry \in Expiries, NEW keep \in BOOLEAN, Patch(wf, plan, expiry, keep)
  PROVE  Fresh'
  <1>1. /\ UNCHANGED <<now, status, runs, job>> /\ version'[wf] = version[wf] + 1
        /\ \A v \in Workflows : v # wf =>
             /\ version'[v] = version[v] /\ steps'[v] = steps[v]
             /\ latch'[v] = latch[v] /\ next_run'[v] = next_run[v]
    BY DEF Patch, FireInv, TriggersTyped, RowsTyped
  <1>2. now \in Nat /\ \A v \in Workflows : version[v] \in Nat
    BY Numbers DEF FireInv
  <1>3. \A r \in runs : r.seen = version'[r.wf] => r.wf # wf
    BY <1>1, <1>2 DEF FireInv, RunsAccounted
  <1>4. Progress
    <2>1. \A v \in Workflows :
            /\ version'[v] >= version[v]
            /\ version'[v] = version[v] /\ status'[v] # "deleted" =>
                 steps'[v] = steps[v] /\ status[v] # "deleted"
      BY <1>1, <1>2
    <2> QED
      BY <1>1, <1>2, <1>3, <2>1 DEF Progress, FireInv, RunsAccounted
  <1>5. RunsAccounted'
    BY <1>1, <1>2, <1>3 DEF FireInv, RunsAccounted, Fired, Accounted, StepsOf
  <1>6. ASSUME NEW j \in Jobs PROVE JobFresh(j)'
    <2>1. ASSUME Holding(j), Current(job[j].cur)'
          PROVE  job[j].cur.wf \in Workflows /\ job[j].cur.wf # wf
      <3>1. job[j].cur \in Held(j)
        BY <2>1 DEF Held
      <3> QED
        BY <1>1, <1>2, <2>1, <3>1, HeldTyped
           DEF FireInv, JobFresh, HeldKnown, KnowsStep, Current
    <2> QED
      BY <1>1, <1>4, <2>1, QuietJob
  <1> QED
    BY <1>5, <1>6 DEF Fresh

LEMMA DeleteFresh ==
  ASSUME FireInv, TriggersTyped', NEW wf \in Workflows, Delete(wf)
  PROVE  Fresh'
  <1>1. /\ UNCHANGED <<now, version, job>> /\ status'[wf] = "deleted"
        /\ runs' = {r \in runs : r.wf # wf}
        /\ \A v \in Workflows : v # wf =>
             /\ status'[v] = status[v] /\ steps'[v] = steps[v]
             /\ latch'[v] = latch[v] /\ next_run'[v] = next_run[v]
    BY DEF Delete, FireInv, TriggersTyped, RowsTyped
  <1>2. now \in Nat /\ now' \in Nat /\ version' \in [Workflows -> Nat]
        /\ \A v \in Workflows : version[v] \in Nat
    BY <1>1, Numbers DEF FireInv
  <1>3. Progress
    BY <1>1, <1>2 DEF Progress, FireInv, RunsAccounted
  <1>4. RunsAccounted'
    BY <1>1, <1>2 DEF FireInv, RunsAccounted, Fired, Accounted, StepsOf
  <1>5. ASSUME NEW j \in Jobs PROVE JobFresh(j)'
    <2>1. Holding(j)' <=> Holding(j)
      BY <1>1 DEF Holding, InHand
    <2>2. ASSUME Holding(j), Current(job[j].cur)'
          PROVE  Current(job[j].cur) /\ job[j].cur.wf \in Workflows /\ job[j].cur.wf # wf
      <3>1. job[j].cur \in Held(j)
        BY <2>2 DEF Held
      <3> QED
        BY <1>1, <1>2, <2>2, <3>1, HeldTyped DEF FireInv, Current
    <2>3. JobFresh(j) /\ TriggersTyped /\ job[j].fired_at \in Nat
      BY JobNumbers DEF FireInv
    <2>4. Holding(j) /\ job[j].pc = "clear" => job[j].cur.trigger.kind \in Releases
      BY <2>3 DEF JobFresh, CurFresh
    <2>5. ASSUME Holding(j), job[j].cur.trigger.kind # "expiry", job[j].pc # "latch",
                 Current(job[j].cur)'
          PROVE  latch'[job[j].cur.wf][job[j].cur.step] = job[j].cur.occ
      BY <1>1, <2>2, <2>3, <2>5 DEF JobFresh, CurFresh
    <2> QED
      BY <1>1, <1>2, <1>3, <2>1, <2>3, <2>4, <2>5, JobKept
  <1> QED
    BY <1>4, <1>5 DEF Fresh

LEMMA RunTyped ==
  ASSUME NEW e, NEW at
  PROVE  LET r == Run(e, at) IN
         /\ r.wf = e.wf /\ r.seen = e.seen /\ r.step = e.step /\ r.occ = e.occ
         /\ (\A q \in runs : ~SameFire(q, e)) => ~r.again
  BY DEF Run

\* A run made for an entry is of no step that is held elsewhere, nor held still.
LEMMA NewRunApart ==
  ASSUME FireInv, NEW j \in Jobs, NEW e \in Held(j), status[e.wf] = "active",
         NEW k \in Jobs, NEW f \in Held(k), k = j => f # e, NEW at
  PROVE  LET r == Run(e, at) IN
         /\ ~(SameStep(r, f) /\ Current(f))
         /\ r.wf = f.wf /\ f.seen < version[f.wf] /\ Fired(r) =>
              JobOf(steps[r.wf][r.step].kind) # k
  <1> PICK r : r = Run(e, at)
    OBVIOUS
  <1>1. r.wf = e.wf /\ r.seen = e.seen /\ r.step = e.step
    BY RunTyped
  <1>2. /\ OfJob(e, j) /\ OfJob(f, k) /\ KnowsStep(e) /\ KnowsStep(f)
        /\ f.seen \in Nat /\ version[f.wf] \in Nat
    BY HeldTyped DEF FireInv, JobFresh, HeldKnown
  <1>3. j = k => (e.wf = f.wf => e.seen = f.seen /\ (e.step = f.step => e = f))
    BY DEF FireInv, JobFresh, HeldKnown
  <1>4. Fired(r) => Current(e) /\ e.trigger = steps[r.wf][r.step]
    BY <1>1, <1>2 DEF Fired, Current, KnowsStep
  <1>5. ASSUME SameStep(r, f), Current(f) PROVE FALSE
    <2>1. Current(e) /\ e.trigger = f.trigger /\ j # k
      BY <1>1, <1>2, <1>3, <1>5 DEF SameStep, Current, KnowsStep
    <2> QED
      BY <1>2, <2>1, JobNames DEF OfJob
  <1>6. ASSUME r.wf = f.wf, f.seen < version[f.wf], Fired(r),
               JobOf(steps[r.wf][r.step].kind) = k
        PROVE  FALSE
    <2>1. JobOf(e.trigger.kind) = k /\ e.seen = version[e.wf]
      BY <1>4, <1>6 DEF Current
    <2>2. j = k
      BY <1>2, <2>1, JobNames DEF OfJob
    <2>3. e.wf = f.wf /\ e.seen = f.seen
      BY <1>1, <1>3, <1>6, <2>2
    <2>4. f.seen = version[f.wf]
      BY <2>1, <2>3
    <2> QED
      BY <1>2, <1>6, <2>4
  <1> QED
    BY <1>5, <1>6

\* The jobs that have no part in a run's creation.
LEMMA OthersAfterRun ==
  ASSUME FireInv, TriggersTyped', Progress, Steady, UNCHANGED latch,
         NEW j \in Jobs, NEW e \in Held(j), status[e.wf] = "active",
         runs' = runs \cup {Run(e, now)}, NEW k \in Jobs,
         job'[k].todo \subseteq job[k].todo,
         job'[k].todo # {} => job'[k].fired_at = job[k].fired_at,
         Holding(k)' => Holding(k) /\ k # j /\ job'[k] = job[k],
         k = j => e \notin job'[k].todo
  PROVE  JobFresh(k)'
  <1>1. /\ TriggersTyped /\ JobFresh(k) /\ version' \in [Workflows -> Nat]
        /\ now' \in Nat /\ now \in Nat /\ job[k].fired_at \in Nat
        /\ UNCHANGED <<version, steps>>
    BY Numbers, JobNumbers DEF FireInv, Steady
  <1>2. ASSUME NEW f \in Held(k)' PROVE f \in Held(k) /\ (k = j => f # e)
    BY <1>2 DEF Held
  <1>3. ASSUME NEW r \in runs' \ runs, NEW f \in Held(k)'
        PROVE  /\ ~(SameStep(r, f) /\ Current(f)')
               /\ r.wf = f.wf /\ f.seen < version'[f.wf] /\ Fired(r)' =>
                    JobOf(steps'[r.wf][r.step].kind) # k
    <2>1. /\ ~(SameStep(r, f) /\ Current(f))
          /\ r.wf = f.wf /\ f.seen < version[f.wf] /\ Fired(r) =>
               JobOf(steps[r.wf][r.step].kind) # k
      BY <1>2, NewRunApart
    <2>2. f.wf \in Workflows
      BY <1>1, <1>2, HeldTyped
    <2> QED
      BY <1>1, <2>1, <2>2 DEF Steady, Current, Fired
  <1>4. ASSUME Holding(k)'
        PROVE  /\ Holding(k) /\ job'[k].cur = job[k].cur
               /\ job'[k].pc = "clear" => job[k].cur.trigger.kind \in Releases
               /\ job[k].cur.trigger.kind # "expiry" /\ job'[k].pc # "latch"
                    /\ Current(job[k].cur)'
                    => latch'[job[k].cur.wf][job[k].cur.step] = job[k].cur.occ
    <2>1. Holding(k) /\ job'[k] = job[k] /\ job[k].cur \in Held(k)
      BY <1>4 DEF Held
    <2>2. Current(job[k].cur)' => Current(job[k].cur)
      BY <1>1, <2>1, HeldTyped DEF Steady, Current
    <2> QED
      BY <1>1, <2>1, <2>2 DEF JobFresh, CurFresh
  <1> QED
    BY <1>1, <1>3, <1>4, JobKept

LEMMA RunNowFresh ==
  ASSUME FireInv, TriggersTyped', NEW wf \in Workflows, RunNow(wf)
  PROVE  Fresh'
  <1>1. /\ UNCHANGED <<now, rowVars, job>> /\ status[wf] # "deleted"
        /\ runs' = runs \cup
             {Run([wf |-> wf, seen |-> version[wf], step |-> 0, occ |-> 0], 0)}
    BY DEF RunNow
  <1>2. ASSUME NEW r \in runs' \ runs
        PROVE  r.wf = wf /\ r.seen = version[wf] /\ r.step = 0 /\ r.occ = 0
    BY <1>1, RunTyped
  <1>3. Steady /\ Rearmed /\ UNCHANGED latch /\ version \in [Workflows -> Nat] /\ now \in Nat
    BY <1>1, RowsStill, Numbers DEF rowVars, FireInv
  <1>4. Progress
    BY <1>1, <1>2, <1>3, SteadyProgress DEF FireInv, RunsAccounted
  <1>5. RunsAccounted'
    <2>1. \A r \in runs : Fired(r) => r.step \in StepsOf(r.wf) /\ Accounted(r)
      BY DEF FireInv, RunsAccounted
    <2>2. ASSUME NEW r \in runs' \ runs
          PROVE  /\ r.wf \in Workflows /\ r.seen \in Nat /\ r.occ \in Nat
                 /\ r.seen <= version[r.wf] /\ status[r.wf] # "deleted" /\ ~Fired(r)
      BY <1>1, <1>2, <1>3, <2>2 DEF Fired
    <2>3. TriggersTyped /\ RunsAccounted /\ RowsTyped'
      BY DEF FireInv, TriggersTyped
    <2>4. \A r \in runs : Fired(r) =>
            LET trigger == steps[r.wf][r.step]  key == latch'[r.wf][r.step] IN
            /\ trigger.kind \in Dated => Superseded(r.occ, key, trigger.at, now)
            /\ trigger.kind \in Single => key # None
      BY <1>3, <2>1 DEF Accounted
    <2> QED
      BY <1>3, <2>2, <2>3, <2>4, RunsKept
  <1>6. ASSUME NEW j \in Jobs PROVE JobFresh(j)'
    <2>1. /\ TriggersTyped /\ JobFresh(j) /\ job[j].fired_at \in Nat /\ job'[j] = job[j]
          /\ version' \in [Workflows -> Nat] /\ now' \in Nat
      BY <1>1, <1>3, JobNumbers DEF FireInv, rowVars
    <2>2. Held(j)' = Held(j) /\ (Holding(j)' <=> Holding(j))
      BY <2>1 DEF Held, Holding, InHand
    <2>3. \A r \in runs' \ runs : \A e \in Held(j)' : ~SameStep(r, e) /\ ~Fired(r)'
      BY <1>2, <2>1, <2>2, HeldTyped DEF SameStep, Fired
    <2>4. Holding(j) => /\ job[j].pc = "clear" => job[j].cur.trigger.kind \in Releases
                        /\ job[j].cur.trigger.kind # "expiry" /\ job[j].pc # "latch"
                             /\ Current(job[j].cur)'
                             => latch'[job[j].cur.wf][job[j].cur.step] = job[j].cur.occ
      BY <1>1, <2>1 DEF JobFresh, CurFresh, Current, rowVars
    <2> QED
      BY <1>3, <1>4, <2>1, <2>2, <2>3, <2>4, JobKept
  <1> QED
    BY <1>5, <1>6 DEF Fresh

LEMMA StartPollFresh ==
  ASSUME FireInv, TriggersTyped', StartPoll
  PROVE  Fresh'
  <1>1. "poll" \in Jobs /\ TriggersTyped /\ TriggersTyped'
    BY JobNames DEF FireInv
  <1>2. /\ \A k \in Jobs : k # "poll" => job'[k] = job[k]
        /\ job'["poll"].todo # {} => job'["poll"].fired_at = now
    BY <1>1, StartPollTyped
  <1>3. PICK live \in SUBSET {wf \in Workflows : status[wf] = "active"} :
          /\ job'["poll"].todo = DueOf(live)
          /\ \A wf \in live : status'[wf] = "active" /\ next_run'[wf] = next_run[wf]
    BY <1>1, StartPollTyped
  <1>4. UNCHANGED <<now, version, steps, latch, runs>>
    BY DEF StartPoll
  <1>5. Steady /\ Rearmed
    <2>1. \E wfs \in SUBSET Workflows :
            Deactivate(wfs) /\ \A wf \in wfs : status[wf] = "active"
      BY DEF StartPoll
    <2> QED
      BY <1>1, <1>4, <2>1, DeactivateSteady
  <1>6. Progress /\ RunsAccounted'
    BY <1>1, <1>4, <1>5, QuietRuns DEF TriggersTyped
  <1>7. ASSUME NEW j \in Jobs, j # "poll" PROVE JobFresh(j)'
    BY <1>1, <1>2, <1>4, <1>6, <1>7, QuietJob
  <1>8. ASSUME NEW e \in DueOf(live)
        PROVE  /\ e \in Entries /\ e.wf \in live /\ e.wf \in Workflows
               /\ e.step \in StepsOf(e.wf) /\ e.step # 0
               /\ e.occ = next_run[e.wf][e.step] /\ e.occ \in Nat
               /\ e.occ <= now /\ e.seen = version[e.wf] /\ e.trigger = steps[e.wf][e.step]
               /\ e = Entry(e.wf, e.step, next_run[e.wf][e.step])
               /\ e.trigger.kind \in Scheduled
    BY <1>1, DueTyped DEF OfJob, Entries
  <1>9. ~Holding("poll")'
    BY JobNames DEF Holding, InHand
  <1>10. now \in Nat /\ version \in [Workflows -> Nat]
    BY <1>1, Numbers
  <1>11. HeldKnown("poll")'
    <2>1. ASSUME NEW e \in DueOf(live) PROVE KnowsStep(e)' /\ NoneSince(e, "poll")'
      BY <1>4, <1>8, <1>10 DEF KnowsStep, NoneSince, Current, StepsOf
    <2>2. \A e, f \in DueOf(live) : e.wf = f.wf => e.seen = f.seen /\ (e.step = f.step => e = f)
      BY <1>8
    <2>3. Held("poll")' = DueOf(live)
      BY <1>3, <1>9 DEF Held
    <2> QED
      BY <1>2, <1>4, <1>9, <1>10, <2>1, <2>2, <2>3 DEF HeldKnown
  <1>12. TodoFresh("poll")'
    <2> SUFFICES ASSUME NEW e \in DueOf(live)
                 PROVE  /\ e.occ <= now
                        /\ \A r \in runs : SameStep(r, e) => r.occ # e.occ
                        /\ e.trigger.kind \notin Dated \cup Single
      BY <1>3, <1>4 DEF TodoFresh
    <2>1. e.trigger.kind \notin Dated \cup Single
      BY <1>8, JobNames DEF Dated, Single, Scheduled
    <2>2. ASSUME NEW r \in runs, SameStep(r, e) PROVE r.occ # e.occ
      <3>1. Fired(r)
        BY <1>8, <2>2 DEF SameStep, Fired
      <3>2. r.occ < next_run[r.wf][r.step] /\ r.occ \in Nat
        BY <1>8, <2>2, <3>1, TriggerAssumption DEF SameStep, FireInv, RunsAccounted, Accounted
      <3> QED
        BY <1>8, <2>2, <3>2 DEF SameStep
    <2> QED
      BY <1>8, <2>1, <2>2
  <1>13. CurFresh("poll")'
    BY <1>9 DEF CurFresh
  <1> QED
    BY <1>6, <1>7, <1>11, <1>12, <1>13 DEF Fresh, JobFresh

LEMMA FireOneFresh ==
  ASSUME FireInv, TriggersTyped', NEW e \in job["poll"].todo, FireOne(e)
  PROVE  Fresh'
  <1>1. /\ "poll" \in Jobs /\ TriggersTyped /\ TriggersTyped' /\ RowsTyped'
        /\ e \in Held("poll") /\ ~Holding("poll")'
    BY JobNames DEF FireInv, Held, Holding, InHand, TriggersTyped
  <1>2. /\ e \in Entries /\ OfJob(e, "poll")
        /\ \A k \in Jobs : k # "poll" => job'[k] = job[k]
        /\ job'["poll"].todo \subseteq job["poll"].todo \ {e}
        /\ job'["poll"].todo # {} => job'["poll"].fired_at = job["poll"].fired_at
    BY <1>1, FireOneTyped
  <1>3. \/ UNCHANGED <<status, next_run, next_run_at, runs>>
        \/ status[e.wf] = "active" /\ Deactivate({e.wf}) /\ UNCHANGED runs
        \/ /\ status[e.wf] = "active" /\ Upsert(e.wf, "active")
           /\ runs' = runs \cup {Run(e, now)}
    BY <1>1, FireOneTyped
  <1>4. UNCHANGED <<now, version, steps, latch>> /\ e.wf \in Workflows
    BY <1>2 DEF FireOne, Entries
  <1>5. Steady /\ Rearmed
    BY <1>1, <1>3, <1>4, UpsertSteady, DeactivateSteady DEF Steady, Rearmed, Status
  <1>6. CASE UNCHANGED runs
    <2>1. Progress /\ RunsAccounted'
      BY <1>1, <1>4, <1>5, <1>6, QuietRuns
    <2>2. ASSUME NEW j \in Jobs PROVE JobFresh(j)'
      BY <1>1, <1>2, <1>4, <1>6, <2>1, QuietJob
    <2> QED
      BY <2>1, <2>2 DEF Fresh
  <1>7. CASE /\ status[e.wf] = "active" /\ Upsert(e.wf, "active")
             /\ runs' = runs \cup {Run(e, now)}
    <2> PICK r : r = Run(e, now)
      OBVIOUS
    <2>1. /\ r.wf = e.wf /\ r.seen = e.seen /\ r.step = e.step /\ r.occ = e.occ
          /\ (\A q \in runs : ~SameFire(q, e)) => ~r.again
      BY RunTyped
    <2>2. /\ r.seen \in Nat /\ r.occ \in Nat /\ r.occ <= now /\ r.wf \in Workflows
          /\ KnowsStep(e) /\ now \in Nat /\ version[e.wf] \in Nat
      BY <1>1, <1>2, <1>4, <2>1, HeldTyped, Numbers
         DEF FireInv, JobFresh, HeldKnown, TodoFresh, OfJob
    <2>3. ASSUME Fired(r) PROVE r.step \in StepsOf(r.wf) /\ Accounted(r)'
      <3>1. Current(e) /\ r.step \in StepsOf(r.wf) /\ steps[r.wf][r.step] = e.trigger
        BY <1>7, <2>1, <2>2, <2>3 DEF Fired, Current, KnowsStep
      <3>2. e.trigger.kind \in Scheduled /\ e.trigger.kind \notin Dated \cup Single
        BY <1>2, JobNames DEF OfJob, Dated, Single, Scheduled
      <3>3. ~r.again
        <4>1. \A q \in runs : ~SameFire(q, e)
          BY <1>1, <3>1 DEF FireInv, JobFresh, TodoFresh, SameFire, SameStep
        <4> QED
          BY <2>1, <4>1
      <3>4. next_run'[r.wf][r.step] # None => r.occ < next_run'[r.wf][r.step]
        <4>1. next_run'[e.wf] = Armed(steps[e.wf]) /\ steps[e.wf] \in PlanRow
          BY <1>1, <1>4, <1>7 DEF Upsert, TriggersTyped, RowsTyped
        <4>2. Armed(steps[e.wf])[e.step] \in Deadline
              /\ (Armed(steps[e.wf])[e.step] # None => Armed(steps[e.wf])[e.step] > now)
          BY <2>1, <2>2, <3>1, <4>1, ArmedColumn DEF StepsOf
        <4> QED
          BY <2>1, <2>2, <4>1, <4>2 DEF Deadline
      <3> QED
        BY <1>4, <2>2, <3>1, <3>2, <3>3, <3>4 DEF Accounted
    <2>4. RunsAccounted'
      <3>1. \A q \in runs : Fired(q) => q.step \in StepsOf(q.wf) /\ Accounted(q)
        BY DEF FireInv, RunsAccounted
      <3>2. \A q \in runs' \ runs : q = r
        BY <1>7
      <3>3. r.seen <= version[r.wf] /\ status[r.wf] # "deleted"
        BY <1>7, <2>1, <2>2 DEF KnowsStep
      <3>4. RunsAccounted
        BY DEF FireInv
      <3> QED
        BY <1>1, <1>4, <1>5, <2>2, <2>3, <3>1, <3>2, <3>3, <3>4, RunsKept DEF Accounted
    <2>5. Progress
      BY <1>1, <1>4, <1>5, <1>7, <2>1, SteadyProgress DEF FireInv, RunsAccounted
    <2>6. ASSUME NEW k \in Jobs PROVE JobFresh(k)'
      <3>1. k # "poll" => (Holding(k)' <=> Holding(k))
        BY <1>2 DEF Holding, InHand
      <3> QED
        BY <1>1, <1>2, <1>4, <1>5, <1>7, <2>5, <3>1, OthersAfterRun
    <2> QED
      BY <2>4, <2>6 DEF Fresh
  <1> QED
    BY <1>3, <1>6, <1>7

\* What a watcher has in hand, spelt out.
LEMMA CurKnown ==
  ASSUME FireInv, NEW j \in Watchers, Holding(j)
  PROVE  LET e == job[j].cur IN
         /\ j \in Jobs /\ e \in Held(j) /\ e \in Entries /\ OfJob(e, j)
         /\ e.wf \in Workflows /\ e.occ \in Nat /\ e.seen \in Nat /\ version[e.wf] \in Nat
         /\ e.step # 0 /\ KnowsStep(e) /\ NoneSince(e, j) /\ JobOf(e.trigger.kind) = j
  <1> PICK e : e = job[j].cur
    OBVIOUS
  <1>1. TriggersTyped /\ j \in Jobs /\ e \in Held(j) /\ j # "poll" /\ e.occ \in Nat
    BY CurAtHand, JobNames DEF FireInv, Held, Holding
  <1>2. /\ e \in Entries /\ OfJob(e, j) /\ e.wf \in Workflows /\ e.seen \in Nat /\ e.step # 0
        /\ version[e.wf] \in Nat
    BY <1>1, HeldTyped
  <1>3. KnowsStep(e) /\ NoneSince(e, j)
    BY <1>1 DEF FireInv, JobFresh, HeldKnown
  <1> QED
    BY <1>1, <1>2, <1>3 DEF OfJob

\* A key written for an entry in hand, be it of an older version.
LEMMA KeyWritten ==
  ASSUME FireInv, TriggersTyped', NEW j \in Watchers, Holding(j), NEW e, e = job[j].cur,
         NEW key, SetLatch(e, key),
         UNCHANGED <<now, status, version, steps, next_run, runs>>
  PROVE  /\ Progress /\ RunsAccounted'
         /\ \A k \in Jobs : k # j /\ job'[k] = job[k] => JobFresh(k)'
  <1>1. /\ j \in Jobs /\ e \in Entries /\ e.wf \in Workflows /\ e.occ \in Nat
        /\ e.seen \in Nat /\ version[e.wf] \in Nat /\ KnowsStep(e) /\ NoneSince(e, j)
        /\ JobOf(e.trigger.kind) = j
    BY CurKnown
  <1>2. TriggersTyped /\ Steady /\ Rearmed /\ RowsTyped'
    BY DEF FireInv, Steady, Rearmed, TriggersTyped
  <1>3. Progress
    BY <1>2, SteadyProgress DEF FireInv, RunsAccounted
  <1>4. ASSUME NEW wf \in Workflows, NEW i \in StepsOf(wf)
        PROVE  latch'[wf][i] =
                 IF wf = e.wf /\ i = e.step /\ steps[wf][i].kind = e.trigger.kind
                 THEN key ELSE latch[wf][i]
    BY <1>1, <1>2, SetLatchFrame
  <1>5. ASSUME NEW r \in runs, Fired(r)
        PROVE  LET trigger == steps[r.wf][r.step]  moved == latch'[r.wf][r.step] IN
               /\ trigger.kind \in Dated => Superseded(r.occ, moved, trigger.at, now)
               /\ trigger.kind \in Single => moved # None
    <2>1. /\ r.wf \in Workflows /\ r.step \in StepsOf(r.wf) /\ Accounted(r)
          /\ status[r.wf] # "deleted"
      BY <1>5 DEF FireInv, RunsAccounted
    <2>2. CASE ~(r.wf = e.wf /\ r.step = e.step /\ steps[r.wf][r.step].kind = e.trigger.kind)
      BY <1>4, <2>1, <2>2 DEF Accounted
    <2>3. CASE r.wf = e.wf /\ r.step = e.step /\ steps[r.wf][r.step].kind = e.trigger.kind
      <3>1. ~(e.seen < version[e.wf])
        BY <1>1, <1>5, <2>3 DEF NoneSince
      <3>2. Current(e) /\ SameStep(r, e) /\ steps[r.wf][r.step] = e.trigger
        BY <1>1, <1>5, <2>1, <2>3, <3>1 DEF KnowsStep, Current, SameStep, Fired
      <3>3. /\ e.trigger.kind \in Dated =>
                 r.occ < e.occ /\ e.occ \in e.trigger.at /\ e.occ <= now
            /\ e.trigger.kind \notin Single
        BY <1>1, <3>2 DEF FireInv, JobFresh, CurFresh
      <3>4. e.trigger.kind \in Dated => r.occ \in e.trigger.at /\ r.occ <= now
        BY <2>1, <3>2 DEF Accounted, Superseded
      <3> QED
        BY <3>2, <3>3, <3>4 DEF Superseded
    <2> QED
      BY <2>2, <2>3
  <1>6. RunsAccounted'
    BY <1>2, <1>5, RunsKept DEF FireInv
  <1>7. ASSUME NEW k \in Jobs, k # j, job'[k] = job[k] PROVE JobFresh(k)'
    <2>1. ASSUME Holding(k), Current(job[k].cur)'
          PROVE  latch'[job[k].cur.wf][job[k].cur.step] = latch[job[k].cur.wf][job[k].cur.step]
      <3> PICK f : f = job[k].cur
        OBVIOUS
      <3>1. Current(f)
        BY <1>7, <2>1 DEF Current
      <3>2. k \in Watchers /\ f.wf \in Workflows /\ KnowsStep(f) /\ JobOf(f.trigger.kind) = k
        BY <2>1, CurKnown DEF Holding, InHand
      <3>3. f.step \in StepsOf(f.wf) /\ steps[f.wf][f.step] = f.trigger
        BY <3>1, <3>2 DEF KnowsStep
      <3> QED
        BY <1>1, <1>4, <1>7, <3>2, <3>3
    <2> QED
      BY <1>3, <1>7, <2>1, QuietJob
  <1> QED
    BY <1>3, <1>6, <1>7

LEMMA PersistFresh ==
  ASSUME FireInv, TriggersTyped', NEW j \in Watchers, PersistLatch(j)
  PROVE  Fresh'
  <1> PICK e : e = job[j].cur
    OBVIOUS
  <1>1. /\ InHand(j) /\ \A k \in Jobs : k # j => job'[k] = job[k]
        /\ job[j].pc = "latch" /\ job'[j].pc = "fire" /\ job'[j].cur = e
        /\ job'[j].todo = job[j].todo /\ job'[j].fired_at = job[j].fired_at
        /\ IF e.trigger.kind = "expiry" THEN UNCHANGED latch ELSE SetLatch(e, e.occ)
        /\ UNCHANGED <<now, status, version, steps, next_run, next_run_at, expires_at, runs,
                       crashes>>
    BY PersistLatchTyped DEF FireInv
  <1>2. Holding(j) /\ Holding(j)'
    BY <1>1 DEF Holding, InHand
  <1>3. /\ j \in Jobs /\ e \in Held(j) /\ e \in Entries /\ e.wf \in Workflows /\ KnowsStep(e)
        /\ e.occ \in Nat
    BY <1>2, CurKnown
  <1>4. Steady /\ Rearmed /\ TriggersTyped /\ RowsTyped'
    BY <1>1 DEF Steady, Rearmed, FireInv, TriggersTyped
  <1>5. /\ Progress /\ RunsAccounted'
        /\ \A k \in Jobs : k # j => JobFresh(k)'
    <2>1. CASE e.trigger.kind = "expiry"
      <3>1. Progress /\ RunsAccounted'
        BY <1>1, <1>4, <2>1, QuietRuns
      <3> QED
        BY <1>1, <2>1, <3>1, QuietJob
    <2>2. CASE e.trigger.kind # "expiry"
      BY <1>1, <1>2, <2>2, KeyWritten
    <2> QED
      BY <2>1, <2>2
  <1>6. ASSUME e.trigger.kind # "expiry", Current(e)'
        PROVE  latch'[e.wf][e.step] = e.occ
    <2>1. Current(e) /\ SetLatch(e, e.occ)
      BY <1>1, <1>6 DEF Current
    <2>2. e.step \in StepsOf(e.wf) /\ steps[e.wf][e.step] = e.trigger
      BY <1>3, <2>1 DEF KnowsStep
    <2> QED
      BY <1>3, <1>4, <2>1, <2>2, SetLatchFrame
  <1>7. JobFresh(j)'
    <2>1. /\ TriggersTyped /\ JobFresh(j) /\ version' \in [Workflows -> Nat]
          /\ now' \in Nat /\ now \in Nat /\ job[j].fired_at \in Nat
      BY <1>1, <1>3, Numbers, JobNumbers DEF FireInv
    <2>2. Current(job[j].cur)' <=> Current(e)'
      BY <1>1 DEF Current
    <2> QED
      BY <1>1, <1>2, <1>3, <1>5, <1>6, <2>1, <2>2, JobKept
  <1> QED
    BY <1>5, <1>7 DEF Fresh

LEMMA ClearFresh ==
  ASSUME FireInv, TriggersTyped', NEW j \in Watchers, ClearLatch(j)
  PROVE  Fresh'
  <1> PICK e : e = job[j].cur
    OBVIOUS
  <1>1. /\ InHand(j) /\ \A k \in Jobs : k # j => job'[k] = job[k]
        /\ job[j].pc = "clear" /\ job'[j].todo \subseteq job[j].todo /\ ~InHand(j)'
        /\ job'[j].todo # {} => job'[j].fired_at = job[j].fired_at
        /\ SetLatch(e, None)
        /\ UNCHANGED <<now, status, version, steps, next_run, next_run_at, expires_at, runs,
                       crashes>>
    BY ClearLatchTyped DEF FireInv
  <1>2. Holding(j) /\ ~Holding(j)' /\ j \in Jobs
    BY <1>1 DEF Holding, Jobs
  <1>3. /\ Progress /\ RunsAccounted'
        /\ \A k \in Jobs : k # j => JobFresh(k)'
    BY <1>1, <1>2, KeyWritten
  <1>4. JobFresh(j)'
    BY <1>1, <1>2, <1>3, QuietJob
  <1> QED
    BY <1>3, <1>4 DEF Fresh

\* A watcher that puts down what it had: nothing to report, or the last call.
LEMMA PutDownFresh ==
  ASSUME FireInv, TriggersTyped', NEW j \in Jobs, Steady, Rearmed, UNCHANGED <<runs, latch>>,
         \A k \in Jobs : k # j => job'[k] = job[k],
         job'[j].todo \subseteq job[j].todo, ~Holding(j)',
         job'[j].todo # {} => job'[j].fired_at = job[j].fired_at
  PROVE  Fresh'
  <1>1. Progress /\ RunsAccounted'
    BY QuietRuns DEF TriggersTyped
  <1>2. \A k \in Jobs : JobFresh(k)'
    BY <1>1, QuietJob
  <1> QED
    BY <1>1, <1>2 DEF Fresh

LEMMA PassOverFresh ==
  ASSUME FireInv, TriggersTyped', NEW j \in Jobs, NEW e \in job[j].todo, PassOver(j, e)
  PROVE  Fresh'
  <1>1. /\ UNCHANGED <<now, rowVars, runs>> /\ \A k \in Jobs : k # j => job'[k] = job[k]
        /\ job'[j].todo \subseteq job[j].todo /\ ~Holding(j)'
        /\ job'[j].todo # {} => job'[j].fired_at = job[j].fired_at
    BY PassOverTyped DEF FireInv, Holding
  <1> QED
    BY <1>1, RowsStill, PutDownFresh DEF rowVars

LEMMA SetExpiryFresh ==
  ASSUME FireInv, TriggersTyped', NEW j \in Watchers, SetExpiry(j)
  PROVE  Fresh'
  <1>1. /\ UNCHANGED <<now, status, version, steps, next_run, next_run_at, latch, runs>>
        /\ j \in Jobs /\ \A k \in Jobs : k # j => job'[k] = job[k]
        /\ job'[j].todo \subseteq job[j].todo /\ ~Holding(j)'
        /\ job'[j].todo # {} => job'[j].fired_at = job[j].fired_at
    BY SetExpiryTyped DEF FireInv, Holding, Jobs
  <1>2. Steady /\ Rearmed
    BY <1>1 DEF Steady, Rearmed
  <1> QED
    BY <1>1, <1>2, PutDownFresh


\* A watcher reads the steps with their keys as they are: no run of an active
\* workflow's step is unknown to its row.
LEMMA ScanFresh ==
  ASSUME FireInv, TriggersTyped', NEW j \in Watchers, Scan(j)
  PROVE  Fresh'
  <1>1. /\ UNCHANGED <<now, rowVars, runs>> /\ j \in Jobs /\ j # "poll" /\ TriggersTyped
        /\ \A k \in Jobs : k # j => job'[k] = job[k]
        /\ job'[j].todo = FoundBy(j) /\ job'[j].fired_at = now /\ ~Holding(j)'
    BY ScanTyped, JobNames DEF FireInv, Holding
  <1>2. Progress /\ RunsAccounted'
    BY <1>1, RowsStill, QuietRuns DEF rowVars, TriggersTyped
  <1>3. ASSUME NEW k \in Jobs, k # j PROVE JobFresh(k)'
    BY <1>1, <1>2, <1>3, QuietJob DEF rowVars
  <1>4. now \in Nat /\ version \in [Workflows -> Nat]
    BY <1>1, Numbers
  <1>5. ASSUME NEW e \in FoundBy(j)
        PROVE  /\ e \in Entries /\ e.wf \in Workflows /\ e.step \in StepsOf(e.wf) /\ e.step # 0
               /\ e.seen = version[e.wf] /\ e.trigger = steps[e.wf][e.step]
               /\ e.had = latch[e.wf][e.step] /\ e = Entry(e.wf, e.step, None)
    BY <1>1, FoundTyped DEF Entries
  <1>6. Held(j)' = FoundBy(j)
    BY <1>1 DEF Held
  <1>7. HeldKnown(j)'
    <2>1. ASSUME NEW e \in FoundBy(j) PROVE KnowsStep(e)' /\ NoneSince(e, j)'
      BY <1>1, <1>4, <1>5 DEF KnowsStep, NoneSince, Current, StepsOf, rowVars
    <2>2. \A e, f \in FoundBy(j) : e.wf = f.wf => e.seen = f.seen /\ (e.step = f.step => e = f)
      BY <1>5
    <2> QED
      BY <1>1, <1>4, <1>6, <2>1, <2>2 DEF HeldKnown
  <1>8. TodoFresh(j)'
    <2> SUFFICES ASSUME NEW e \in FoundBy(j), NEW r \in runs, SameStep(r, e)
                 PROVE  /\ e.trigger.kind \in Dated => Superseded(r.occ, e.had, e.trigger.at, now)
                        /\ e.trigger.kind \in Single => e.had # None
      BY <1>1 DEF TodoFresh
    <2>1. Fired(r)
      BY <1>5 DEF SameStep, Fired
    <2>2. Accounted(r)
      BY <2>1 DEF FireInv, RunsAccounted
    <2> QED
      BY <1>5, <2>2 DEF SameStep, Accounted
  <1>9. CurFresh(j)'
    BY <1>1 DEF CurFresh
  <1> QED
    BY <1>2, <1>3, <1>7, <1>8, <1>9 DEF Fresh, JobFresh

\* A match is of an occurrence later than any that has fired.
LEMMA MatchFresh ==
  ASSUME FireInv, TriggersTyped', NEW j \in Watchers, NEW e \in job[j].todo,
         NEW occ \in e.trigger.at, Match(j, e, occ)
  PROVE  Fresh'
  <1> PICK held : held = [e EXCEPT !.occ = occ]
    OBVIOUS
  <1>1. /\ UNCHANGED <<now, rowVars, runs>> /\ j \in Jobs /\ j # "poll" /\ TriggersTyped
        /\ \A k \in Jobs : k # j => job'[k] = job[k]
        /\ job'[j].todo = job[j].todo \ {e} /\ job'[j].fired_at = job[j].fired_at
        /\ InHand(j)' /\ job'[j].pc = "latch" /\ job'[j].cur = held
        /\ ~InHand(j) /\ e \in Entries /\ OfJob(e, j) /\ occ \in Nat
    <2>1. TriggersTyped /\ j \in Jobs /\ j # "poll"
      BY JobNames DEF FireInv
    <2> QED
      BY <2>1, MatchTyped
  <1>2. Progress /\ RunsAccounted'
    BY <1>1, RowsStill, QuietRuns DEF rowVars, TriggersTyped
  <1>3. ASSUME NEW k \in Jobs, k # j PROVE JobFresh(k)'
    BY <1>1, <1>2, <1>3, QuietJob DEF rowVars
  <1>4. /\ held.wf = e.wf /\ held.step = e.step /\ held.seen = e.seen
        /\ held.trigger = e.trigger /\ held.occ = occ /\ held \in Entries
    BY <1>1 DEF Entries, Deadline
  <1>5. /\ now \in Nat /\ job[j].fired_at \in Nat /\ job[j].fired_at <= now
        /\ e \in Held(j) /\ JobFresh(j) /\ Holding(j)' /\ ~Holding(j)
        /\ e.trigger.at \subseteq Nat
    BY <1>1, Numbers, JobNumbers, TriggerTyped
       DEF FireInv, JobFresh, HeldKnown, Held, Holding, Entries
  <1>6. Held(j)' = (job[j].todo \ {e}) \cup {held} /\ Held(j) = job[j].todo
    BY <1>1, <1>5 DEF Held
  <1>7. HeldKnown(j)'
    <2>1. \A f \in job[j].todo : KnowsStep(f)' /\ NoneSince(f, j)'
      BY <1>1, <1>5, <1>6
         DEF JobFresh, HeldKnown, KnowsStep, NoneSince, Current, Fired, StepsOf, rowVars
    <2>2. KnowsStep(held)' /\ NoneSince(held, j)'
      BY <1>1, <1>4, <2>1 DEF KnowsStep, NoneSince, Current, rowVars
    <2>3. \A f, g \in job[j].todo :
            f.wf = g.wf => f.seen = g.seen /\ (f.step = g.step => f = g)
      BY <1>5, <1>6 DEF JobFresh, HeldKnown
    <2>4. \A f, g \in Held(j)' : f.wf = g.wf => f.seen = g.seen /\ (f.step = g.step => f = g)
      <3>1. \A g \in job[j].todo \ {e} : held.wf = g.wf => held.seen = g.seen /\ held.step # g.step
        BY <1>4, <2>3
      <3> HIDE DEF Held
      <3> QED
        BY <1>6, <2>3, <3>1
    <2>5. held \notin job'[j].todo
      BY <1>1, <1>4, <2>3
    <2> QED
      BY <1>1, <1>5, <1>6, <2>1, <2>2, <2>4, <2>5 DEF HeldKnown
  <1>8. TodoFresh(j)'
    <2>1. job'[j].todo \subseteq job[j].todo
      BY <1>1
    <2> QED
      BY <1>1, <1>5, <2>1 DEF JobFresh, TodoFresh, Current, rowVars
  <1>9. CurFresh(j)'
    <2>1. occ \in Observed(j, e) /\ ~AlreadyFired(e, occ)
      BY DEF Match
    <2>2. /\ occ <= now
          /\ \A o \in e.trigger.at : o <= job[j].fired_at => o <= occ
      BY <1>1, <1>5, <2>1 DEF Observed
    <2>3. ASSUME Current(e), NEW r \in runs, SameStep(r, e)
          PROVE  /\ e.trigger.kind \in Dated => r.occ < occ
                 /\ e.trigger.kind \notin Single
      <3>1. /\ e.trigger.kind \in Dated =>
                 Superseded(r.occ, e.had, e.trigger.at, job[j].fired_at)
            /\ e.trigger.kind \in Single => e.had # None
        BY <1>1, <1>5, <2>3 DEF JobFresh, TodoFresh
      <3>2. e.trigger.kind \notin Single
        BY <2>1, <3>1 DEF AlreadyFired, Single
      <3>3. ASSUME e.trigger.kind \in Dated PROVE r.occ < occ
        <4>1. e.had # occ /\ Superseded(r.occ, e.had, e.trigger.at, job[j].fired_at)
          BY <2>1, <3>1, <3>3 DEF AlreadyFired, Dated
        <4>2. r.occ \in Nat /\ r.occ <= occ
          BY <1>5, <2>2, <4>1 DEF Superseded
        <4>3. CASE e.had = r.occ
          BY <1>1, <4>1, <4>2, <4>3
        <4>4. CASE \E later \in e.trigger.at : r.occ < later /\ later <= job[j].fired_at
          <5> PICK later \in e.trigger.at : r.occ < later /\ later <= job[j].fired_at
            BY <4>4
          <5>1. later \in Nat /\ later <= occ
            BY <1>5, <2>2
          <5> QED
            BY <1>1, <4>2, <5>1
        <4> QED
          BY <4>1, <4>3, <4>4 DEF Superseded
      <3> QED
        BY <3>2, <3>3
    <2>4. Current(held)' => Current(e)
      BY <1>1, <1>4 DEF Current, rowVars
    <2> QED
      BY <1>1, <1>4, <2>2, <2>3, <2>4 DEF CurFresh, SameStep
  <1> QED
    BY <1>2, <1>3, <1>7, <1>8, <1>9 DEF Fresh, JobFresh

\* A watcher fires what it has in hand: one run, a refusal, or the workflow's end.
LEMMA FireWatchFresh ==
  ASSUME FireInv, TriggersTyped', NEW j \in Watchers, FireWatch(j)
  PROVE  Fresh'
  <1> PICK e : e = job[j].cur
    OBVIOUS
  <1>1. /\ TriggersTyped /\ RowsTyped' /\ InHand(j) /\ job[j].pc = "fire"
        /\ \A k \in Jobs : k # j => job'[k] = job[k]
        /\ job'[j].todo \subseteq job[j].todo
        /\ job'[j].todo # {} => job'[j].fired_at = job[j].fired_at
        /\ InHand(j)' => job'[j].pc \in {"clear", "expire"} /\ job'[j].cur = e
        /\ job'[j].pc = "clear" => e.trigger.kind \in {"macro", "earnings"}
        /\ UNCHANGED <<now, version, steps, latch>>
        /\ \A wf \in Workflows : status[wf] # "active" => status'[wf] = status[wf]
    BY FireWatchTyped DEF FireInv
  <1>2. \/ UNCHANGED runs /\ (UNCHANGED <<status, next_run, next_run_at>> \/ Deactivate({e.wf}))
        \/ /\ status[e.wf] = "active" /\ runs' = runs \cup {Run(e, now)}
           /\ job'[j].pc # "clear" /\ UNCHANGED <<status, next_run, next_run_at>>
    BY FireWatchTyped DEF FireInv
  <1>3. Holding(j)
    BY <1>1 DEF Holding
  <1>4. /\ j \in Jobs /\ e \in Held(j) /\ e \in Entries /\ OfJob(e, j) /\ e.wf \in Workflows
        /\ e.occ \in Nat /\ e.seen \in Nat /\ version[e.wf] \in Nat /\ e.step # 0 /\ KnowsStep(e)
    BY <1>3, CurKnown
  <1>5. Steady /\ Rearmed
    <2>1. CASE UNCHANGED <<status, next_run, next_run_at>>
      BY <1>1, <2>1 DEF Steady, Rearmed
    <2>2. CASE Deactivate({e.wf})
      <3>1. status'[e.wf] = "paused"
        BY <1>4, <2>2 DEF Deactivate
      <3> QED
        BY <1>1, <1>4, <2>2, <3>1, DeactivateSteady
    <2> QED
      BY <1>2, <2>1, <2>2
  <1>6. /\ JobFresh(j) /\ version' \in [Workflows -> Nat] /\ now' \in Nat /\ now \in Nat
        /\ job[j].fired_at \in Nat
    BY <1>1, <1>4, Numbers, JobNumbers DEF FireInv
  <1>7. CASE UNCHANGED runs
    <2>1. Progress /\ RunsAccounted'
      BY <1>1, <1>5, <1>7, QuietRuns
    <2>2. ASSUME NEW k \in Jobs, k # j PROVE JobFresh(k)'
      BY <1>1, <1>7, <2>1, <2>2, QuietJob
    <2>3. ASSUME Holding(j)'
          PROVE  /\ job'[j].cur = job[j].cur
                 /\ job'[j].pc = "clear" => job[j].cur.trigger.kind \in Releases
                 /\ job[j].cur.trigger.kind # "expiry" /\ job'[j].pc # "latch"
                      /\ Current(job[j].cur)'
                      => latch'[job[j].cur.wf][job[j].cur.step] = job[j].cur.occ
      <3>1. InHand(j)' /\ job'[j].cur = e /\ e = job[j].cur
        BY <1>1, <2>3 DEF Holding
      <3>2. Current(job[j].cur)' => Current(e)
        BY <1>1, <1>4, <1>5, <3>1 DEF Steady, Current
      <3>3. e.trigger.kind # "expiry" /\ Current(e) => latch[e.wf][e.step] = e.occ
        BY <1>1, <1>3, <1>6 DEF JobFresh, CurFresh
      <3> QED
        BY <1>1, <3>1, <3>2, <3>3 DEF Releases
    <2>4. JobFresh(j)'
      BY <1>1, <1>3, <1>4, <1>6, <1>7, <2>1, <2>3, JobKept
    <2> QED
      BY <2>1, <2>2, <2>4 DEF Fresh
  <1>8. CASE /\ status[e.wf] = "active" /\ runs' = runs \cup {Run(e, now)}
             /\ job'[j].pc # "clear" /\ UNCHANGED <<status, next_run, next_run_at>>
    <2> PICK r : r = Run(e, now)
      OBVIOUS
    <2>1. /\ r.wf = e.wf /\ r.seen = e.seen /\ r.step = e.step /\ r.occ = e.occ
          /\ (\A q \in runs : ~SameFire(q, e)) => ~r.again
      BY RunTyped
    <2>2. ~Holding(j)'
      BY <1>1, <1>8 DEF Holding
    <2>3. ASSUME Fired(r) PROVE r.step \in StepsOf(r.wf) /\ Accounted(r)
      <3>1. Current(e) /\ r.step \in StepsOf(r.wf) /\ steps[r.wf][r.step] = e.trigger
        BY <1>4, <1>8, <2>1, <2>3 DEF Fired, Current, KnowsStep
      <3>2. e.trigger.kind \in Watched
        BY <1>4, JobNames DEF OfJob
      <3>3. /\ e.trigger.kind \in Dated => e.occ \in e.trigger.at /\ e.occ <= now
            /\ e.trigger.kind # "expiry" => latch[e.wf][e.step] = e.occ
            /\ \A q \in runs : SameStep(q, e) =>
                 /\ e.trigger.kind \in Dated => q.occ < e.occ
                 /\ e.trigger.kind \notin Single
        BY <1>1, <1>3, <1>6, <3>1 DEF JobFresh, CurFresh
      <3>4. e.trigger.kind # "expiry" => ~r.again
        <4>1. ASSUME e.trigger.kind # "expiry", NEW q \in runs, SameFire(q, e) PROVE FALSE
          <5>1. SameStep(q, e) /\ q.occ = e.occ
            BY <4>1 DEF SameFire, SameStep
          <5>2. e.trigger.kind \in Dated \cup Single
            BY <3>2, <4>1 DEF Watched, Dated, Single
          <5> QED
            BY <1>4, <3>3, <5>1, <5>2
        <4> QED
          BY <2>1, <4>1
      <3>5. e.trigger.kind \notin Scheduled
        BY <3>2, JobNames
      <3>6. e.trigger.kind \in Dated \cup Single =>
              e.trigger.kind # "expiry" /\ latch[e.wf][e.step] # None
        BY <1>4, <3>3, TriggerAssumption DEF Dated, Single
      <3> QED
        BY <2>1, <3>1, <3>3, <3>4, <3>5, <3>6 DEF Accounted, Superseded
    <2>4. RunsAccounted'
      <3>1. \A q \in runs : Fired(q) => q.step \in StepsOf(q.wf) /\ Accounted(q)
        BY DEF FireInv, RunsAccounted
      <3>2. \A q \in runs' \ runs : q = r
        BY <1>8
      <3>3. /\ r.wf \in Workflows /\ r.seen \in Nat /\ r.occ \in Nat
            /\ r.seen <= version[r.wf] /\ status[r.wf] # "deleted"
        BY <1>4, <1>8, <2>1 DEF KnowsStep
      <3>4. Accounted(r) => Accounted(r)'
        BY <1>1, <1>8 DEF Accounted
      <3>5. RunsAccounted
        BY DEF FireInv
      <3> QED
        BY <1>1, <1>5, <2>3, <3>1, <3>2, <3>3, <3>4, <3>5, RunsKept DEF Accounted
    <2>5. Progress
      BY <1>1, <1>4, <1>5, <1>8, <2>1, SteadyProgress DEF FireInv, RunsAccounted
    <2>6. e \notin job[j].todo
      BY <1>3, <1>6 DEF JobFresh, HeldKnown
    <2>7. ASSUME NEW k \in Jobs PROVE JobFresh(k)'
      <3>1. k # j => (Holding(k)' <=> Holding(k))
        BY <1>1 DEF Holding, InHand
      <3> QED
        BY <1>1, <1>4, <1>5, <1>8, <2>2, <2>5, <2>6, <3>1, OthersAfterRun
    <2> QED
      BY <2>4, <2>7 DEF Fresh
  <1> QED
    BY <1>2, <1>7, <1>8

LEMMA FireInit == Init => FireInv
  <1> SUFFICES ASSUME Init PROVE FireInv
    OBVIOUS
  <1>1. TriggersTyped /\ runs = {} /\ \A j \in Jobs : job[j] = Idle
    BY TypeInit DEF Init
  <1>2. \A j \in Jobs : Held(j) = {} /\ ~Holding(j) /\ job[j].todo = {}
    BY <1>1, IdleTyped DEF Held, Holding, InHand
  <1> QED
    BY <1>1, <1>2 DEF FireInv, RunsAccounted, JobFresh, HeldKnown, TodoFresh, CurFresh

LEMMA FireStep == ASSUME FireInv, Next PROVE FireInv'
  <1>1. TriggersTyped /\ TriggersTyped'
    BY TypeStep DEF FireInv
  <1> SUFFICES Fresh'
    BY <1>1 DEF FireInv, Fresh
  <1>2. ASSUME NEW wf \in Workflows,
               \/ Activate(wf) \/ Pause(wf) \/ Archive(wf) \/ Delete(wf) \/ RunNow(wf)
        PROVE  Fresh'
    <2>1. CASE Activate(wf)
      BY <1>1, <2>1, UpsertSteady, QuietStep DEF Activate, Status
    <2>2. CASE Pause(wf)
      BY <1>1, <2>2, UpsertSteady, QuietStep DEF Pause, Status
    <2>3. CASE Archive(wf)
      BY <1>1, <2>3, UpsertSteady, QuietStep DEF Archive, Status
    <2> QED
      BY <1>1, <1>2, <2>1, <2>2, <2>3, DeleteFresh, RunNowFresh
  <1>3. ASSUME NEW wf \in Workflows, NEW plan \in Plans, NEW expiry \in Expiries,
               NEW keep \in BOOLEAN, Patch(wf, plan, expiry, keep)
        PROVE  Fresh'
    BY <1>1, <1>3, PatchFresh
  <1>4. CASE UserStep
    BY <1>2, <1>3, <1>4 DEF UserStep
  <1>5. CASE PollStep
    BY <1>1, <1>5, StartPollFresh, FireOneFresh DEF PollStep
  <1>6. CASE Tick
    BY <1>1, <1>6, TickFresh
  <1>7. CASE Crash
    BY <1>1, <1>7, CrashFresh
  <1>8. ASSUME NEW j \in Watchers, WatchStep(j) PROVE Fresh'
    <2>1. j \in Jobs
      BY DEF Jobs
    <2>2. ASSUME NEW e \in job[j].todo,
                 PassOver(j, e) \/ \E occ \in e.trigger.at : Match(j, e, occ)
          PROVE  Fresh'
      BY <1>1, <2>1, <2>2, PassOverFresh, MatchFresh
    <2> QED
      BY <1>1, <1>8, <2>2, ScanFresh, PersistFresh, FireWatchFresh, ClearFresh, SetExpiryFresh
         DEF WatchStep
  <1> QED
    BY <1>4, <1>5, <1>6, <1>7, <1>8 DEF Next

LEMMA FireStutter == ASSUME FireInv, UNCHANGED vars PROVE FireInv'
  <1>1. TriggersTyped'
    BY TypeStutter DEF FireInv
  <1>2. Steady /\ Rearmed /\ UNCHANGED <<runs, latch, job>>
    BY RowsStill DEF vars, rowVars
  <1>3. Fresh'
    BY <1>1, <1>2, QuietStep
  <1> QED
    BY <1>1, <1>3 DEF FireInv, Fresh

\* A schedule's instant and a watched occurrence fire at most one run of the
\* version they were read from, through slow polls, stale copies of the config,
\* pauses, edits and crashes (_fire_one, _fire_watch_run and the order in which
\* the watchers store their keys and fire): an expiry day is the one exception.
THEOREM OncePerOccasion == Spec => []FiresOnce
  <1>1. Init => FireInv
    BY FireInit
  <1>2. FireInv /\ [Next]_vars => FireInv'
    BY FireStep, FireStutter
  <1>3. FireInv => FiresOnce
    BY FireInvMeansOnce
  <1> QED
    BY <1>1, <1>2, <1>3, PTL DEF Spec
=============================================================================
