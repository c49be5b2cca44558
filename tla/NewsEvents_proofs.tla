-------------------------- MODULE NewsEvents_proofs --------------------------
(***************************************************************************)
(* What the news events keep for any number of specs and articles, any     *)
(* batch size and any clock of the database.                               *)
(*                                                                         *)
(* The inductive invariant is built in layers, each proved from the ones   *)
(* before it: the types, the audit rows, the batch in the funnel's memory, *)
(* the runs, the evidence, and the verdicts that have been decided on.     *)
(***************************************************************************)
EXTENDS NewsEvents, FiniteSetTheorems, SequenceTheorems, TLAPS

USE NewsAssumption

-----------------------------------------------------------------------------
(* The types *)

Rows == Specs \X Articles
DraftTables == [Specs -> [Articles -> Verdicts \cup {None}]]
Memories == [Specs -> SpecStates \cup {None}]

Ticks ==
  [pc : {"idle", "judge", "signal", "handoff", "link"}, batch : Seq(Rows),
   drafts : DraftTables, mem : Memories]
Handlers ==
  [pc : {"idle", "load", "fire", "handoff", "link"}, spec : Specs \cup {None},
   mem : SpecStates \cup {None}]
Scans == [now : Nat, of : SUBSET Specs, linked : SUBSET Specs]

SpecAt(i) == tick.batch[i][1]
ArticleAt(i) == tick.batch[i][2]

\* A fire on its way to a run has left its audit row.
TablesTyped ==
  /\ TypeOK
  /\ fired \in [Specs -> FiredEvent \cup {None}]

TickTyped ==
  /\ tick \in Ticks
  /\ tick.pc = "idle" => tick = Idle
  /\ tick.pc \in {"signal", "handoff", "link"} => tick.batch # <<>>
  /\ tick.pc \in {"handoff", "link"} => fired[RowSpec] # None

HandlerTyped ==
  /\ ws \in Handlers
  /\ ws.pc # "idle" => ws.spec \in Specs
  /\ ws.pc \in {"handoff", "link"} => fired[ws.spec] # None

ScansTyped ==
  /\ scan # None => scan \in SUBSET Specs
  /\ watch # None => watch \in Scans /\ \A s \in watch.of : fired[s] # None

Types == TablesTyped /\ TickTyped /\ HandlerTyped /\ ScansTyped

LEMMA FirstRow ==
  ASSUME tick \in Ticks, tick.batch # <<>>
  PROVE  /\ 1 \in DOMAIN tick.batch
         /\ RowSpec = SpecAt(1) /\ RowSpec \in Specs
         /\ RowArticle = ArticleAt(1) /\ RowArticle \in Articles
  BY DEF Ticks, RowSpec, RowArticle, SpecAt, ArticleAt, Rows

\* A next row leaves the rest of the batch, and its spec read.
LEMMA AdvanceStep ==
  ASSUME tick \in Ticks, tick.batch # <<>>, state' \in [Specs -> SpecStates],
         NEW drafts \in DraftTables, NEW mem \in Memories,
         tick' = Advance(drafts, mem, state')
  PROVE  /\ tick' \in Ticks /\ tick'.pc = "judge" /\ tick'.drafts = drafts
         /\ tick'.batch = Tail(tick.batch)
         /\ \A s \in Specs :
              \/ tick'.mem[s] = mem[s]
              \/ /\ tick'.batch # <<>> /\ s = RowSpec'
                 /\ mem[s] = None /\ tick'.mem[s] = state'[s]
         /\ tick'.batch # <<>> => tick'.mem[RowSpec'] # None
  <1> DEFINE rest == Tail(tick.batch)
             m == IF rest = <<>> THEN mem
                  ELSE [mem EXCEPT ![Head(rest)[1]] =
                          IF mem[Head(rest)[1]] = None THEN state'[Head(rest)[1]]
                          ELSE mem[Head(rest)[1]]]
  <1>1. rest \in Seq(Rows)
    BY DEF Ticks
  <1>2. rest # <<>> => Head(rest) \in Rows /\ Head(rest)[1] \in Specs
    BY <1>1 DEF Rows
  <1>3. tick' = [pc |-> "judge", batch |-> rest, drafts |-> drafts, mem |-> m]
    BY DEF Advance
  <1> HIDE DEF rest, m
  <1>4. tick'.batch = rest /\ RowSpec' = Head(rest)[1]
    BY <1>3 DEF RowSpec
  <1> USE DEF m
  <1>5. /\ m \in Memories
        /\ \A s \in Specs :
             \/ m[s] = mem[s]
             \/ rest # <<>> /\ s = Head(rest)[1] /\ mem[s] = None /\ m[s] = state'[s]
        /\ rest # <<>> => m[Head(rest)[1]] # None
    BY <1>2 DEF Memories, SpecStates
  <1> HIDE DEF m
  <1> QED
    BY <1>1, <1>3, <1>4, <1>5 DEF Ticks, rest

LEMMA EmptyTables == NoDrafts \in DraftTables /\ Forgotten \in Memories
  BY DEF NoDrafts, DraftTables, Forgotten, Memories

LEMMA DraftedTyped ==
  ASSUME tick \in Ticks, tick.batch # <<>>, NEW v \in Verdicts
  PROVE  Drafted(RowSpec, RowArticle, v) \in DraftTables
  BY FirstRow DEF Drafted, DraftTables, Ticks

LEMMA SeenTyped ==
  ASSUME row \in [Specs -> [Articles -> RowStates]], NEW d \in DraftTables
  PROVE  Seen(d) \in [Specs -> [Articles -> RowStates]]
  BY DEF Seen, DraftTables, RowStates, Verdicts

LEMMA RecordTyped ==
  ASSUME TablesTyped, NEW s \in Specs, NEW evidence \in SUBSET Articles, Record(s, evidence)
  PROVE  /\ fired' \in [Specs -> FiredEvent \cup {None}] /\ state' \in [Specs -> SpecStates]
         /\ fired'[s] # None /\ state'[s] = "fired"
         /\ fired'[s].evidence = evidence /\ ~fired'[s].linked
         /\ \A t \in Specs \ {s} : fired'[t] = fired[t] /\ state'[t] = state[t]
  <1>1. terms[s].window \in Nat
    BY DEF TablesTyped, TypeOK, Terms
  <1> DEFINE event == [at |-> clock, ends |-> clock + terms[s].window, evidence |-> evidence,
                       linked |-> FALSE, status |-> "none", action |-> "none"]
  <1>2. event \in FiredEvent /\ event.evidence = evidence /\ ~event.linked
    BY <1>1 DEF FiredEvent, TablesTyped, TypeOK
  <1>3. fired' = [fired EXCEPT ![s] = event] /\ state' = [state EXCEPT ![s] = "fired"]
    BY DEF Record
  <1> HIDE DEF event
  <1> QED
    BY <1>2, <1>3 DEF TablesTyped, TypeOK, SpecStates

LEMMA LinkTyped ==
  ASSUME TablesTyped, NEW s \in Specs, fired[s] # None, LinkRun(s)
  PROVE  /\ fired' \in [Specs -> FiredEvent \cup {None}]
         /\ fired'[s] # None /\ fired'[s].evidence = fired[s].evidence
         /\ \A t \in Specs \ {s} : fired'[t] = fired[t]
  <1>1. fired[s] \in FiredEvent
    BY DEF TablesTyped
  <1> DEFINE event == [fired[s] EXCEPT !.linked = TRUE]
  <1>2. event \in FiredEvent /\ event.evidence = fired[s].evidence
    BY <1>1 DEF FiredEvent
  <1>3. fired' = [fired EXCEPT ![s] = event]
    BY DEF LinkRun
  <1> HIDE DEF event
  <1> QED
    BY <1>2, <1>3 DEF TablesTyped

\* The audit rows are never deleted.
FiresStay == \A s \in Specs : fired[s] # None => fired'[s] # None

LEMMA TickKept ==
  ASSUME Types, FiresStay, tick' = tick
  PROVE  TickTyped'
  <1>1. tick.batch # <<>> => RowSpec \in Specs
    BY FirstRow DEF Types, TickTyped
  <1>2. RowSpec' = RowSpec /\ tick'.batch = tick.batch /\ tick'.pc = tick.pc
    BY DEF RowSpec
  <1>3. tick.pc \in {"handoff", "link"} => fired'[RowSpec] # None
    BY <1>1 DEF Types, TickTyped, FiresStay
  <1> QED
    BY <1>2, <1>3 DEF Types, TickTyped

LEMMA HandlerKept ==
  ASSUME Types, FiresStay, ws' = ws
  PROVE  HandlerTyped'
  BY DEF Types, HandlerTyped, FiresStay

LEMMA ScansKept ==
  ASSUME Types, FiresStay, UNCHANGED <<scan, watch>>
  PROVE  ScansTyped'
  <1>1. watch # None => \A s \in watch.of : s \in Specs /\ fired[s] # None
    BY DEF Types, ScansTyped, Scans
  <1> QED
    BY <1>1 DEF Types, ScansTyped, FiresStay

LEMMA AdvanceTyped ==
  ASSUME Types, tick.batch # <<>>, state' \in [Specs -> SpecStates],
         NEW drafts \in DraftTables, NEW mem \in Memories,
         tick' = Advance(drafts, mem, state')
  PROVE  TickTyped'
  <1>1. tick' \in Ticks /\ tick'.pc = "judge"
    BY AdvanceStep DEF Types, TickTyped
  <1> QED
    BY <1>1 DEF TickTyped

LEMMA EvidenceIsYes ==
  ASSUME NEW seen, NEW s, NEW evidence \in Evidence(seen, s)
  PROVE  evidence \subseteq Judged(seen, s, "YES")
  <1>1. PrimaryYes(seen, s) \subseteq Judged(seen, s, "YES")
    BY DEF PrimaryYes
  <1>2. SecondaryYes(seen, s) \subseteq Judged(seen, s, "YES")
    BY DEF SecondaryYes
  <1>3. ASSUME NEW as, NEW n, NEW ev \in Samples(as, n)
        PROVE  ev \subseteq as
    BY DEF Samples
  <1> QED
    BY <1>1, <1>2, <1>3 DEF Evidence

\* A decision, with the rule met or not, leaves everything typed.
LEMMA DecideTyped ==
  ASSUME Types, tick.batch # <<>>, NEW drafts \in DraftTables, NEW signal,
         Decide(RowSpec, drafts, signal), UNCHANGED <<runs, approval, FunnelKeeps>>
  PROVE  TablesTyped' /\ TickTyped' /\ FiresStay
  <1>0. /\ tick \in Ticks /\ tick.mem \in Memories /\ RowSpec \in Specs
        /\ state \in [Specs -> SpecStates] /\ row \in [Specs -> [Articles -> RowStates]]
    BY FirstRow DEF Types, TickTyped, Ticks, TablesTyped, TypeOK
  <1>1. CASE tick' = Advance(drafts, tick.mem, state) /\ UNCHANGED <<state, row, fired>>
    <2>1. TickTyped'
      BY <1>0, <1>1, AdvanceTyped
    <2>2. tick' \in Ticks
      BY <2>1 DEF TickTyped
    <2> QED
      BY <1>1, <2>1, <2>2 DEF Types, TablesTyped, TypeOK, FiresStay, FunnelKeeps, Ticks,
         DraftTables, Memories, Rows
  <1>2. ASSUME NEW evidence \in Evidence(Seen(drafts), RowSpec), Record(RowSpec, evidence),
               fired[RowSpec] = None, row' = Seen(drafts),
               tick' = IF terms[RowSpec].workflow
                       THEN [tick EXCEPT !.pc = "handoff", !.drafts = NoDrafts,
                                         !.mem = [Forgotten EXCEPT ![RowSpec] = "fired"]]
                       ELSE Advance(NoDrafts, [Forgotten EXCEPT ![RowSpec] = "fired"], state')
        PROVE  TablesTyped' /\ TickTyped' /\ FiresStay
    <2>1. evidence \in SUBSET Articles
      BY EvidenceIsYes DEF Judged
    <2>2. /\ fired' \in [Specs -> FiredEvent \cup {None}] /\ state' \in [Specs -> SpecStates]
          /\ fired'[RowSpec] # None /\ FiresStay
      BY <1>0, <1>2, <2>1, RecordTyped DEF Types, FiresStay
    <2> DEFINE mem == [Forgotten EXCEPT ![RowSpec] = "fired"]
    <2>3. mem \in Memories /\ NoDrafts \in DraftTables
      BY <1>0, EmptyTables DEF Memories, SpecStates
    <2>4. ASSUME ~terms[RowSpec].workflow PROVE TickTyped'
      BY <1>2, <2>2, <2>3, <2>4, AdvanceTyped
    <2>5. ASSUME terms[RowSpec].workflow PROVE TickTyped'
      <3>1. tick' = [tick EXCEPT !.pc = "handoff", !.drafts = NoDrafts, !.mem = mem]
        BY <1>2, <2>5
      <3> HIDE DEF mem
      <3>2. tick' \in Ticks /\ tick'.pc = "handoff" /\ tick'.batch = tick.batch
        BY <1>0, <2>3, <3>1 DEF Ticks
      <3>3. RowSpec' = RowSpec
        BY <3>2 DEF RowSpec
      <3> QED
        BY <2>2, <3>2, <3>3 DEF TickTyped
    <2>6. TickTyped' /\ tick' \in Ticks
      BY <2>4, <2>5 DEF TickTyped
    <2>7. row' \in [Specs -> [Articles -> RowStates]]
      BY <1>0, <1>2, SeenTyped
    <2> QED
      BY <2>2, <2>6, <2>7 DEF Types, TablesTyped, TypeOK, FunnelKeeps, Ticks, DraftTables,
         Memories, Rows
  <1> QED
    BY <1>1, <1>2 DEF Decide

LEMMA TypesInit == Init => Types
  <1> SUFFICES ASSUME Init PROVE Types
    OBVIOUS
  <1>1. terms \in [Specs -> Terms]
    BY DEF Init
  <1>2. TablesTyped
    BY <1>1, EmptyTables DEF Init, TablesTyped, TypeOK, SpecStates, RowStates, Idle, NoFire,
       DraftTables, Memories
  <1>3. TickTyped
    BY EmptyTables DEF Init, TickTyped, Ticks, Idle, Rows
  <1> QED
    BY <1>2, <1>3 DEF Init, Types, HandlerTyped, Handlers, NoFire, ScansTyped

\* The user's requests, and whatever else touches neither the jobs nor the rows.
LEMMA RequestsTyped ==
  ASSUME Types, NEW s \in Specs, Answer(s) \/ Activate(s) \/ Cancel(s)
  PROVE  Types'
  <1>1. PICK to \in SpecStates :
          /\ state' = [state EXCEPT ![s] = to]
          /\ UNCHANGED <<clock, terms, arrived, row, fired, runs, approval, tick, feed, scan, ws,
                         watch, crashes>>
    BY DEF Answer, Activate, Cancel, Move, SpecStates
  <1>2. FiresStay
    BY <1>1 DEF FiresStay
  <1>3. TablesTyped'
    BY <1>1 DEF Types, TablesTyped, TypeOK
  <1> QED
    BY <1>1, <1>2, <1>3, TickKept, HandlerKept, ScansKept DEF Types

LEMMA ApprovalsTyped ==
  ASSUME Types, NEW s \in Specs, OpenApproval(s) \/ AnswerApproval(s)
  PROVE  Types'
  <1>1. /\ approval' \in [Specs -> {"none", "open", "approved", "rejected"}]
        /\ UNCHANGED <<fired, watch, WatchKeeps>>
    BY DEF Types, TablesTyped, TypeOK, OpenApproval, AnswerApproval
  <1>2. FiresStay /\ TablesTyped'
    BY <1>1 DEF FiresStay, Types, TablesTyped, TypeOK, WatchKeeps
  <1> QED
    BY <1>1, <1>2, TickKept, HandlerKept, ScansKept DEF Types, WatchKeeps

LEMMA IngestTyped ==
  ASSUME Types, NEW a \in Articles, Ingest(a)
  PROVE  Types'
  <1>1. arrived' \in [Articles -> Nat \cup {None}]
    BY DEF Ingest, Types, TablesTyped, TypeOK
  <1>2. row' \in [Specs -> [Articles -> RowStates]]
    <2> SUFFICES ASSUME NEW s \in Specs PROVE row'[s] \in [Articles -> RowStates]
      BY DEF Ingest
    <2> QED
      BY DEF Ingest, Types, TablesTyped, TypeOK, RowStates
  <1>3. FiresStay /\ TablesTyped'
    BY <1>1, <1>2 DEF Ingest, FiresStay, Types, TablesTyped, TypeOK
  <1> QED
    BY <1>3, TickKept, HandlerKept, ScansKept DEF Ingest, Types

\* A batch is not empty, its rows differ, and each is queued.
LEMMA LoadedBatch ==
  ASSUME Types, LoadBatch
  PROVE  /\ tick.pc = "idle"
         /\ tick' \in Ticks /\ tick'.pc = "judge" /\ tick'.drafts = NoDrafts /\ tick'.batch # <<>>
         /\ \A i, j \in DOMAIN tick'.batch : tick'.batch[i] = tick'.batch[j] => i = j
         /\ \A i \in DOMAIN tick'.batch :
              /\ tick'.batch[i] \in Queue
              /\ tick'.mem[tick'.batch[i][1]] = state[tick'.batch[i][1]]
         /\ \A s \in Specs : tick'.mem[s] = None \/ tick'.mem[s] = state[s]
  <1> DEFINE n == AtMost(BatchSize, Cardinality(Queue))
             Mem(q) == [s \in Specs |->
                          IF \E i \in DOMAIN q : q[i][1] = s THEN state[s] ELSE None]
  <1>1. Queue \subseteq Rows /\ Queue # {}
    BY DEF Queue, Rows, LoadBatch
  <1>2. IsFiniteSet(Queue)
    BY <1>1, FS_Product, FS_Subset DEF Rows
  <1>3. n \in Nat /\ n >= 1
    <2>1. Cardinality(Queue) \in Nat /\ Cardinality(Queue) # 0
      BY <1>1, <1>2, FS_CardinalityType, FS_EmptySet
    <2> QED
      BY <2>1 DEF AtMost
  <1> HIDE DEF n
  <1>4. PICK q \in [1 .. n -> Queue] :
          /\ \A i, j \in 1 .. n : i < j => q[i] # q[j]
          /\ tick' = [pc |-> "judge", batch |-> q, drafts |-> NoDrafts, mem |-> Mem(q)]
    <2>1. PICK q \in Batches :
            tick' = [pc |-> "judge", batch |-> q, drafts |-> NoDrafts, mem |-> Mem(q)]
      BY DEF LoadBatch
    <2> HIDE DEF Mem
    <2>2. q \in [1 .. n -> Queue] /\ \A i, j \in 1 .. n : i < j => q[i] # q[j]
      BY <2>1 DEF Batches, n
    <2> QED
      BY <2>1, <2>2
  <1>5. Mem(q) \in Memories
    BY DEF Types, TablesTyped, TypeOK, Memories
  <1>6. \A i \in DOMAIN q : q[i] \in Queue /\ q[i][1] \in Specs
    BY <1>1 DEF Rows
  <1>7. \A i \in DOMAIN q : Mem(q)[q[i][1]] = state[q[i][1]]
    BY <1>6
  <1>8. \A s \in Specs : Mem(q)[s] = None \/ Mem(q)[s] = state[s]
    OBVIOUS
  <1> HIDE DEF Mem
  <1>9. q \in Seq(Rows) /\ q # <<>> /\ DOMAIN q = 1 .. n
    <2>1. q \in Seq(Rows) /\ DOMAIN q = 1 .. n
      BY <1>1, <1>3
    <2>2. 1 \in DOMAIN q
      BY <1>3, <2>1
    <2>3. ASSUME q = <<>> PROVE FALSE
      <3>1. Len(q) = 0
        BY <2>3, EmptySeq
      <3>2. DOMAIN q = 1 .. Len(q)
        BY <2>1, LenProperties
      <3> QED
        BY <2>2, <3>1, <3>2
    <2> QED
      BY <2>1, <2>3
  <1>10. \A i, j \in DOMAIN q : q[i] = q[j] => i = j
    BY <1>3, <1>4, <1>9
  <1>11. tick.pc = "idle"
    BY DEF LoadBatch
  <1> QED
    BY <1>4, <1>5, <1>6, <1>7, <1>8, <1>9, <1>10, <1>11, EmptyTables DEF Ticks

\* What the funnel leaves alone is typed when what it changes is.
LEMMA FunnelKept ==
  ASSUME Types, UNCHANGED <<approval, FunnelKeeps>>, TickTyped', FiresStay,
         state' \in [Specs -> SpecStates], row' \in [Specs -> [Articles -> RowStates]],
         fired' \in [Specs -> FiredEvent \cup {None}], runs' \in [Specs -> Nat]
  PROVE  Types'
  <1>1. tick' \in Ticks
    BY DEF TickTyped
  <1>2. TablesTyped'
    BY <1>1 DEF Types, TablesTyped, TypeOK, FunnelKeeps, Ticks, DraftTables, Memories, Rows
  <1> QED
    BY <1>2, HandlerKept, ScansKept DEF Types, FunnelKeeps

\* A row that is put off, dismissed or judged without firing.
LEMMA JudgedTyped ==
  ASSUME Types, tick.batch # <<>>, NEW drafts \in DraftTables,
         tick' = Advance(drafts, tick.mem, state),
         UNCHANGED <<state, row, fired, runs, approval, FunnelKeeps>>
  PROVE  Types'
  <1>1. tick.mem \in Memories
    BY DEF Types, TickTyped, Ticks
  <1>2. TickTyped' /\ FiresStay
    BY <1>1, AdvanceTyped DEF Types, TablesTyped, TypeOK, FiresStay
  <1> QED
    BY <1>2, FunnelKept DEF Types, TablesTyped, TypeOK

LEMMA ClassifyTyped ==
  ASSUME Types, Classify
  PROVE  Types'
  <1>1. PICK v \in Says[RowArticle] :
          LET drafts == Drafted(RowSpec, RowArticle, v) IN
          IF tick.mem[RowSpec] # "active"
            THEN /\ tick' = Advance(drafts, tick.mem, state)
                 /\ UNCHANGED <<state, row, fired>>
          ELSE IF terms[RowSpec].market # "no"
            THEN /\ tick' = [tick EXCEPT !.pc = "signal", !.drafts = drafts]
                 /\ UNCHANGED <<state, row, fired>>
          ELSE Decide(RowSpec, drafts, "unknown")
    BY DEF Classify
  <1> DEFINE drafts == Drafted(RowSpec, RowArticle, v)
  <1>2. /\ tick \in Ticks /\ tick.batch # <<>> /\ UNCHANGED <<runs, approval, FunnelKeeps>>
    BY DEF Types, TickTyped, Classify, AtRow
  <1>3. drafts \in DraftTables
    BY <1>2, FirstRow, DraftedTyped
  <1> HIDE DEF drafts
  <1>4. CASE tick' = Advance(drafts, tick.mem, state) /\ UNCHANGED <<state, row, fired>>
    BY <1>2, <1>3, <1>4, JudgedTyped
  <1>5. CASE /\ tick' = [tick EXCEPT !.pc = "signal", !.drafts = drafts]
             /\ UNCHANGED <<state, row, fired>>
    <2>1. TickTyped' /\ FiresStay
      BY <1>2, <1>3, <1>5 DEF TickTyped, Ticks, FiresStay
    <2> QED
      BY <1>2, <1>5, <2>1, FunnelKept DEF Types, TablesTyped, TypeOK
  <1>6. CASE Decide(RowSpec, drafts, "unknown")
    BY <1>2, <1>3, <1>6, DecideTyped, HandlerKept, ScansKept DEF Types, FunnelKeeps
  <1> QED
    BY <1>1, <1>4, <1>5, <1>6 DEF drafts

LEMMA FunnelTyped ==
  ASSUME Types, LoadBatch \/ FunnelStep
  PROVE  Types'
  <1>0. /\ tick \in Ticks /\ tick.drafts \in DraftTables /\ tick.mem \in Memories
        /\ tick.pc \in {"signal", "handoff", "link"} => tick.batch # <<>>
    BY DEF Types, TickTyped, Ticks
  <1>1. CASE LoadBatch
    <2>1. TickTyped' /\ FiresStay
      BY <1>1, LoadedBatch DEF LoadBatch, TickTyped, FiresStay
    <2> QED
      BY <1>1, <2>1, FunnelKept DEF LoadBatch, Types, TablesTyped, TypeOK
  <1>2. CASE Postpone
    BY <1>0, <1>2, JudgedTyped DEF Postpone, AtRow
  <1>3. CASE Dismiss
    BY <1>0, <1>3, DraftedTyped, JudgedTyped DEF Dismiss, AtRow, Verdicts
  <1>4. CASE Classify
    BY <1>4, ClassifyTyped
  <1>5. CASE Signal
    BY <1>0, <1>5, DecideTyped, HandlerKept, ScansKept DEF Signal, Types, FunnelKeeps
  <1>6. CASE Handoff
    <2>1. RowSpec \in Specs /\ tick.batch # <<>>
      BY <1>0, <1>6, FirstRow DEF Handoff
    <2>2. runs' \in [Specs -> Nat] /\ FiresStay
      <3>1. runs \in [Specs -> Nat] /\ fired' = fired
        BY <1>6 DEF Handoff, Types, TablesTyped, TypeOK
      <3>2. runs' = runs \/ runs' = [runs EXCEPT ![RowSpec] = @ + 1]
        BY <1>6 DEF Handoff, StartRun
      <3> QED
        BY <2>1, <3>1, <3>2 DEF FiresStay
    <2>3. TickTyped'
      <3>1. CASE tick' = [tick EXCEPT !.pc = "link"]
        <4>1. RowSpec' = RowSpec /\ tick'.batch = tick.batch /\ tick'.pc = "link"
          BY <1>0, <3>1 DEF RowSpec, Ticks
        <4>2. tick' \in Ticks
          BY <1>0, <3>1 DEF Ticks
        <4>3. fired[RowSpec] # None /\ fired' = fired
          BY <1>6 DEF Handoff, Types, TickTyped
        <4> QED
          BY <2>1, <4>1, <4>2, <4>3 DEF TickTyped
      <3>2. CASE tick' = Advance(tick.drafts, tick.mem, state)
        BY <1>0, <1>6, <2>1, <3>2, AdvanceTyped DEF Handoff, Types, TablesTyped, TypeOK
      <3> QED
        BY <1>6, <3>1, <3>2 DEF Handoff
    <2> QED
      BY <1>6, <2>2, <2>3, FunnelKept DEF Handoff, Types, TablesTyped, TypeOK
  <1>7. CASE Link
    <2>1. RowSpec \in Specs /\ tick.batch # <<>> /\ fired[RowSpec] # None
      BY <1>0, <1>7, FirstRow DEF Link, Types, TickTyped
    <2>2. fired' \in [Specs -> FiredEvent \cup {None}] /\ FiresStay
      BY <1>7, <2>1, LinkTyped DEF Link, Types, FiresStay
    <2>3. TickTyped'
      BY <1>7, <2>1, AdvanceTyped, EmptyTables DEF Link, Types, TablesTyped, TypeOK
    <2> QED
      BY <1>7, <2>2, <2>3, FunnelKept DEF Link, Types, TablesTyped, TypeOK
  <1>8. CASE EndBatch
    <2>1. TickTyped' /\ FiresStay
      BY <1>8, EmptyTables DEF EndBatch, TickTyped, Ticks, Idle, Rows, FiresStay
    <2>2. row' \in [Specs -> [Articles -> RowStates]]
      BY <1>0, <1>8, SeenTyped DEF EndBatch, Types, TablesTyped, TypeOK
    <2> QED
      BY <1>8, <2>1, <2>2, FunnelKept DEF EndBatch, Types, TablesTyped, TypeOK
  <1> QED
    BY <1>1, <1>2, <1>3, <1>4, <1>5, <1>6, <1>7, <1>8 DEF FunnelStep

LEMMA FeedTyped ==
  ASSUME Types,
         \/ ReconcileRead \/ ReconcileApply \/ FeedLoad \/ FeedFire \/ FeedHandoff \/ FeedLink
         \/ \E s \in Specs, side \in {"under", "over"} : Price(s, side)
  PROVE  Types'
  <1> DEFINE Tables ==
        /\ state' \in [Specs -> SpecStates] /\ fired' \in [Specs -> FiredEvent \cup {None}]
        /\ runs' \in [Specs -> Nat] /\ feed' \in [Specs -> {"off", "waiting", "armed"}]
        /\ FiresStay
  <1>0. /\ state \in [Specs -> SpecStates] /\ fired \in [Specs -> FiredEvent \cup {None}]
        /\ runs \in [Specs -> Nat] /\ feed \in [Specs -> {"off", "waiting", "armed"}]
    BY DEF Types, TablesTyped, TypeOK
  <1>1. ASSUME Tables, HandlerTyped', scan' # None => scan' \in SUBSET Specs,
               UNCHANGED FeedKeeps
        PROVE  Types'
    <2>1. watch # None => \A s \in watch.of : s \in Specs
      BY DEF Types, ScansTyped, Scans
    <2>2. ScansTyped'
      BY <1>1, <2>1 DEF Types, ScansTyped, FeedKeeps, FiresStay
    <2>3. ws'.pc \in {"idle", "load", "fire", "handoff", "link"}
      BY <1>1 DEF HandlerTyped, Handlers
    <2>4. TablesTyped'
      BY <1>1, <2>3 DEF Types, TablesTyped, TypeOK, FeedKeeps
    <2>5. TickTyped'
      BY <1>1, TickKept DEF FeedKeeps
    <2> QED
      BY <1>1, <2>2, <2>4, <2>5 DEF Types
  <1>2. CASE ReconcileRead \/ ReconcileApply
    <2>1. Tables
      BY <1>0, <1>2 DEF ReconcileRead, ReconcileApply, Registration, FiresStay
    <2>2. HandlerTyped'
      BY <1>2, <2>1, HandlerKept DEF ReconcileRead, ReconcileApply
    <2>3. scan' # None => scan' \in SUBSET Specs
      BY <1>2 DEF ReconcileRead, ReconcileApply
    <2> QED
      BY <1>1, <1>2, <2>1, <2>2, <2>3 DEF ReconcileRead, ReconcileApply
  <1>3. ASSUME NEW s \in Specs, NEW side \in {"under", "over"}, Price(s, side)
        PROVE  Types'
    <2>1. Tables
      BY <1>0, <1>3 DEF Price, FiresStay
    <2>2. HandlerTyped'
      BY <1>3, <2>1, HandlerKept DEF Price, HandlerTyped, Handlers
    <2> QED
      BY <1>1, <1>3, <2>1, <2>2 DEF Price, Types, ScansTyped
  <1>4. CASE FeedLoad
    <2>1. Tables
      BY <1>0, <1>4 DEF FeedLoad, FiresStay
    <2>2. HandlerTyped'
      BY <1>0, <1>4 DEF FeedLoad, Types, HandlerTyped, Handlers
    <2> QED
      BY <1>1, <1>4, <2>1, <2>2 DEF FeedLoad, Types, ScansTyped
  <1>5. CASE FeedFire
    <2>1. ws.spec \in Specs /\ ws \in Handlers
      BY <1>5 DEF FeedFire, Types, HandlerTyped
    <2>2. CASE ws' = NoFire /\ UNCHANGED <<state, fired>>
      BY <1>0, <1>1, <1>5, <2>2 DEF FeedFire, FiresStay, HandlerTyped, Handlers, NoFire, Types,
         ScansTyped
    <2>3. CASE /\ Record(ws.spec, {})
               /\ ws' = IF terms[ws.spec].workflow
                        THEN [ws EXCEPT !.pc = "handoff", !.mem = None] ELSE NoFire
      <3>1. Tables /\ fired'[ws.spec] # None
        BY <1>0, <1>5, <2>1, <2>3, RecordTyped DEF FeedFire, FiresStay, Types
      <3>2. HandlerTyped'
        BY <2>1, <2>3, <3>1 DEF HandlerTyped, Handlers, NoFire
      <3> QED
        BY <1>1, <1>5, <3>1, <3>2 DEF FeedFire, Types, ScansTyped
    <2> QED
      BY <1>5, <2>2, <2>3 DEF FeedFire
  <1>6. CASE FeedHandoff
    <2>1. ws.spec \in Specs /\ ws \in Handlers /\ fired[ws.spec] # None
      BY <1>6 DEF FeedHandoff, Types, HandlerTyped
    <2>2. Tables
      BY <1>0, <1>6, <2>1 DEF FeedHandoff, StartRun, FiresStay
    <2>3. HandlerTyped'
      BY <1>6, <2>1 DEF FeedHandoff, HandlerTyped, Handlers, NoFire
    <2> QED
      BY <1>1, <1>6, <2>2, <2>3 DEF FeedHandoff, Types, ScansTyped
  <1>7. CASE FeedLink
    <2>1. ws.spec \in Specs /\ ws \in Handlers /\ fired[ws.spec] # None
      BY <1>7 DEF FeedLink, Types, HandlerTyped
    <2>2. Tables
      BY <1>0, <1>7, <2>1, LinkTyped DEF FeedLink, FiresStay, Types
    <2>3. HandlerTyped'
      BY <1>7, <2>1 DEF FeedLink, HandlerTyped, Handlers, NoFire
    <2> QED
      BY <1>1, <1>7, <2>2, <2>3 DEF FeedLink, Types, ScansTyped
  <1> QED
    BY <1>2, <1>3, <1>4, <1>5, <1>6, <1>7

\* The watcher marks an event as handled, and changes nothing else of it.
LEMMA WatchStep ==
  ASSUME Types, WatchRead \/ WatchHandle
  PROVE  /\ fired' \in [Specs -> FiredEvent \cup {None}]
         /\ \A s \in Specs :
              /\ fired'[s] = None <=> fired[s] = None
              /\ fired[s] # None => /\ fired'[s].evidence = fired[s].evidence
                                    /\ fired'[s].linked = fired[s].linked
         /\ approval' \in [Specs -> {"none", "open", "approved", "rejected"}]
         /\ ScansTyped' /\ UNCHANGED WatchKeeps
  <1>0. /\ fired \in [Specs -> FiredEvent \cup {None}]
        /\ approval \in [Specs -> {"none", "open", "approved", "rejected"}]
        /\ clock \in Nat
    BY DEF Types, TablesTyped, TypeOK
  <1>1. CASE WatchRead
    <2>1. Open \in SUBSET Specs /\ \A s \in Open : fired[s] # None
      BY DEF Open
    <2>2. watch' \in Scans /\ watch'.of = Open
      BY <1>0, <1>1, <2>1 DEF WatchRead, Scans
    <2> QED
      BY <1>0, <1>1, <2>1, <2>2 DEF WatchRead, WatchKeeps, Types, ScansTyped
  <1>2. CASE WatchHandle
    <2> DEFINE Handled(s) == s \in watch.of /\ Outcome(s) # "none"
    <2>1. ASSUME NEW s \in Specs
          PROVE  fired'[s] = IF Handled(s)
                   THEN [fired[s] EXCEPT !.status = "handled", !.action = Outcome(s)]
                   ELSE fired[s]
      BY <1>2 DEF WatchHandle
    <2>2. ASSUME NEW s \in Specs, Handled(s)
          PROVE  /\ fired[s] \in FiredEvent /\ fired'[s] \in FiredEvent
                 /\ fired'[s].evidence = fired[s].evidence
                 /\ fired'[s].linked = fired[s].linked
      <3>1. fired[s] \in FiredEvent
        BY <1>0, <1>2, <2>2 DEF WatchHandle, Types, ScansTyped
      <3>2. Outcome(s) \in {"none", "window_expired", "ignore", "workflow_run_missing",
                            "cancelled", "no_pending_approvals"}
        BY DEF Outcome, ActionOn
      <3>3. fired'[s] = [fired[s] EXCEPT !.status = "handled", !.action = Outcome(s)]
        BY <2>1, <2>2
      <3> QED
        BY <3>1, <3>2, <3>3 DEF FiredEvent
    <2>3. ASSUME NEW s \in Specs, ~Handled(s) PROVE fired'[s] = fired[s]
      BY <2>1, <2>3
    <2>4. DOMAIN fired' = Specs /\ fired' = [s \in Specs |-> fired'[s]]
      BY <1>2 DEF WatchHandle
    <2> HIDE DEF Handled
    <2>5. fired' \in [Specs -> FiredEvent \cup {None}]
      BY <1>0, <2>2, <2>3, <2>4
    <2> QED
      BY <1>0, <1>2, <2>2, <2>3, <2>5 DEF WatchHandle, WatchKeeps, Types, ScansTyped
  <1> QED
    BY <1>1, <1>2

LEMMA TypesNext == Types /\ [Next]_vars => Types'
  <1> SUFFICES ASSUME Types, [Next]_vars PROVE Types'
    OBVIOUS
  <1>1. CASE Pass \/ UNCHANGED vars
    <2>1. FiresStay /\ TablesTyped'
      BY <1>1 DEF Pass, vars, tables, FiresStay, Types, TablesTyped, TypeOK
    <2> QED
      BY <1>1, <2>1, TickKept, HandlerKept, ScansKept DEF Pass, vars, tables, Types
  <1>2. CASE Crash
    <2>1. TablesTyped'
      BY <1>2, EmptyTables DEF Crash, tables, Types, TablesTyped, TypeOK, Idle, NoFire,
         DraftTables, Memories
    <2>2. TickTyped'
      BY <1>2, EmptyTables DEF Crash, TickTyped, Ticks, Idle, Rows
    <2> QED
      BY <1>2, <2>1, <2>2 DEF Crash, Types, HandlerTyped, Handlers, NoFire, ScansTyped
  <1>3. CASE \E s \in Specs : Answer(s) \/ Activate(s) \/ Cancel(s)
    BY <1>3, RequestsTyped
  <1>4. CASE \E s \in Specs : OpenApproval(s) \/ AnswerApproval(s)
    BY <1>4, ApprovalsTyped
  <1>5. CASE \E a \in Articles : Ingest(a)
    BY <1>5, IngestTyped
  <1>6. CASE LoadBatch \/ FunnelStep
    BY <1>6, FunnelTyped
  <1>7. CASE \/ ReconcileRead \/ ReconcileApply \/ FeedLoad \/ FeedFire \/ FeedHandoff \/ FeedLink
             \/ \E s \in Specs, side \in {"under", "over"} : Price(s, side)
    BY <1>7, FeedTyped
  <1>8. CASE WatchRead \/ WatchHandle
    <2>1. FiresStay /\ TablesTyped' /\ ScansTyped'
      BY <1>8, WatchStep DEF FiresStay, Types, TablesTyped, TypeOK, WatchKeeps
    <2> QED
      BY <1>8, <2>1, WatchStep, TickKept, HandlerKept DEF Types, WatchKeeps
  <1> QED
    BY <1>1, <1>2, <1>3, <1>4, <1>5, <1>6, <1>7, <1>8 DEF Next

LEMMA TypesAlways == Spec => []Types
  BY TypesInit, TypesNext, PTL DEF Spec

\* The tables and what the jobs of news_events/ keep in memory stay of their
\* types, also when a session goes on with rows it has read long ago.
THEOREM NewsTyped == Spec => []TypeOK
  <1>1. Types => TypeOK
    BY DEF Types, TablesTyped
  <1> QED
    BY <1>1, TypesAlways, PTL

-----------------------------------------------------------------------------
(* The audit rows *)

\* The fires are there before and after, on the same evidence.
FiresKept ==
  \A s \in Specs :
    /\ fired'[s] = None <=> fired[s] = None
    /\ fired[s] # None => fired'[s].evidence = fired[s].evidence

\* The rule is met at the row the funnel is at, or a price has crossed.
FunnelFires(s, evidence) ==
  /\ tick.batch # <<>> /\ s = RowSpec /\ Record(s, evidence) /\ fired[s] = None
  /\ \/ Classify /\ tick.mem[s] = "active"
     \/ Signal

FeedFires(s, evidence) ==
  /\ FeedFire /\ ws.mem = "active" /\ s = ws.spec
  /\ evidence = {} /\ Record(s, evidence) /\ fired[s] = None

Handing(pc) == pc \in {"handoff", "link"}

\* The drafts a decision adds up: with the verdict on the row at hand, or, once
\* the market has answered, as they are.
DraftsAtHand(drafts) ==
  \/ AtRow /\ \E v \in Verdicts : drafts = Drafted(RowSpec, RowArticle, v)
  \/ tick.pc = "signal" /\ drafts = tick.drafts

\* A fire of the funnel, and what it leaves in the session.
Fires(drafts, signal, evidence) ==
  /\ DraftsAtHand(drafts) /\ Rule(Seen(drafts), RowSpec, signal)
  /\ evidence \in Evidence(Seen(drafts), RowSpec)
  /\ FunnelFires(RowSpec, evidence) /\ row' = Seen(drafts)
  /\ tick' = IF terms[RowSpec].workflow
             THEN [tick EXCEPT !.pc = "handoff", !.drafts = NoDrafts,
                               !.mem = [Forgotten EXCEPT ![RowSpec] = "fired"]]
             ELSE Advance(NoDrafts, [Forgotten EXCEPT ![RowSpec] = "fired"], state')

\* A verdict fires the spec of its row or changes no table.
LEMMA VerdictSteps ==
  ASSUME Types, Classify \/ Signal
  PROVE  /\ tick.batch # <<>>
         /\ \/ UNCHANGED <<state, row, fired>> /\ ~Handing(tick'.pc)
            \/ \E drafts \in DraftTables, signal \in {"over", "under", "unknown"},
                  evidence \in SUBSET Articles : Fires(drafts, signal, evidence)
  <1>0. /\ tick \in Ticks /\ tick.drafts \in DraftTables
        /\ tick.pc = "signal" => tick.batch # <<>>
        /\ \A drafts, mem, current : tick' = Advance(drafts, mem, current) => ~Handing(tick'.pc)
    BY DEF Types, TickTyped, Ticks, Advance, Handing
  <1>1. tick.batch # <<>>
    BY <1>0 DEF Classify, Signal, AtRow
  <1>2. ASSUME NEW drafts \in DraftTables, NEW signal \in {"over", "under", "unknown"},
               DraftsAtHand(drafts), Decide(RowSpec, drafts, signal),
               \/ Classify /\ tick.mem[RowSpec] = "active"
               \/ Signal
        PROVE  \/ UNCHANGED <<state, row, fired>> /\ ~Handing(tick'.pc)
               \/ \E evidence \in SUBSET Articles : Fires(drafts, signal, evidence)
    <2>1. CASE tick' = Advance(drafts, tick.mem, state) /\ UNCHANGED <<state, row, fired>>
      BY <1>0, <2>1
    <2>2. ASSUME NEW evidence \in Evidence(Seen(drafts), RowSpec), Record(RowSpec, evidence),
                 Rule(Seen(drafts), RowSpec, signal), fired[RowSpec] = None, row' = Seen(drafts),
                 tick' = IF terms[RowSpec].workflow
                         THEN [tick EXCEPT !.pc = "handoff", !.drafts = NoDrafts,
                                           !.mem = [Forgotten EXCEPT ![RowSpec] = "fired"]]
                         ELSE Advance(NoDrafts, [Forgotten EXCEPT ![RowSpec] = "fired"], state')
          PROVE  evidence \in SUBSET Articles /\ Fires(drafts, signal, evidence)
      <3>1. evidence \in SUBSET Articles
        BY EvidenceIsYes DEF Judged
      <3> QED
        BY <1>1, <1>2, <2>2, <3>1 DEF Fires, FunnelFires
    <2> QED
      BY <1>2, <2>1, <2>2 DEF Decide
  <1>3. ASSUME Classify
        PROVE  \/ UNCHANGED <<state, row, fired>> /\ ~Handing(tick'.pc)
               \/ \E drafts \in DraftTables, signal \in {"over", "under", "unknown"},
                     evidence \in SUBSET Articles : Fires(drafts, signal, evidence)
    <2>1. PICK v \in Says[RowArticle] :
            LET drafts == Drafted(RowSpec, RowArticle, v) IN
            IF tick.mem[RowSpec] # "active"
              THEN /\ tick' = Advance(drafts, tick.mem, state)
                   /\ UNCHANGED <<state, row, fired>>
            ELSE IF terms[RowSpec].market # "no"
              THEN /\ tick' = [tick EXCEPT !.pc = "signal", !.drafts = drafts]
                   /\ UNCHANGED <<state, row, fired>>
            ELSE Decide(RowSpec, drafts, "unknown")
      BY <1>3 DEF Classify
    <2> DEFINE drafts == Drafted(RowSpec, RowArticle, v)
    <2>2. v \in Verdicts /\ AtRow
      BY <1>0, <1>1, <1>3, FirstRow DEF Classify
    <2>3. drafts \in DraftTables /\ DraftsAtHand(drafts)
      BY <1>0, <1>1, <2>2, DraftedTyped DEF DraftsAtHand
    <2> HIDE DEF drafts
    <2>4. CASE /\ tick' = [tick EXCEPT !.pc = "signal", !.drafts = drafts]
               /\ UNCHANGED <<state, row, fired>>
      BY <1>0, <2>4 DEF Ticks, Handing
    <2>5. CASE tick' = Advance(drafts, tick.mem, state) /\ UNCHANGED <<state, row, fired>>
      BY <1>0, <2>5
    <2>6. CASE Decide(RowSpec, drafts, "unknown") /\ tick.mem[RowSpec] = "active"
      BY <1>2, <1>3, <2>3, <2>6
    <2> QED
      BY <2>1, <2>4, <2>5, <2>6 DEF drafts
  <1>4. CASE Signal
    <2>1. PICK signal \in {"over", "under", "unknown"} : Decide(RowSpec, tick.drafts, signal)
      BY <1>4 DEF Signal
    <2>2. DraftsAtHand(tick.drafts)
      BY <1>4 DEF Signal, DraftsAtHand
    <2> QED
      BY <1>0, <1>1, <1>2, <1>4, <2>1, <2>2
  <1> QED
    BY <1>1, <1>3, <1>4

\* A spec's state is changed by its user or by a fire, and by nothing else.
LEMMA StateSteps ==
  ASSUME Types, [Next]_vars
  PROVE  \/ \E s \in Specs : Answer(s) \/ Activate(s) \/ Cancel(s)
         \/ \E s \in Specs, evidence \in SUBSET Articles :
              FunnelFires(s, evidence) \/ FeedFires(s, evidence)
         \/ UNCHANGED state /\ FiresKept
  <1> DEFINE Goal ==
        \/ \E s \in Specs : Answer(s) \/ Activate(s) \/ Cancel(s)
        \/ \E s \in Specs, evidence \in SUBSET Articles :
             FunnelFires(s, evidence) \/ FeedFires(s, evidence)
        \/ UNCHANGED state /\ FiresKept
  <1>0. tick \in Ticks /\ (tick.pc \in {"signal", "handoff", "link"} => tick.batch # <<>>)
    BY DEF Types, TickTyped
  <1>1. ASSUME UNCHANGED <<state, fired>> PROVE Goal
    BY <1>1 DEF FiresKept
  <1>2. CASE Classify \/ Signal
    <2>1. CASE UNCHANGED <<state, row, fired>>
      BY <1>1, <2>1
    <2>2. ASSUME NEW drafts \in DraftTables, NEW signal, NEW evidence \in SUBSET Articles,
                 Fires(drafts, signal, evidence)
          PROVE  Goal
      <3>1. RowSpec \in Specs
        BY <1>0, <1>2, FirstRow, VerdictSteps
      <3> QED
        BY <2>2, <3>1 DEF Fires
    <2> QED
      BY <1>2, <2>1, <2>2, VerdictSteps
  <1>3. CASE Link
    <2>1. RowSpec \in Specs /\ fired[RowSpec] # None
      BY <1>0, <1>3, FirstRow DEF Link, Types, TickTyped
    <2> QED
      BY <1>3, <2>1, LinkTyped DEF Link, Types, FiresKept
  <1>4. CASE FeedLink
    <2>1. ws.spec \in Specs /\ fired[ws.spec] # None
      BY <1>4 DEF FeedLink, Types, HandlerTyped
    <2> QED
      BY <1>4, <2>1, LinkTyped DEF FeedLink, Types, FiresKept
  <1>5. CASE FeedFire
    <2>1. ws.spec \in Specs
      BY <1>5 DEF FeedFire, Types, HandlerTyped
    <2>2. CASE ws.mem = "active" /\ fired[ws.spec] = None
      <3>1. FeedFires(ws.spec, {})
        BY <1>5, <2>2 DEF FeedFire, FeedFires
      <3> QED
        BY <2>1, <3>1
    <2> QED
      BY <1>1, <1>5, <2>2 DEF FeedFire
  <1>6. CASE WatchRead \/ WatchHandle
    BY <1>6, WatchStep DEF FiresKept, WatchKeeps
  <1>7. CASE \/ Pass \/ Crash \/ UNCHANGED vars
             \/ \E s \in Specs : OpenApproval(s) \/ AnswerApproval(s)
             \/ \E a \in Articles : Ingest(a)
             \/ LoadBatch \/ Postpone \/ Dismiss \/ Handoff \/ EndBatch
             \/ ReconcileRead \/ ReconcileApply \/ FeedLoad \/ FeedHandoff
             \/ \E s \in Specs, side \in {"under", "over"} : Price(s, side)
    <2>1. UNCHANGED <<state, fired>>
      BY <1>7 DEF Pass, Crash, vars, tables, OpenApproval, AnswerApproval, WatchKeeps, Ingest,
         LoadBatch, Postpone, Dismiss, Handoff, EndBatch, ReconcileRead, ReconcileApply, FeedLoad,
         FeedHandoff, Price
    <2> QED
      BY <1>1, <2>1
  <1>8. CASE \E s \in Specs : Answer(s) \/ Activate(s) \/ Cancel(s)
    BY <1>8
  <1> HIDE DEF Goal
  <1> QED
    BY <1>2, <1>3, <1>4, <1>5, <1>6, <1>7, <1>8 DEF Next, FunnelStep

LEMMA AuditNext ==
  ASSUME Types, AuditMatchesState, [Next]_vars
  PROVE  AuditMatchesState'
  <1>1. CASE \E s \in Specs : Answer(s) \/ Activate(s) \/ Cancel(s)
    BY <1>1 DEF Answer, Activate, Cancel, Move, AuditMatchesState, Types, TablesTyped, TypeOK
  <1>2. ASSUME NEW s \in Specs, NEW evidence \in SUBSET Articles,
               FunnelFires(s, evidence) \/ FeedFires(s, evidence)
        PROVE  AuditMatchesState'
    BY <1>2, RecordTyped DEF FunnelFires, FeedFires, Types, AuditMatchesState
  <1>3. CASE UNCHANGED state /\ FiresKept
    BY <1>3 DEF FiresKept, AuditMatchesState
  <1> QED
    BY <1>1, <1>2, <1>3, StateSteps

Audited == Types /\ AuditMatchesState

LEMMA AuditedAlways == Spec => []Audited
  <1>1. Init => AuditMatchesState
    BY DEF Init, AuditMatchesState
  <1> QED
    BY <1>1, TypesAlways, AuditNext, PTL DEF Spec, Audited

\* Whoever reaches it first, the funnel or the price feed, and whatever a user
\* asks for meanwhile, the state of a spec says "fired" exactly when fire_spec
\* has left its audit row: nothing takes a fired spec back.
THEOREM StateFollowsAudit == Spec => []AuditMatchesState
  <1>1. Audited => AuditMatchesState
    BY DEF Audited
  <1> QED
    BY <1>1, AuditedAlways, PTL

-----------------------------------------------------------------------------
(* The batch in the funnel's memory *)

Closed == {"cancelled", "fired"}

\* The rows still to come are different rows of the queue without a draft.
RowsDiffer == \A i, j \in DOMAIN tick.batch : tick.batch[i] = tick.batch[j] => i = j

RowsToCome ==
  \A i \in DOMAIN tick.batch : (i > 1 \/ tick.pc = "judge") =>
    /\ row[SpecAt(i)][ArticleAt(i)] = "pending"
    /\ tick.drafts[SpecAt(i)][ArticleAt(i)] = None

\* The specs of a batch were active once; a spec the session remembers as
\* closed is closed.
BatchSpecs == \A i \in DOMAIN tick.batch : state[SpecAt(i)] \in Closed \cup {"active"}

MemoryKnown ==
  \A s \in Specs :
    /\ tick.mem[s] \in Closed \cup {"active", None}
    /\ tick.mem[s] \in Closed => state[s] \in Closed

RowRead ==
  /\ tick.pc = "judge" /\ tick.batch # <<>> => tick.mem[RowSpec] # None
  /\ tick.pc = "signal" => tick.mem[RowSpec] = "active"
  /\ tick.pc \in {"handoff", "link"} => tick.drafts = NoDrafts

BatchInv == RowsDiffer /\ RowsToCome /\ BatchSpecs /\ MemoryKnown /\ RowRead

\* Rows come with articles, to specs that have been active; drafts are of rows
\* still in the queue.
RowsArrived ==
  \A s \in Specs, a \in Articles :
    /\ arrived[a] = None => row[s][a] = "none"
    /\ state[s] \in {"pending_disambiguation", "draft"} => row[s][a] = "none"

DraftsPending(drafts) ==
  \A s \in Specs, a \in Articles : drafts[s][a] # None => row[s][a] = "pending"

Queued == Audited /\ BatchInv /\ RowsArrived /\ DraftsPending(tick.drafts)

\* A closed spec stays closed, and none goes back to its draft.
StatesAdvance ==
  \A s \in Specs :
    /\ state[s] \in Closed => state'[s] \in Closed
    /\ state[s] = "active" => state'[s] \in Closed \cup {"active"}
    /\ state'[s] \in {"pending_disambiguation", "draft"} =>
         state[s] \in {"pending_disambiguation", "draft"}

LEMMA StatesOnlyAdvance ==
  ASSUME Types, [Next]_vars
  PROVE  StatesAdvance
  <1>1. CASE \E s \in Specs : Answer(s) \/ Activate(s) \/ Cancel(s)
    BY <1>1 DEF Answer, Activate, Cancel, Move, StatesAdvance, Closed, Types, TablesTyped, TypeOK
  <1>2. ASSUME NEW s \in Specs, NEW evidence \in SUBSET Articles,
               FunnelFires(s, evidence) \/ FeedFires(s, evidence)
        PROVE  StatesAdvance
    BY <1>2, RecordTyped DEF FunnelFires, FeedFires, Types, StatesAdvance, Closed
  <1>3. CASE UNCHANGED state
    BY <1>3 DEF StatesAdvance
  <1> QED
    BY <1>1, <1>2, <1>3, StateSteps

LEMMA BatchRows ==
  ASSUME tick \in Ticks, NEW i \in DOMAIN tick.batch
  PROVE  /\ SpecAt(i) \in Specs /\ ArticleAt(i) \in Articles
         /\ tick.batch[i] = <<SpecAt(i), ArticleAt(i)>> /\ i \in Nat /\ i >= 1
         /\ tick.batch # <<>>
  <1>1. tick.batch[i] \in Rows /\ DOMAIN tick.batch = 1 .. Len(tick.batch)
    BY DEF Ticks
  <1>2. tick.batch # <<>>
    <2>1. SUFFICES ASSUME tick.batch = <<>> PROVE FALSE
      OBVIOUS
    <2> QED
      BY <1>1, <2>1, EmptySeq
  <1> QED
    BY <1>1, <1>2 DEF Rows, SpecAt, ArticleAt

\* A step that leaves the batch alone, the rest only adding rows to the queue.
LEMMA BatchKept ==
  ASSUME Types, BatchInv, StatesAdvance, tick' = tick,
         \A s \in Specs, a \in Articles : row[s][a] = "pending" => row'[s][a] = "pending"
  PROVE  BatchInv'
  <1>0. /\ tick \in Ticks
        /\ tick.batch # <<>> => RowSpec \in Specs
        /\ tick'.batch = tick.batch /\ tick'.pc = tick.pc /\ tick'.mem = tick.mem
        /\ tick'.drafts = tick.drafts /\ RowSpec' = RowSpec
    BY FirstRow DEF Types, TickTyped, RowSpec
  <1>1. \A i \in DOMAIN tick.batch :
          /\ SpecAt(i)' = SpecAt(i) /\ ArticleAt(i)' = ArticleAt(i)
          /\ SpecAt(i) \in Specs /\ ArticleAt(i) \in Articles
    BY <1>0, BatchRows DEF SpecAt, ArticleAt
  <1>2. RowsDiffer'
    BY <1>0 DEF BatchInv, RowsDiffer
  <1>3. RowsToCome'
    BY <1>0, <1>1 DEF BatchInv, RowsToCome
  <1>4. BatchSpecs'
    BY <1>0, <1>1 DEF BatchInv, BatchSpecs, StatesAdvance
  <1>5. MemoryKnown'
    BY <1>0 DEF BatchInv, MemoryKnown, StatesAdvance
  <1>6. RowRead'
    BY <1>0 DEF BatchInv, RowRead
  <1> QED
    BY <1>2, <1>3, <1>4, <1>5, <1>6 DEF BatchInv

\* The next row of the batch, whatever is in the session then.
LEMMA BatchAdvance ==
  ASSUME Types, BatchInv, StatesAdvance, state' \in [Specs -> SpecStates],
         tick.batch # <<>>, NEW drafts \in DraftTables, NEW mem \in Memories,
         tick' = Advance(drafts, mem, state'),
         \A i \in DOMAIN tick.batch : i > 1 =>
           /\ row'[SpecAt(i)][ArticleAt(i)] = "pending"
           /\ drafts[SpecAt(i)][ArticleAt(i)] = None,
         \A s \in Specs : /\ mem[s] \in Closed \cup {"active", None}
                          /\ mem[s] \in Closed => state'[s] \in Closed
  PROVE  BatchInv'
  <1>0. tick \in Ticks
    BY DEF Types, TickTyped
  <1>1. /\ tick' \in Ticks /\ tick'.pc = "judge" /\ tick'.drafts = drafts
        /\ tick'.batch = Tail(tick.batch)
        /\ \A s \in Specs :
             \/ tick'.mem[s] = mem[s]
             \/ /\ tick'.batch # <<>> /\ s = RowSpec'
                /\ mem[s] = None /\ tick'.mem[s] = state'[s]
        /\ tick'.batch # <<>> => tick'.mem[RowSpec'] # None
    BY <1>0, AdvanceStep
  <1>2. \A i \in DOMAIN tick'.batch :
          /\ i \in Nat /\ i >= 1 /\ i + 1 \in DOMAIN tick.batch
          /\ tick'.batch[i] = tick.batch[i + 1]
          /\ SpecAt(i)' = SpecAt(i + 1) /\ ArticleAt(i)' = ArticleAt(i + 1)
    <2>1. /\ tick.batch \in Seq(Rows) /\ DOMAIN tick.batch = 1 .. Len(tick.batch)
          /\ Len(tick.batch) \in Nat
      BY <1>0 DEF Ticks
    <2>2. /\ tick'.batch \in Seq(Rows) /\ DOMAIN tick'.batch = 1 .. (Len(tick.batch) - 1)
          /\ \A i \in 1 .. (Len(tick.batch) - 1) : tick'.batch[i] = tick.batch[i + 1]
      BY <1>1, <2>1, HeadTailProperties, LenProperties
    <2>3. ASSUME NEW i \in DOMAIN tick'.batch
          PROVE  /\ i \in Nat /\ i >= 1 /\ i + 1 \in DOMAIN tick.batch
                 /\ tick'.batch[i] = tick.batch[i + 1]
      BY <2>1, <2>2
    <2> QED
      BY <2>3 DEF SpecAt, ArticleAt
  <1>3. RowsDiffer'
    BY <1>2 DEF BatchInv, RowsDiffer
  <1>4. RowsToCome'
    BY <1>1, <1>2 DEF RowsToCome
  <1>5. \A i \in DOMAIN tick.batch :
          SpecAt(i) \in Specs /\ state'[SpecAt(i)] \in Closed \cup {"active"}
    BY <1>0, BatchRows DEF BatchInv, BatchSpecs, StatesAdvance
  <1>6. BatchSpecs'
    BY <1>2, <1>5 DEF BatchSpecs
  <1>7. MemoryKnown'
    <2>1. ASSUME tick'.batch # <<>>
          PROVE  state'[RowSpec'] \in Closed \cup {"active"}
      <3>1. tick'.batch \in Seq(Rows)
        BY <1>1 DEF Ticks
      <3>2. 1 \in DOMAIN tick'.batch /\ RowSpec' = SpecAt(1)'
        BY <2>1, <3>1 DEF RowSpec, SpecAt
      <3> QED
        BY <1>6, <3>2 DEF BatchSpecs
    <2> QED
      BY <1>1, <2>1 DEF MemoryKnown
  <1>8. RowRead'
    BY <1>1 DEF RowRead
  <1> QED
    BY <1>3, <1>4, <1>6, <1>7, <1>8 DEF BatchInv

LEMMA RowsKept ==
  ASSUME RowsArrived, StatesAdvance, UNCHANGED <<arrived, row>>
  PROVE  RowsArrived'
  BY DEF RowsArrived, StatesAdvance

LEMMA RowsSaved ==
  ASSUME RowsArrived, StatesAdvance, NEW drafts, DraftsPending(drafts),
         row' = Seen(drafts), UNCHANGED arrived
  PROVE  RowsArrived'
  <1>1. \A s \in Specs, a \in Articles : row[s][a] = "none" => row'[s][a] = "none"
    BY DEF Seen, DraftsPending
  <1> QED
    BY <1>1 DEF RowsArrived, StatesAdvance

LEMMA NothingDrafted ==
  /\ \A s \in Specs, a \in Articles : NoDrafts[s][a] = None
  /\ \A s \in Specs : Forgotten[s] = None
  /\ DraftsPending(NoDrafts) /\ DraftsPending(NoDrafts)'
  BY DEF NoDrafts, Forgotten, DraftsPending

\* The verdict on the row at hand is a draft of a queued row, and no other row
\* of the batch has one.
LEMMA DraftedRow ==
  ASSUME Queued, AtRow, NEW v \in Verdicts
  PROVE  LET drafts == Drafted(RowSpec, RowArticle, v) IN
         /\ drafts \in DraftTables /\ DraftsPending(drafts)
         /\ \A i \in DOMAIN tick.batch : i > 1 => drafts[SpecAt(i)][ArticleAt(i)] = None
  <1> DEFINE drafts == Drafted(RowSpec, RowArticle, v)
  <1>0. tick \in Ticks /\ tick.batch # <<>> /\ tick.pc = "judge"
    BY DEF Queued, Audited, Types, TickTyped, AtRow
  <1>1. /\ 1 \in DOMAIN tick.batch /\ RowSpec = SpecAt(1) /\ RowArticle = ArticleAt(1)
        /\ RowSpec \in Specs /\ RowArticle \in Articles
    BY <1>0, FirstRow
  <1>2. drafts \in DraftTables /\ tick.drafts \in DraftTables
    BY <1>0, DraftedTyped DEF Ticks
  <1>3. \A s \in Specs, a \in Articles :
          drafts[s][a] = IF s = RowSpec /\ a = RowArticle THEN v ELSE tick.drafts[s][a]
    BY <1>1, <1>2 DEF Drafted, DraftTables
  <1> HIDE DEF drafts
  <1>4. row[RowSpec][RowArticle] = "pending"
    BY <1>0, <1>1 DEF Queued, BatchInv, RowsToCome
  <1>5. DraftsPending(drafts)
    BY <1>3, <1>4 DEF Queued, DraftsPending
  <1>6. ASSUME NEW i \in DOMAIN tick.batch, i > 1
        PROVE  drafts[SpecAt(i)][ArticleAt(i)] = None
    <2>1. SpecAt(i) # RowSpec \/ ArticleAt(i) # RowArticle
      BY <1>0, <1>1, <1>6, BatchRows DEF Queued, BatchInv, RowsDiffer
    <2> QED
      BY <1>0, <1>3, <1>6, <2>1, BatchRows DEF Queued, BatchInv, RowsToCome
  <1> QED
    BY <1>2, <1>5, <1>6 DEF drafts

\* The session's memory when the next row is reached without a commit.
LEMMA MemoryKept ==
  ASSUME Queued, StatesAdvance
  PROVE  \A s \in Specs : /\ tick.mem[s] \in Closed \cup {"active", None}
                          /\ tick.mem[s] \in Closed => state'[s] \in Closed
  BY DEF Queued, BatchInv, MemoryKnown, StatesAdvance

LEMMA DecideQueued ==
  ASSUME Queued, Types', StatesAdvance, tick.batch # <<>>, NEW drafts \in DraftTables,
         DraftsPending(drafts), UNCHANGED FunnelKeeps, NEW signal,
         \A i \in DOMAIN tick.batch : i > 1 => drafts[SpecAt(i)][ArticleAt(i)] = None,
         Decide(RowSpec, drafts, signal)
  PROVE  BatchInv' /\ RowsArrived' /\ DraftsPending(tick.drafts)'
  <1>0. /\ Types /\ BatchInv /\ RowsArrived /\ tick \in Ticks /\ tick.mem \in Memories
        /\ state' \in [Specs -> SpecStates] /\ RowSpec \in Specs /\ UNCHANGED arrived
    BY FirstRow DEF Queued, Audited, Types, TickTyped, Ticks, TablesTyped, TypeOK, FunnelKeeps
  <1>1. \A i \in DOMAIN tick.batch : i > 1 => row[SpecAt(i)][ArticleAt(i)] = "pending"
    BY <1>0 DEF BatchInv, RowsToCome
  <1>2. CASE tick' = Advance(drafts, tick.mem, state) /\ UNCHANGED <<state, row, fired>>
    <2>1. tick' = Advance(drafts, tick.mem, state') /\ row' = row /\ tick'.drafts = drafts
      BY <1>0, <1>2, AdvanceStep
    <2>2. BatchInv'
      BY <1>0, <1>1, <2>1, MemoryKept, BatchAdvance
    <2>3. RowsArrived'
      BY <1>0, <2>1, RowsKept
    <2> QED
      BY <2>1, <2>2, <2>3 DEF DraftsPending
  <1>3. ASSUME NEW evidence, Record(RowSpec, evidence), row' = Seen(drafts),
               tick' = IF terms[RowSpec].workflow
                       THEN [tick EXCEPT !.pc = "handoff", !.drafts = NoDrafts,
                                         !.mem = [Forgotten EXCEPT ![RowSpec] = "fired"]]
                       ELSE Advance(NoDrafts, [Forgotten EXCEPT ![RowSpec] = "fired"], state')
        PROVE  BatchInv' /\ RowsArrived' /\ DraftsPending(tick.drafts)'
    <2> DEFINE mem == [Forgotten EXCEPT ![RowSpec] = "fired"]
    <2>1. state'[RowSpec] = "fired"
      BY <1>0, <1>3 DEF Record, Types, TablesTyped, TypeOK
    <2>2. /\ mem \in Memories
          /\ \A s \in Specs : mem[s] = IF s = RowSpec THEN "fired" ELSE None
      BY <1>0, EmptyTables, NothingDrafted DEF Memories, SpecStates
    <2>3. \A s \in Specs : /\ mem[s] \in Closed \cup {"active", None}
                           /\ mem[s] \in Closed => state'[s] \in Closed
      BY <2>1, <2>2 DEF Closed, SpecStates
    <2>4. \A i \in DOMAIN tick.batch : i > 1 =>
            /\ row'[SpecAt(i)][ArticleAt(i)] = "pending"
            /\ NoDrafts[SpecAt(i)][ArticleAt(i)] = None
      BY <1>0, <1>1, <1>3, BatchRows, NothingDrafted DEF Seen
    <2>5. RowsArrived'
      BY <1>0, <1>3, RowsSaved
    <2> HIDE DEF mem
    <2>6. ASSUME tick' = Advance(NoDrafts, mem, state')
          PROVE  BatchInv' /\ tick'.drafts = NoDrafts
      BY <1>0, <2>2, <2>3, <2>4, <2>6, EmptyTables, BatchAdvance, AdvanceStep
    <2>7. ASSUME tick' = [tick EXCEPT !.pc = "handoff", !.drafts = NoDrafts, !.mem = mem]
          PROVE  BatchInv' /\ tick'.drafts = NoDrafts
      <3>1. /\ tick'.pc = "handoff" /\ tick'.batch = tick.batch /\ tick'.drafts = NoDrafts
            /\ tick'.mem = mem
        BY <1>0, <2>7 DEF Ticks
      <3>2. \A i \in DOMAIN tick.batch :
              /\ SpecAt(i)' = SpecAt(i) /\ ArticleAt(i)' = ArticleAt(i) /\ SpecAt(i) \in Specs
        BY <1>0, <3>1, BatchRows DEF SpecAt, ArticleAt
      <3>3. RowsDiffer' /\ RowRead'
        BY <1>0, <3>1 DEF BatchInv, RowsDiffer, RowRead
      <3>4. RowsToCome'
        BY <2>4, <3>1, <3>2 DEF RowsToCome
      <3>5. BatchSpecs'
        BY <1>0, <3>1, <3>2 DEF BatchInv, BatchSpecs, StatesAdvance
      <3>6. MemoryKnown'
        BY <2>3, <3>1 DEF MemoryKnown
      <3> QED
        BY <3>1, <3>3, <3>4, <3>5, <3>6 DEF BatchInv
    <2>8. BatchInv' /\ tick'.drafts = NoDrafts
      BY <1>3, <2>6, <2>7 DEF mem
    <2> QED
      BY <2>5, <2>8, NothingDrafted DEF DraftsPending
  <1> QED
    BY <1>2, <1>3 DEF Decide

\* A batch begins with rows of the queue, and with nothing drafted.
LEMMA LoadQueued ==
  ASSUME Queued, Types', LoadBatch
  PROVE  BatchInv' /\ RowsArrived' /\ DraftsPending(tick.drafts)'
  <1>0. Types /\ UNCHANGED <<state, row, arrived>>
    BY DEF Queued, Audited, LoadBatch, FunnelKeeps
  <1>1. /\ tick' \in Ticks /\ tick'.pc = "judge" /\ tick'.drafts = NoDrafts /\ tick'.batch # <<>>
        /\ \A i, j \in DOMAIN tick'.batch : tick'.batch[i] = tick'.batch[j] => i = j
        /\ \A i \in DOMAIN tick'.batch :
             /\ tick'.batch[i] \in Queue
             /\ tick'.mem[tick'.batch[i][1]] = state[tick'.batch[i][1]]
        /\ \A s \in Specs : tick'.mem[s] = None \/ tick'.mem[s] = state[s]
    BY <1>0, LoadedBatch
  <1>2. \A i \in DOMAIN tick'.batch :
          /\ SpecAt(i)' \in Specs /\ ArticleAt(i)' \in Articles
          /\ row[SpecAt(i)'][ArticleAt(i)'] = "pending" /\ state[SpecAt(i)'] = "active"
          /\ tick'.mem[SpecAt(i)'] = state[SpecAt(i)']
    BY <1>1 DEF SpecAt, ArticleAt, Queue
  <1>3. RowsDiffer'
    BY <1>1 DEF RowsDiffer
  <1>4. RowsToCome'
    BY <1>0, <1>1, <1>2, NothingDrafted DEF RowsToCome
  <1>5. BatchSpecs'
    BY <1>0, <1>2 DEF BatchSpecs
  <1>6. ASSUME NEW s \in Specs, tick'.mem[s] # None
        PROVE  tick'.mem[s] = "active"
    <2>1. PICK q \in Batches : tick' = [pc |-> "judge", batch |-> q, drafts |-> NoDrafts,
            mem |-> [t \in Specs |-> IF \E i \in DOMAIN q : q[i][1] = t THEN state[t] ELSE None]]
      BY DEF LoadBatch
    <2>2. /\ tick'.batch = q
          /\ tick'.mem[s] = IF \E i \in DOMAIN q : q[i][1] = s THEN state[s] ELSE None
      BY <2>1
    <2>3. PICK i \in DOMAIN tick'.batch : SpecAt(i)' = s
      BY <1>6, <2>2 DEF SpecAt
    <2> QED
      BY <1>2, <2>3
  <1>7. MemoryKnown'
    BY <1>6 DEF MemoryKnown, Closed, SpecStates
  <1>8. RowRead'
    <2>1. 1 \in DOMAIN tick'.batch /\ RowSpec' = SpecAt(1)'
      BY <1>1 DEF Ticks, RowSpec, SpecAt
    <2> QED
      BY <1>1, <1>2, <2>1 DEF RowRead, SpecStates
  <1>9. StatesAdvance
    BY <1>0 DEF StatesAdvance
  <1>10. RowsArrived'
    BY <1>0, <1>9, RowsKept DEF Queued
  <1> QED
    BY <1>1, <1>3, <1>4, <1>5, <1>7, <1>8, <1>10, NothingDrafted DEF BatchInv, DraftsPending

\* A row that is passed over, dismissed or judged; the table is as it was.
LEMMA JudgedQueued ==
  ASSUME Queued, Types', StatesAdvance, tick.batch # <<>>, UNCHANGED <<arrived, row>>,
         NEW drafts \in DraftTables, DraftsPending(drafts),
         NEW mem \in Memories,
         \A s \in Specs : /\ mem[s] \in Closed \cup {"active", None}
                          /\ mem[s] \in Closed => state'[s] \in Closed,
         \A i \in DOMAIN tick.batch : i > 1 => drafts[SpecAt(i)][ArticleAt(i)] = None,
         tick' = Advance(drafts, mem, state')
  PROVE  BatchInv' /\ RowsArrived' /\ DraftsPending(tick.drafts)'
  <1>1. Types /\ BatchInv /\ RowsArrived /\ tick \in Ticks /\ state' \in [Specs -> SpecStates]
    BY DEF Queued, Audited, Types, TickTyped, TablesTyped, TypeOK
  <1>2. \A i \in DOMAIN tick.batch : i > 1 => row'[SpecAt(i)][ArticleAt(i)] = "pending"
    BY <1>1 DEF BatchInv, RowsToCome
  <1>3. BatchInv' /\ tick'.drafts = drafts
    BY <1>1, <1>2, BatchAdvance, AdvanceStep
  <1> QED
    BY <1>1, <1>3, RowsKept DEF DraftsPending

LEMMA FunnelQueued ==
  ASSUME Queued, Types', StatesAdvance, FunnelStep
  PROVE  BatchInv' /\ RowsArrived' /\ DraftsPending(tick.drafts)'
  <1>0. /\ Types /\ BatchInv /\ RowsArrived /\ DraftsPending(tick.drafts)
        /\ tick \in Ticks /\ tick.drafts \in DraftTables /\ tick.mem \in Memories
        /\ tick.pc \in {"signal", "handoff", "link"} => tick.batch # <<>>
        /\ UNCHANGED FunnelKeeps
    BY DEF Queued, Audited, Types, TickTyped, Ticks, FunnelStep, Postpone, Dismiss, Classify,
       Signal, Handoff, Link, EndBatch
  <1>1. \A i \in DOMAIN tick.batch : i > 1 => tick.drafts[SpecAt(i)][ArticleAt(i)] = None
    BY <1>0 DEF BatchInv, RowsToCome
  <1>2. CASE Postpone
    BY <1>0, <1>1, <1>2, MemoryKept, JudgedQueued DEF Postpone, AtRow, FunnelKeeps
  <1>3. CASE Dismiss
    <2>1. AtRow /\ "UNRELATED" \in Verdicts
      BY <1>3 DEF Dismiss, Verdicts
    <2> DEFINE drafts == Drafted(RowSpec, RowArticle, "UNRELATED")
    <2>2. /\ drafts \in DraftTables /\ DraftsPending(drafts)
          /\ \A i \in DOMAIN tick.batch : i > 1 => drafts[SpecAt(i)][ArticleAt(i)] = None
      BY <2>1, DraftedRow
    <2>3. tick' = Advance(drafts, tick.mem, state') /\ tick.batch # <<>>
      BY <1>3 DEF Dismiss, AtRow
    <2> HIDE DEF drafts
    <2> QED
      BY <1>0, <1>3, <2>2, <2>3, MemoryKept, JudgedQueued DEF Dismiss, FunnelKeeps
  <1>4. ASSUME Classify PROVE BatchInv' /\ RowsArrived' /\ DraftsPending(tick.drafts)'
    <2>0. AtRow /\ tick.batch # <<>> /\ tick.pc = "judge"
      BY <1>4 DEF Classify, AtRow
    <2>1. PICK v \in Says[RowArticle] :
            LET drafts == Drafted(RowSpec, RowArticle, v) IN
            IF tick.mem[RowSpec] # "active"
              THEN /\ tick' = Advance(drafts, tick.mem, state)
                   /\ UNCHANGED <<state, row, fired>>
            ELSE IF terms[RowSpec].market # "no"
              THEN /\ tick' = [tick EXCEPT !.pc = "signal", !.drafts = drafts]
                   /\ UNCHANGED <<state, row, fired>>
            ELSE Decide(RowSpec, drafts, "unknown")
      BY <1>4 DEF Classify
    <2> DEFINE drafts == Drafted(RowSpec, RowArticle, v)
    <2>2. v \in Verdicts
      BY <1>0, <2>0, FirstRow
    <2>3. /\ drafts \in DraftTables /\ DraftsPending(drafts)
          /\ \A i \in DOMAIN tick.batch : i > 1 => drafts[SpecAt(i)][ArticleAt(i)] = None
      BY <2>0, <2>2, DraftedRow
    <2> HIDE DEF drafts
    <2>4. CASE tick' = Advance(drafts, tick.mem, state) /\ UNCHANGED <<state, row, fired>>
      BY <1>0, <2>0, <2>3, <2>4, MemoryKept, JudgedQueued DEF FunnelKeeps
    <2>5. CASE /\ tick' = [tick EXCEPT !.pc = "signal", !.drafts = drafts]
               /\ tick.mem[RowSpec] = "active"
               /\ UNCHANGED <<state, row, fired>>
      <3>1. /\ tick'.pc = "signal" /\ tick'.batch = tick.batch /\ tick'.drafts = drafts
            /\ tick'.mem = tick.mem /\ RowSpec' = RowSpec
        BY <1>0, <2>5 DEF Ticks, RowSpec
      <3>2. \A i \in DOMAIN tick.batch :
              /\ SpecAt(i)' = SpecAt(i) /\ ArticleAt(i)' = ArticleAt(i) /\ SpecAt(i) \in Specs
        BY <1>0, <3>1, BatchRows DEF SpecAt, ArticleAt
      <3>3. RowsDiffer' /\ RowRead' /\ MemoryKnown'
        BY <1>0, <2>5, <3>1 DEF BatchInv, RowsDiffer, RowRead, MemoryKnown
      <3>4. RowsToCome'
        BY <1>0, <2>3, <2>5, <3>1, <3>2 DEF BatchInv, RowsToCome
      <3>5. BatchSpecs'
        BY <1>0, <2>5, <3>1, <3>2 DEF BatchInv, BatchSpecs
      <3>6. RowsArrived'
        BY <1>0, <2>5, RowsKept DEF FunnelKeeps
      <3> QED
        BY <2>3, <2>5, <3>1, <3>3, <3>4, <3>5, <3>6 DEF BatchInv, DraftsPending
    <2>6. CASE Decide(RowSpec, drafts, "unknown")
      BY <1>0, <2>0, <2>3, <2>6, DecideQueued
    <2> QED
      BY <2>1, <2>4, <2>5, <2>6 DEF drafts
  <1>5. CASE Signal
    BY <1>0, <1>1, <1>5, DecideQueued DEF Signal
  <1>6. ASSUME Handoff PROVE BatchInv' /\ RowsArrived' /\ DraftsPending(tick.drafts)'
    <2>0. tick.batch # <<>> /\ UNCHANGED <<row, arrived, state>> /\ tick.pc = "handoff"
      BY <1>0, <1>6 DEF Handoff, FunnelKeeps
    <2>1. CASE tick' = [tick EXCEPT !.pc = "link"]
      <3>1. /\ tick'.pc = "link" /\ tick'.batch = tick.batch /\ tick'.drafts = tick.drafts
            /\ tick'.mem = tick.mem
        BY <1>0, <2>1 DEF Ticks
      <3>2. \A i \in DOMAIN tick.batch :
              /\ SpecAt(i)' = SpecAt(i) /\ ArticleAt(i)' = ArticleAt(i) /\ SpecAt(i) \in Specs
        BY <1>0, <3>1, BatchRows DEF SpecAt, ArticleAt
      <3>3. RowsDiffer' /\ RowRead' /\ MemoryKnown'
        BY <1>0, <2>0, <3>1 DEF BatchInv, RowsDiffer, RowRead, MemoryKnown
      <3>4. RowsToCome' /\ BatchSpecs'
        BY <1>0, <2>0, <3>1, <3>2 DEF BatchInv, RowsToCome, BatchSpecs
      <3> QED
        BY <1>0, <2>0, <3>1, <3>3, <3>4, RowsKept DEF BatchInv, DraftsPending
    <2>2. CASE tick' = Advance(tick.drafts, tick.mem, state)
      BY <1>0, <1>1, <2>0, <2>2, MemoryKept, JudgedQueued
    <2> QED
      BY <1>6, <2>1, <2>2 DEF Handoff
  <1>7. CASE Link
    <2>1. \A i \in DOMAIN tick.batch : i > 1 => NoDrafts[SpecAt(i)][ArticleAt(i)] = None
      BY <1>0, BatchRows, NothingDrafted
    <2>2. \A s \in Specs : /\ Forgotten[s] \in Closed \cup {"active", None}
                           /\ Forgotten[s] \in Closed => state'[s] \in Closed
      BY NothingDrafted DEF Closed, SpecStates
    <2>3. tick.batch # <<>> /\ tick' = Advance(NoDrafts, Forgotten, state')
      BY <1>0, <1>7 DEF Link
    <2> QED
      BY <1>0, <1>7, <2>1, <2>2, <2>3, EmptyTables, NothingDrafted, JudgedQueued
         DEF Link, FunnelKeeps
  <1>8. CASE EndBatch
    <2>1. RowsArrived'
      BY <1>0, <1>8, RowsSaved DEF EndBatch, FunnelKeeps
    <2>2. /\ tick'.pc = "idle" /\ tick'.batch = <<>> /\ tick'.drafts = NoDrafts
          /\ tick'.mem = Forgotten
      BY <1>8 DEF EndBatch, Idle
    <2>3. BatchInv'
      BY <2>2, NothingDrafted DEF BatchInv, RowsDiffer, RowsToCome, BatchSpecs, MemoryKnown,
         RowRead, Closed, SpecStates
    <2> QED
      BY <2>1, <2>2, <2>3, NothingDrafted DEF DraftsPending
  <1> QED
    BY <1>2, <1>3, <1>4, <1>5, <1>6, <1>7, <1>8 DEF FunnelStep

LEMMA QueuedNext ==
  ASSUME Queued, Audited', [Next]_vars
  PROVE  Queued'
  <1>0. /\ Types /\ Types' /\ StatesAdvance /\ BatchInv /\ RowsArrived
        /\ DraftsPending(tick.drafts)
    BY StatesOnlyAdvance DEF Queued, Audited
  <1>1. ASSUME tick' = tick, UNCHANGED <<arrived, row>> PROVE Queued'
    <2>1. BatchInv' /\ RowsArrived'
      BY <1>0, <1>1, BatchKept, RowsKept
    <2> QED
      BY <1>0, <1>1, <2>1 DEF Queued, DraftsPending
  <1>2. ASSUME NEW a \in Articles, Ingest(a) PROVE Queued'
    <2>0. row \in [Specs -> [Articles -> RowStates]] /\ tick' = tick /\ UNCHANGED state
      BY <1>0, <1>2 DEF Ingest, Types, TablesTyped, TypeOK
    <2>1. ASSUME NEW s \in Specs, NEW b \in Articles
          PROVE  /\ row'[s][b] = row[s][b]
                    \/ (b = a /\ state[s] = "active" /\ row'[s][b] = "pending")
                 /\ arrived'[b] = None => arrived[b] = None /\ b # a
      BY <1>0, <1>2, <2>0 DEF Ingest, Passes, Types, TablesTyped, TypeOK
    <2>2. \A s \in Specs, b \in Articles : row[s][b] = "pending" => row'[s][b] = "pending"
      BY <2>1
    <2>3. BatchInv'
      BY <1>0, <2>0, <2>2, BatchKept
    <2>4. RowsArrived'
      BY <1>0, <2>0, <2>1 DEF RowsArrived
    <2> QED
      BY <1>0, <2>0, <2>2, <2>3, <2>4 DEF Queued, DraftsPending
  <1>3. CASE LoadBatch
    BY <1>3, LoadQueued, <1>0 DEF Queued
  <1>4. CASE FunnelStep
    BY <1>0, <1>4, FunnelQueued DEF Queued
  <1>5. CASE Crash
    <2>1. /\ tick'.pc = "idle" /\ tick'.batch = <<>> /\ tick'.drafts = NoDrafts
          /\ tick'.mem = Forgotten
      BY <1>5 DEF Crash, Idle
    <2>2. BatchInv'
      BY <2>1, NothingDrafted DEF BatchInv, RowsDiffer, RowsToCome, BatchSpecs, MemoryKnown,
         RowRead, Closed, SpecStates
    <2>3. RowsArrived'
      BY <1>0, <1>5, RowsKept DEF Crash, tables
    <2> QED
      BY <2>1, <2>2, <2>3, NothingDrafted DEF Queued, DraftsPending
  <1>6. CASE \/ Pass \/ UNCHANGED vars
             \/ \E s \in Specs : \/ Answer(s) \/ Activate(s) \/ Cancel(s)
                                 \/ OpenApproval(s) \/ AnswerApproval(s)
    BY <1>1, <1>6 DEF Pass, vars, tables, Answer, Activate, Cancel, Move, OpenApproval,
       AnswerApproval, WatchKeeps
  <1>7. CASE \/ ReconcileRead \/ ReconcileApply \/ FeedLoad \/ FeedFire \/ FeedHandoff \/ FeedLink
             \/ \E s \in Specs, side \in {"under", "over"} : Price(s, side)
    BY <1>1, <1>7 DEF ReconcileRead, ReconcileApply, FeedLoad, FeedFire, FeedHandoff, FeedLink,
       Price, FeedKeeps
  <1>8. CASE WatchRead \/ WatchHandle
    BY <1>0, <1>1, <1>8, WatchStep DEF WatchKeeps
  <1> QED
    BY <1>2, <1>3, <1>4, <1>5, <1>6, <1>7, <1>8 DEF Next

LEMMA QueuedAlways == Spec => []Queued
  <1>1. Init => BatchInv /\ RowsArrived /\ DraftsPending(tick.drafts)
    BY NothingDrafted DEF Init, Idle, BatchInv, RowsDiffer, RowsToCome, BatchSpecs, MemoryKnown,
       RowRead, RowsArrived, DraftsPending, Closed, SpecStates
  <1>2. Queued /\ Audited' /\ [Next]_vars => Queued'
    BY QueuedNext
  <1> QED
    BY <1>1, <1>2, AuditedAlways, PTL DEF Spec, Queued

\* A request to cancel is lost only to a fire on its way: the funnel, or the
\* handler of the price feed, had read the spec while it was still active.
THEOREM CancelYieldsOnlyToFires == Spec => CancelLostOnlyInFlight
  <1>1. ASSUME Queued, [Next]_vars
        PROVE  [\A s \in Specs : (state[s] = "cancelled" /\ state'[s] = "fired") =>
                  \/ tick.pc # "idle" /\ tick.mem[s] = "active"
                  \/ ws.spec = s /\ ws.mem = "active"]_vars
    <2> SUFFICES ASSUME NEW s \in Specs, state[s] = "cancelled", state'[s] = "fired"
                 PROVE  \/ tick.pc # "idle" /\ tick.mem[s] = "active"
                        \/ ws.spec = s /\ ws.mem = "active"
      OBVIOUS
    <2>0. Types
      BY <1>1 DEF Queued, Audited
    <2>1. CASE \E t \in Specs : Answer(t) \/ Activate(t) \/ Cancel(t)
      BY <2>0, <2>1 DEF Answer, Activate, Cancel, Move, Types, TablesTyped, TypeOK
    <2>2. ASSUME NEW t \in Specs, NEW evidence \in SUBSET Articles, FunnelFires(t, evidence)
          PROVE  tick.pc # "idle" /\ tick.mem[s] = "active"
      <3>1. t = s /\ s = RowSpec
        BY <2>0, <2>2, RecordTyped DEF FunnelFires, Types
      <3> QED
        BY <1>1, <2>2, <3>1 DEF FunnelFires, Classify, AtRow, Signal, Queued, BatchInv, RowRead
    <2>3. ASSUME NEW t \in Specs, NEW evidence \in SUBSET Articles, FeedFires(t, evidence)
          PROVE  ws.spec = s /\ ws.mem = "active"
      BY <2>0, <2>3, RecordTyped DEF FeedFires, Types
    <2> QED
      BY <1>1, <2>0, <2>1, <2>2, <2>3, StateSteps
  <1> QED
    BY <1>1, QueuedAlways, PTL DEF Spec, CancelLostOnlyInFlight

-----------------------------------------------------------------------------
(* The runs *)

\* A fire that is being handed over has started no run yet; one that is about
\* to be linked has started its run.
Starts(pc, s) ==
  /\ pc = "handoff" => fired[s] # None /\ runs[s] = 0
  /\ pc = "link" => fired[s] # None /\ runs[s] = 1

Started ==
  /\ RunsAreAudited
  /\ Handing(tick.pc) => Starts(tick.pc, RowSpec)
  /\ Handing(ws.pc) => Starts(ws.pc, ws.spec)
  /\ Handing(tick.pc) /\ Handing(ws.pc) => ws.spec # RowSpec

\* Links of a run are made only where there is one.
LinksKept ==
  /\ FiresStay
  /\ \A s \in Specs : fired'[s] # None /\ fired'[s].linked =>
       runs[s] = 1 \/ (fired[s] # None /\ fired[s].linked)

LEMMA RunsKept ==
  ASSUME Started, LinksKept, runs' = runs
  PROVE  RunsAreAudited'
  BY DEF Started, RunsAreAudited, LinksKept, FiresStay

LEMMA RunStarts ==
  ASSUME Types, RunsAreAudited, NEW s \in Specs, fired[s] # None, runs[s] = 0, StartRun(s),
         fired' = fired
  PROVE  /\ RunsAreAudited' /\ runs'[s] = 1
         /\ \A t \in Specs \ {s} : runs'[t] = runs[t]
  BY DEF Types, TablesTyped, TypeOK, RunsAreAudited, StartRun

\* The funnel's fire at hand, when what the price feed does leaves it alone.
LEMMA TickStartsKept ==
  ASSUME Types, Started, FiresStay, tick' = tick,
         \A s \in Specs : runs'[s] = runs[s] \/ (Handing(ws.pc) /\ s = ws.spec)
  PROVE  Handing(tick'.pc) => Starts(tick.pc, RowSpec)' /\ RowSpec' = RowSpec /\ RowSpec \in Specs
  <1>1. Handing(tick.pc) => RowSpec \in Specs
    BY FirstRow DEF Handing, Types, TickTyped
  <1>2. RowSpec' = RowSpec
    BY DEF RowSpec
  <1> QED
    BY <1>1, <1>2 DEF Started, Starts, FiresStay, Handing

LEMMA HandlerStartsKept ==
  ASSUME Types, Started, FiresStay, ws' = ws,
         \A s \in Specs : runs'[s] = runs[s] \/ (Handing(tick.pc) /\ s = RowSpec)
  PROVE  Handing(ws'.pc) => Starts(ws.pc, ws.spec)' /\ ws.spec \in Specs
  <1>1. Handing(ws.pc) => ws.spec \in Specs
    BY DEF Handing, Types, HandlerTyped
  <1> QED
    BY <1>1 DEF Started, Starts, FiresStay, Handing

\* A fire, whether it goes on to a run or not, leaves no run behind.
LEMMA FiresStart ==
  ASSUME Types, Started, NEW s \in Specs, NEW evidence \in SUBSET Articles,
         fired[s] = None, Record(s, evidence), runs' = runs
  PROVE  LinksKept /\ fired'[s] # None /\ runs'[s] = 0
  <1>1. /\ fired'[s] # None /\ ~fired'[s].linked
        /\ \A t \in Specs \ {s} : fired'[t] = fired[t]
    BY RecordTyped DEF Types
  <1>2. runs[s] = 0
    BY DEF Started, RunsAreAudited, Types, TablesTyped, TypeOK
  <1>3. LinksKept
    BY <1>1 DEF LinksKept, FiresStay
  <1> QED
    BY <1>1, <1>2, <1>3

LEMMA FunnelStarts ==
  ASSUME Types, Types', Started, LoadBatch \/ FunnelStep
  PROVE  Started'
  <1>0. /\ tick \in Ticks /\ ws' = ws
        /\ \A drafts, mem, current : tick' = Advance(drafts, mem, current) => ~Handing(tick'.pc)
    <2>1. UNCHANGED FunnelKeeps
      BY DEF LoadBatch, FunnelStep, Postpone, Dismiss, Classify, Signal, Handoff, Link, EndBatch
    <2> QED
      BY <2>1 DEF Types, TickTyped, FunnelKeeps, Advance, Handing
  <1>1. ASSUME LinksKept, runs' = runs, ~Handing(tick'.pc)
        PROVE  Started'
    BY <1>0, <1>1, RunsKept, HandlerStartsKept DEF LinksKept, Started
  <1>2. ASSUME fired' = fired, runs' = runs, ~Handing(tick'.pc)
        PROVE  Started'
    BY <1>1, <1>2 DEF LinksKept, FiresStay
  <1>3. ASSUME Classify \/ Signal, NEW drafts \in DraftTables, NEW signal,
               NEW evidence \in SUBSET Articles, Fires(drafts, signal, evidence)
        PROVE  Started'
    <2>1. /\ RowSpec \in Specs /\ fired[RowSpec] = None /\ Record(RowSpec, evidence)
          /\ runs' = runs
      BY <1>0, <1>3, FirstRow DEF Fires, FunnelFires, Classify, Signal
    <2>2. LinksKept /\ fired'[RowSpec] # None /\ runs'[RowSpec] = 0
      BY <2>1, FiresStart
    <2>3. Handing(ws'.pc) => Starts(ws.pc, ws.spec)' /\ ws.spec # RowSpec
      BY <1>0, <2>1, <2>2, HandlerStartsKept DEF LinksKept, Types, HandlerTyped, Handing
    <2>4. CASE ~terms[RowSpec].workflow
      BY <1>0, <1>1, <1>3, <2>1, <2>2, <2>4 DEF Fires
    <2>5. CASE terms[RowSpec].workflow
      <3>1. tick' = [tick EXCEPT !.pc = "handoff", !.drafts = NoDrafts,
                                 !.mem = [Forgotten EXCEPT ![RowSpec] = "fired"]]
        BY <1>3, <2>5 DEF Fires
      <3>2. tick'.pc = "handoff" /\ tick'.batch = tick.batch
        BY <1>0, <3>1 DEF Ticks
      <3>3. Starts(tick.pc, RowSpec)' /\ RowSpec' = RowSpec
        BY <2>2, <3>2 DEF Starts, RowSpec
      <3> QED
        BY <1>0, <2>1, <2>2, <2>3, <3>3, RunsKept DEF Started
    <2> QED
      BY <2>4, <2>5
  <1>4. CASE Classify \/ Signal
    BY <1>2, <1>3, <1>4, VerdictSteps DEF Classify, Signal
  <1>5. ASSUME Handoff, StartRun(RowSpec), tick' = [tick EXCEPT !.pc = "link"]
        PROVE  Started'
    <2>1. /\ tick.pc = "handoff" /\ fired' = fired /\ RowSpec \in Specs /\ fired[RowSpec] # None
          /\ runs[RowSpec] = 0
      BY <1>0, <1>5, FirstRow DEF Handoff, Started, Starts, Handing, Types, TickTyped
    <2>2. tick'.pc = "link" /\ tick'.batch = tick.batch /\ RowSpec' = RowSpec
      BY <1>0, <1>5 DEF Ticks, RowSpec
    <2>3. /\ RunsAreAudited' /\ runs'[RowSpec] = 1
          /\ \A t \in Specs \ {RowSpec} : runs'[t] = runs[t]
      BY <1>5, <2>1, RunStarts DEF Started
    <2>4. Handing(ws'.pc) => Starts(ws.pc, ws.spec)'
      BY <1>0, <2>1, <2>3, HandlerStartsKept DEF FiresStay, Handing
    <2> QED
      BY <1>0, <2>1, <2>2, <2>3, <2>4 DEF Started, Starts, Handing
  <1>6. CASE Handoff
    BY <1>0, <1>2, <1>5, <1>6 DEF Handoff
  <1>7. CASE Link
    <2>1. RowSpec \in Specs /\ fired[RowSpec] # None /\ runs[RowSpec] = 1 /\ ~Handing(tick'.pc)
      BY <1>0, <1>7, FirstRow DEF Link, Started, Starts, Handing, Types, TickTyped
    <2>2. /\ fired'[RowSpec] # None
          /\ \A t \in Specs \ {RowSpec} : fired'[t] = fired[t]
      BY <1>7, <2>1, LinkTyped DEF Link, Types
    <2>3. LinksKept
      BY <2>1, <2>2 DEF LinksKept, FiresStay
    <2> QED
      BY <1>1, <1>7, <2>1, <2>3 DEF Link
  <1>8. CASE LoadBatch \/ Postpone \/ Dismiss \/ EndBatch
    <2>1. fired' = fired /\ runs' = runs
      BY <1>8 DEF LoadBatch, Postpone, Dismiss, EndBatch
    <2>2. ~Handing(tick'.pc)
      BY <1>0, <1>8, LoadedBatch DEF Postpone, Dismiss, EndBatch, Idle, Handing
    <2> QED
      BY <1>2, <2>1, <2>2
  <1> QED
    BY <1>4, <1>6, <1>7, <1>8 DEF FunnelStep

LEMMA FeedStarts ==
  ASSUME Types, Types', Started, FeedFire \/ FeedHandoff \/ FeedLink
  PROVE  Started'
  <1>0. ws \in Handlers /\ ws.spec \in Specs /\ tick' = tick
    BY DEF Types, HandlerTyped, FeedFire, FeedHandoff, FeedLink, FeedKeeps
  <1>1. ASSUME LinksKept, runs' = runs, ~Handing(ws'.pc)
        PROVE  Started'
    BY <1>0, <1>1, RunsKept, TickStartsKept DEF LinksKept, Started
  <1>2. ASSUME fired' = fired, runs' = runs, ~Handing(ws'.pc)
        PROVE  Started'
    BY <1>1, <1>2 DEF LinksKept, FiresStay
  <1>3. CASE FeedFire
    <2>1. CASE ws' = NoFire /\ UNCHANGED <<state, fired>>
      BY <1>2, <1>3, <2>1 DEF FeedFire, NoFire, Handing
    <2>2. CASE /\ fired[ws.spec] = None /\ Record(ws.spec, {})
               /\ ws' = IF terms[ws.spec].workflow
                        THEN [ws EXCEPT !.pc = "handoff", !.mem = None] ELSE NoFire
      <3>1. LinksKept /\ fired'[ws.spec] # None /\ runs'[ws.spec] = 0 /\ runs' = runs
        BY <1>0, <1>3, <2>2, FiresStart DEF FeedFire
      <3>2. Handing(tick'.pc) => Starts(tick.pc, RowSpec)' /\ RowSpec' = RowSpec /\ RowSpec # ws.spec
        BY <1>0, <2>2, <3>1, TickStartsKept, FirstRow DEF LinksKept, Types, TickTyped, Handing
      <3>3. CASE ws' = NoFire
        BY <1>1, <3>1, <3>3 DEF NoFire, Handing
      <3>4. CASE ws' = [ws EXCEPT !.pc = "handoff", !.mem = None]
        <4>1. ws'.pc = "handoff" /\ ws'.spec = ws.spec
          BY <1>0, <3>4 DEF Handlers
        <4> QED
          BY <3>1, <3>2, <4>1, RunsKept DEF Started, Starts
      <3> QED
        BY <2>2, <3>3, <3>4
    <2> QED
      BY <1>3, <2>1, <2>2 DEF FeedFire
  <1>4. CASE FeedHandoff
    <2>1. CASE ws' = NoFire /\ UNCHANGED runs
      BY <1>2, <1>4, <2>1 DEF FeedHandoff, NoFire, Handing
    <2>2. CASE StartRun(ws.spec) /\ ws' = [ws EXCEPT !.pc = "link"]
      <3>1. /\ ws.pc = "handoff" /\ fired' = fired /\ fired[ws.spec] # None
            /\ runs[ws.spec] = 0
        BY <1>4 DEF FeedHandoff, Started, Starts, Handing
      <3>2. /\ RunsAreAudited' /\ runs'[ws.spec] = 1
            /\ \A t \in Specs \ {ws.spec} : runs'[t] = runs[t]
        BY <1>0, <2>2, <3>1, RunStarts DEF Started
      <3>3. Handing(tick'.pc) => Starts(tick.pc, RowSpec)' /\ RowSpec' = RowSpec
        BY <1>0, <3>1, <3>2, TickStartsKept DEF FiresStay, Handing
      <3>4. ws'.pc = "link" /\ ws'.spec = ws.spec
        BY <1>0, <2>2 DEF Handlers
      <3> QED
        BY <1>0, <3>1, <3>2, <3>3, <3>4 DEF Started, Starts, Handing
    <2> QED
      BY <1>4, <2>1, <2>2 DEF FeedHandoff
  <1>5. CASE FeedLink
    <2>1. fired[ws.spec] # None /\ runs[ws.spec] = 1
      BY <1>5 DEF FeedLink, Started, Starts, Handing
    <2>2. /\ fired'[ws.spec] # None
          /\ \A t \in Specs \ {ws.spec} : fired'[t] = fired[t]
      BY <1>0, <1>5, <2>1, LinkTyped DEF FeedLink, Types
    <2>3. LinksKept
      BY <2>1, <2>2 DEF LinksKept, FiresStay
    <2> QED
      BY <1>1, <1>5, <2>3 DEF FeedLink, NoFire, Handing
  <1> QED
    BY <1>3, <1>4, <1>5

LEMMA StartedNext ==
  ASSUME Types, Types', Started, [Next]_vars
  PROVE  Started'
  <1>1. ASSUME LinksKept, runs' = runs, UNCHANGED <<tick, ws>>
        PROVE  Started'
    <2>1. Handing(tick'.pc) => Starts(tick.pc, RowSpec)' /\ RowSpec' = RowSpec
      BY <1>1, TickStartsKept DEF LinksKept
    <2>2. Handing(ws'.pc) => Starts(ws.pc, ws.spec)'
      BY <1>1, HandlerStartsKept DEF LinksKept
    <2> QED
      BY <1>1, <2>1, <2>2, RunsKept DEF Started
  <1>2. ASSUME fired' = fired PROVE LinksKept
    BY <1>2 DEF LinksKept, FiresStay
  <1>3. CASE LoadBatch \/ FunnelStep
    BY <1>3, FunnelStarts
  <1>4. CASE FeedFire \/ FeedHandoff \/ FeedLink
    BY <1>4, FeedStarts
  <1>5. ASSUME fired' = fired, runs' = runs, tick' = tick, ~Handing(ws'.pc)
        PROVE  Started'
    BY <1>2, <1>5, RunsKept, TickStartsKept DEF LinksKept, Started
  <1>6. CASE FeedLoad
    <2>1. ws'.pc = "fire"
      BY <1>6 DEF FeedLoad, Types, HandlerTyped, Handlers
    <2> QED
      BY <1>5, <1>6, <2>1 DEF FeedLoad, FeedKeeps, Handing
  <1>7. ASSUME NEW s \in Specs, NEW side, Price(s, side) PROVE Started'
    BY <1>1, <1>2, <1>5, <1>7 DEF Price, FeedKeeps, Handing
  <1>8. CASE Crash
    <2>1. fired' = fired /\ runs' = runs /\ tick' = Idle /\ ws' = NoFire
      BY <1>8 DEF Crash, tables
    <2> QED
      BY <1>2, <2>1, RunsKept DEF Started, Handing, Idle, NoFire
  <1>9. CASE WatchRead \/ WatchHandle
    <2>1. LinksKept
      BY <1>9, WatchStep DEF LinksKept, FiresStay
    <2> QED
      BY <1>1, <1>9, <2>1, WatchStep DEF WatchKeeps
  <1>10. CASE \/ Pass \/ UNCHANGED vars \/ ReconcileRead \/ ReconcileApply
              \/ \E s \in Specs : \/ Answer(s) \/ Activate(s) \/ Cancel(s)
                                  \/ OpenApproval(s) \/ AnswerApproval(s)
              \/ \E a \in Articles : Ingest(a)
    BY <1>1, <1>2, <1>10 DEF Pass, vars, tables, ReconcileRead, ReconcileApply, FeedKeeps, Answer,
       Activate, Cancel, Move, OpenApproval, AnswerApproval, WatchKeeps, Ingest
  <1> QED
    BY <1>3, <1>4, <1>6, <1>7, <1>8, <1>9, <1>10 DEF Next

\* However the funnel and the price feed meet, a spec starts at most one run,
\* and only after fire_spec has committed its audit row: a fire that another has
\* not preceded is the only one that is handed over, and no other is on its way.
THEOREM RunsAlwaysAudited == Spec => []RunsAreAudited
  <1>1. Init => Started
    BY DEF Init, Started, RunsAreAudited, Handing, Idle, NoFire
  <1>2. Started /\ Types /\ Types' /\ [Next]_vars => Started'
    BY StartedNext
  <1>3. Started => RunsAreAudited
    BY DEF Started
  <1> QED
    BY <1>1, <1>2, <1>3, TypesAlways, PTL DEF Spec

-----------------------------------------------------------------------------
(* The evidence *)

\* Only specs that watch a market are registered with the price feed.
FeedWatched ==
  /\ \A s \in Specs : feed[s] # "off" => terms[s].market = "watched"
  /\ scan # None => \A s \in scan : terms[s].market = "watched"
  /\ ws.pc # "idle" => terms[ws.spec].market = "watched"

LEMMA FeedWatchedNext ==
  ASSUME Types, FeedWatched, [Next]_vars
  PROVE  FeedWatched'
  <1>0. /\ feed \in [Specs -> {"off", "waiting", "armed"}] /\ ws \in Handlers
        /\ ws.pc # "idle" => ws.spec \in Specs
    BY DEF Types, TablesTyped, TypeOK, HandlerTyped
  <1>1. CASE UNCHANGED <<terms, feed, scan, ws>>
    BY <1>1 DEF FeedWatched
  <1>2. CASE ReconcileRead \/ ReconcileApply
    BY <1>0, <1>2 DEF ReconcileRead, ReconcileApply, Registration, FeedKeeps, FeedWatched
  <1>3. ASSUME NEW s \in Specs, NEW side, Price(s, side) PROVE FeedWatched'
    BY <1>0, <1>3 DEF Price, FeedKeeps, FeedWatched
  <1>4. CASE FeedLoad \/ FeedFire \/ FeedHandoff \/ FeedLink
    <2>1. ws'.pc # "idle" => ws'.spec = ws.spec /\ ws.pc # "idle"
      <3>1. ASSUME NEW pc, NEW mem, ws' = [ws EXCEPT !.pc = pc, !.mem = mem]
            PROVE  ws'.spec = ws.spec
        BY <1>0, <3>1 DEF Handlers
      <3>2. ASSUME NEW pc, ws' = [ws EXCEPT !.pc = pc] PROVE ws'.spec = ws.spec
        BY <1>0, <3>2 DEF Handlers
      <3>3. NoFire.pc = "idle"
        BY DEF NoFire
      <3>4. CASE FeedLoad
        BY <3>1, <3>4 DEF FeedLoad
      <3>5. CASE FeedFire
        <4>1. ws.pc = "fire"
          BY <3>5 DEF FeedFire
        <4>2. ws' = NoFire \/ ws' = [ws EXCEPT !.pc = "handoff", !.mem = None]
          BY <3>5 DEF FeedFire
        <4> QED
          BY <3>1, <3>3, <4>1, <4>2
      <3>6. CASE FeedHandoff \/ FeedLink
        BY <3>2, <3>3, <3>6 DEF FeedHandoff, FeedLink
      <3> QED
        BY <1>4, <3>4, <3>5, <3>6
    <2>2. UNCHANGED <<terms, feed, scan>>
      BY <1>4 DEF FeedLoad, FeedFire, FeedHandoff, FeedLink, FeedKeeps
    <2> QED
      BY <2>1, <2>2 DEF FeedWatched
  <1>5. CASE Crash
    BY <1>5 DEF Crash, tables, NoFire, FeedWatched
  <1>6. CASE WatchRead \/ WatchHandle
    BY <1>1, <1>6, WatchStep DEF WatchKeeps
  <1>7. CASE LoadBatch \/ FunnelStep
    <2>1. UNCHANGED FunnelKeeps
      BY <1>7 DEF LoadBatch, FunnelStep, Postpone, Dismiss, Classify, Signal, Handoff, Link, EndBatch
    <2> QED
      BY <1>1, <2>1 DEF FunnelKeeps
  <1>8. CASE \/ Pass \/ UNCHANGED vars
             \/ \E s \in Specs : \/ Answer(s) \/ Activate(s) \/ Cancel(s)
                                 \/ OpenApproval(s) \/ AnswerApproval(s)
             \/ \E a \in Articles : Ingest(a)
    BY <1>1, <1>8 DEF Pass, vars, tables, Answer, Activate, Cancel, Move, OpenApproval,
       AnswerApproval, WatchKeeps, Ingest
  <1> QED
    BY <1>2, <1>3, <1>4, <1>5, <1>6, <1>7, <1>8 DEF Next

\* What a verdict is once it is in the table, it stays.
YesStays == \A s \in Specs, a \in Articles : row[s][a] = "YES" => row'[s][a] = "YES"

LEMMA YesOnlyStays ==
  ASSUME Queued, [Next]_vars
  PROVE  YesStays /\ terms' = terms
  <1>0. Types
    BY DEF Queued, Audited
  <1>1. CASE UNCHANGED <<terms, row>>
    BY <1>1 DEF YesStays
  <1>2. ASSUME NEW drafts, DraftsPending(drafts), row' = Seen(drafts)
        PROVE  YesStays
    BY <1>2 DEF YesStays, Seen, DraftsPending
  <1>3. ASSUME NEW a \in Articles, Ingest(a) PROVE YesStays /\ terms' = terms
    <2>1. \A s \in Specs, b \in Articles : row'[s][b] = row[s][b] \/ b = a
      BY <1>0, <1>3 DEF Ingest, Types, TablesTyped, TypeOK
    <2>2. \A s \in Specs : row[s][a] = "none"
      BY <1>3 DEF Ingest, Queued, RowsArrived
    <2> QED
      BY <1>3, <2>1, <2>2 DEF Ingest, YesStays
  <1>4. CASE Classify \/ Signal
    <2>1. terms' = terms
      BY <1>4 DEF Classify, Signal, FunnelKeeps
    <2>2. ASSUME NEW drafts \in DraftTables, NEW signal, NEW evidence,
                 Fires(drafts, signal, evidence)
          PROVE  YesStays
      <3>1. DraftsPending(drafts)
        BY <2>2, DraftedRow DEF Fires, DraftsAtHand, Queued
      <3> QED
        BY <1>2, <2>2, <3>1 DEF Fires
    <2> QED
      BY <1>0, <1>1, <1>4, <2>1, <2>2, VerdictSteps
  <1>5. CASE EndBatch
    BY <1>2, <1>5 DEF EndBatch, FunnelKeeps, Queued
  <1>6. CASE LoadBatch \/ Postpone \/ Dismiss \/ Handoff \/ Link
    BY <1>1, <1>6 DEF LoadBatch, Postpone, Dismiss, Handoff, Link, FunnelKeeps
  <1>7. CASE \/ ReconcileRead \/ ReconcileApply \/ FeedLoad \/ FeedFire \/ FeedHandoff \/ FeedLink
             \/ \E s \in Specs, side \in {"under", "over"} : Price(s, side)
    BY <1>1, <1>7 DEF ReconcileRead, ReconcileApply, FeedLoad, FeedFire, FeedHandoff, FeedLink,
       Price, FeedKeeps
  <1>8. CASE WatchRead \/ WatchHandle
    BY <1>0, <1>1, <1>8, WatchStep DEF WatchKeeps
  <1>9. CASE \/ Pass \/ Crash \/ UNCHANGED vars
             \/ \E s \in Specs : \/ Answer(s) \/ Activate(s) \/ Cancel(s)
                                 \/ OpenApproval(s) \/ AnswerApproval(s)
    BY <1>1, <1>9 DEF Pass, Crash, vars, tables, Answer, Activate, Cancel, Move, OpenApproval,
       AnswerApproval, WatchKeeps
  <1> QED
    BY <1>3, <1>4, <1>5, <1>6, <1>7, <1>8, <1>9 DEF Next, FunnelStep

\* A rule that is met is met by some verdict, and that one is in the evidence.
LEMMA SampleNotEmpty ==
  ASSUME NEW as \in SUBSET Articles, as # {}, NEW n \in Nat \ {0}, NEW ev \in Samples(as, n)
  PROVE  ev # {}
  <1>1. IsFiniteSet(as)
    BY FS_Subset
  <1>2. Cardinality(as) \in Nat \ {0}
    BY <1>1, FS_CardinalityType, FS_EmptySet
  <1>3. Cardinality(ev) = AtMost(n, Cardinality(as))
    BY DEF Samples
  <1> QED
    BY <1>2, <1>3, FS_EmptySet DEF AtMost

LEMMA EvidenceNotEmpty ==
  ASSUME Types, NEW seen, NEW s \in Specs, NEW signal, Rule(seen, s, signal),
         NEW evidence \in Evidence(seen, s)
  PROVE  evidence # {}
  <1> DEFINE t == terms[s]
  <1>0. t.tier \in 1 .. 3 /\ t.confirmations \in Nat
    BY DEF Types, TablesTyped, TypeOK, Terms
  <1>1. /\ PrimaryYes(seen, s) \in SUBSET Articles /\ SecondaryYes(seen, s) \in SUBSET Articles
    BY DEF PrimaryYes, SecondaryYes, Judged
  <1>2. AtLeastTwo(t.confirmations + 1) \in Nat \ {0} /\ AtLeastTwo(t.confirmations + 1) >= 2
    BY <1>0 DEF AtLeastTwo
  <1>3. ASSUME Consensus(seen, s, signal) PROVE SecondaryYes(seen, s) # {}
    <2>1. SUFFICES ASSUME SecondaryYes(seen, s) = {} PROVE FALSE
      OBVIOUS
    <2>2. SourcesOf(SecondaryYes(seen, s)) = {}
      BY <2>1 DEF SourcesOf
    <2>3. Confirming(seen, s, signal) <= 1
      BY <2>2, FS_EmptySet DEF Confirming
    <2>4. Confirming(seen, s, signal) \in Nat
      BY <2>2, FS_EmptySet DEF Confirming
    <2> QED
      BY <1>2, <1>3, <2>3, <2>4 DEF Consensus
  <1>4. CASE PrimaryYes(seen, s) # {}
    <2>1. \A p \in Samples(PrimaryYes(seen, s), 1) : p # {}
      BY <1>1, <1>4, SampleNotEmpty
    <2> QED
      BY <1>4, <2>1 DEF Evidence
  <1>5. CASE PrimaryYes(seen, s) = {}
    <2>1. /\ ~(t.tier = 3 /\ t.primary # {})
          /\ Consensus(seen, s, signal)
      <3>1. CASE t.tier = 1
        BY <1>5, <3>1 DEF Rule
      <3>2. CASE t.tier = 2
        BY <1>5, <3>2 DEF Rule
      <3>3. CASE t.tier = 3
        BY <1>5, <3>3 DEF Rule
      <3> QED
        BY <1>0, <3>1, <3>2, <3>3
    <2>2. evidence \in Samples(SecondaryYes(seen, s), AtLeastTwo(t.confirmations + 1))
      BY <1>5, <2>1 DEF Evidence
    <2> QED
      BY <1>1, <1>2, <1>3, <2>1, <2>2, SampleNotEmpty
  <1> QED
    BY <1>4, <1>5

LEMMA EvidenceNext ==
  ASSUME Queued, FeedWatched, EvidenceIsDurable, [Next]_vars
  PROVE  EvidenceIsDurable'
  <1>0. Types /\ YesStays /\ terms' = terms
    BY YesOnlyStays DEF Queued, Audited
  <1>1. CASE FiresKept
    BY <1>0, <1>1 DEF FiresKept, EvidenceIsDurable, YesStays, Types, TablesTyped, FiredEvent
  <1>2. ASSUME NEW s \in Specs, NEW evidence \in SUBSET Articles, Record(s, evidence),
               \A a \in evidence : row'[s][a] = "YES",
               evidence = {} => terms[s].market = "watched"
        PROVE  EvidenceIsDurable'
    <2>1. /\ fired'[s].evidence = evidence
          /\ \A t \in Specs \ {s} : fired'[t] = fired[t]
      BY <1>0, <1>2, RecordTyped DEF Types
    <2>2. \A t \in Specs : fired[t] # None => fired[t].evidence \in SUBSET Articles
      BY <1>0 DEF Types, TablesTyped, FiredEvent
    <2> QED
      BY <1>0, <1>2, <2>1, <2>2 DEF EvidenceIsDurable, YesStays
  <1>3. ASSUME NEW s \in Specs, NEW ev \in SUBSET Articles, FunnelFires(s, ev)
        PROVE  EvidenceIsDurable'
    <2>1. tick \in Ticks /\ s = RowSpec /\ state[s] # "fired" /\ state'[s] = "fired"
      BY <1>0, <1>3, RecordTyped DEF FunnelFires, Types, TickTyped, Queued, Audited, AuditMatchesState
    <2>2. PICK drafts \in DraftTables, signal \in {"over", "under", "unknown"},
               evidence \in SUBSET Articles : Fires(drafts, signal, evidence)
      BY <1>0, <1>3, <2>1, VerdictSteps DEF FunnelFires
    <2>3. /\ Record(s, evidence) /\ evidence \in Evidence(Seen(drafts), s)
          /\ Rule(Seen(drafts), s, signal) /\ row' = Seen(drafts)
      BY <2>1, <2>2 DEF Fires, FunnelFires
    <2>4. \A a \in evidence : row'[s][a] = "YES"
      BY <2>3, EvidenceIsYes DEF Judged
    <2>5. evidence # {}
      BY <1>0, <2>3, EvidenceNotEmpty
    <2> QED
      BY <1>2, <2>3, <2>4, <2>5
  <1>4. ASSUME NEW s \in Specs, NEW ev \in SUBSET Articles, FeedFires(s, ev)
        PROVE  EvidenceIsDurable'
    BY <1>2, <1>4 DEF FeedFires, FeedFire, FeedWatched
  <1>5. CASE \E s \in Specs : Answer(s) \/ Activate(s) \/ Cancel(s)
    BY <1>1, <1>5 DEF Answer, Activate, Cancel, Move, FiresKept
  <1> QED
    BY <1>0, <1>1, <1>3, <1>4, <1>5, StateSteps

\* A fired spec can always be explained: the verdicts its audit row cites are in
\* the table, though they were drafts of an unfinished batch, and a row that
\* cites none comes from the market's price.
THEOREM EvidenceAlwaysDurable == Spec => []EvidenceIsDurable
  <1>1. Init => FeedWatched /\ EvidenceIsDurable
    BY DEF Init, FeedWatched, NoFire, EvidenceIsDurable
  <1>2. FeedWatched /\ Types /\ [Next]_vars => FeedWatched'
    BY FeedWatchedNext
  <1>3. EvidenceIsDurable /\ FeedWatched /\ Queued /\ [Next]_vars => EvidenceIsDurable'
    BY EvidenceNext
  <1> QED
    BY <1>1, <1>2, <1>3, TypesAlways, QueuedAlways, PTL DEF Spec

-----------------------------------------------------------------------------
(* The verdicts that have been decided on *)

\* The rule of a spec no conflict can hold back, as a test of the YES articles
\* alone: adding articles, or the price's signal, never unmakes it.
PrimaryOf(t, yes) == {a \in yes : Source[a] \in t.primary}
Backing(t, yes, extra) == Cardinality(SourcesOf(yes \ PrimaryOf(t, yes))) + extra
Agreed(t, yes, extra) == Backing(t, yes, extra) >= AtLeastTwo(t.confirmations + 1)

Meets(t, yes, extra) ==
  \/ t.tier = 1 /\ PrimaryOf(t, yes) # {}
  \/ t.tier = 2 /\ (PrimaryOf(t, yes) # {} \/ Agreed(t, yes, extra))
  \/ t.tier = 3 /\ t.primary = {} /\ Agreed(t, yes, extra)
  \/ /\ t.tier = 3 /\ t.primary # {} /\ PrimaryOf(t, yes) # {}
     /\ Backing(t, yes, extra) >= t.confirmations

LEMMA SourcesMore ==
  ASSUME NEW more \in SUBSET Articles, NEW as \in SUBSET more
  PROVE  /\ Cardinality(SourcesOf(as)) \in Nat /\ Cardinality(SourcesOf(more)) \in Nat
         /\ Cardinality(SourcesOf(as)) <= Cardinality(SourcesOf(more))
  <1> DEFINE f == [a \in more |-> Source[a]]
  <1>1. IsFiniteSet(more)
    BY FS_Subset
  <1>2. f \in Surjection(more, SourcesOf(more))
    BY DEF Surjection, SourcesOf
  <1>3. IsFiniteSet(SourcesOf(more))
    BY <1>1, <1>2, FS_Surjection
  <1>4. SourcesOf(as) \in SUBSET SourcesOf(more)
    BY DEF SourcesOf
  <1> QED
    BY <1>3, <1>4, FS_Subset, FS_CardinalityType

LEMMA MeetsMore ==
  ASSUME NEW t \in Terms, NEW more \in SUBSET Articles, NEW yes \in SUBSET more,
         NEW e \in Nat, NEW f \in Nat, e <= f, Meets(t, yes, e)
  PROVE  Meets(t, more, f)
  <1>1. PrimaryOf(t, yes) \subseteq PrimaryOf(t, more)
    BY DEF PrimaryOf
  <1>2. yes \ PrimaryOf(t, yes) \subseteq more \ PrimaryOf(t, more)
    BY DEF PrimaryOf
  <1>3. Backing(t, yes, e) \in Nat /\ Backing(t, more, f) \in Nat
        /\ Backing(t, yes, e) <= Backing(t, more, f)
    <2> DEFINE A == yes \ PrimaryOf(t, yes)
               B == more \ PrimaryOf(t, more)
    <2>1. B \in SUBSET Articles /\ A \in SUBSET B
      BY <1>2
    <2> HIDE DEF A, B
    <2>2. /\ Cardinality(SourcesOf(A)) \in Nat /\ Cardinality(SourcesOf(B)) \in Nat
          /\ Cardinality(SourcesOf(A)) <= Cardinality(SourcesOf(B))
      BY <2>1, SourcesMore
    <2> QED
      BY <2>2 DEF A, B, Backing
  <1>4. t.confirmations \in Nat /\ AtLeastTwo(t.confirmations + 1) \in Nat
    BY DEF Terms, AtLeastTwo
  <1> QED
    BY <1>1, <1>3, <1>4 DEF Meets, Agreed

LEMMA MeetsSomething ==
  ASSUME NEW t \in Terms
  PROVE  ~Meets(t, {}, 0)
  <1>1. PrimaryOf(t, {}) = {}
    BY DEF PrimaryOf
  <1>2. Backing(t, {}, 0) = 0
    <2> DEFINE rest == {} \ PrimaryOf(t, {})
               sources == SourcesOf(rest)
    <2>1. sources = {}
      BY DEF SourcesOf
    <2>2. Backing(t, {}, 0) = Cardinality(sources) + 0
      BY DEF Backing
    <2> HIDE DEF sources
    <2> QED
      BY <2>1, <2>2, FS_EmptySet
  <1>3. /\ t.confirmations \in Nat /\ AtLeastTwo(t.confirmations + 1) \in Nat
        /\ AtLeastTwo(t.confirmations + 1) >= 2
    BY DEF Terms, AtLeastTwo
  <1> QED
    BY <1>1, <1>2, <1>3 DEF Meets, Agreed

Held(s) == terms[s].tier = 3 /\ terms[s].hold
Extra(signal) == IF signal = "over" THEN 1 ELSE 0

LEMMA RuleMeets ==
  ASSUME Types, NEW s \in Specs, ~Held(s), NEW seen, NEW signal
  PROVE  Rule(seen, s, signal) <=> Meets(terms[s], Judged(seen, s, "YES"), Extra(signal))
  <1> DEFINE t == terms[s]
             yes == Judged(seen, s, "YES")
  <1>0. t.tier \in 1 .. 3
    BY DEF Types, TablesTyped, TypeOK, Terms
  <1>1. PrimaryYes(seen, s) = PrimaryOf(t, yes)
    BY DEF PrimaryYes, PrimaryOf
  <1>2. Confirming(seen, s, signal) = Backing(t, yes, Extra(signal))
    BY <1>1 DEF Confirming, Backing, SecondaryYes, Extra
  <1>3. Consensus(seen, s, signal) <=> Agreed(t, yes, Extra(signal))
    BY <1>2 DEF Consensus, Agreed
  <1>4. CASE t.tier = 1
    BY <1>1, <1>4 DEF Rule, Meets
  <1>5. CASE t.tier = 2
    BY <1>1, <1>3, <1>5 DEF Rule, Meets
  <1>6. CASE t.tier = 3
    <2>1. ~t.hold
      BY <1>6 DEF Held
    <2> QED
      BY <1>1, <1>2, <1>3, <1>6, <2>1 DEF Rule, Meets
  <1> QED
    BY <1>0, <1>4, <1>5, <1>6

SeenYes(s) == Judged(Seen(tick.drafts), s, "YES")
SavedYes(s) == Judged(row, s, "YES")

\* A spec whose row waits for the market's answer is still to be decided on.
BeforeMarket(s) == tick.pc = "signal" /\ s = RowSpec

DraftsDecided ==
  \A s \in Specs :
    state[s] = "active" /\ ~Held(s) /\ ~BeforeMarket(s) => ~Meets(terms[s], SeenYes(s), 0)

RowsDecided ==
  \A s \in Specs : state[s] = "active" /\ ~Held(s) => ~Meets(terms[s], SavedYes(s), 0)

Decided == DraftsDecided /\ RowsDecided

LEMMA NotMetByLess ==
  ASSUME NEW t \in Terms, NEW more \in SUBSET Articles, NEW yes \in SUBSET more,
         ~Meets(t, more, 0)
  PROVE  ~Meets(t, yes, 0)
  BY MeetsMore

\* How a spec comes to be active after a step.
LEMMA ActiveBefore ==
  ASSUME Types, [Next]_vars, NEW s \in Specs, state'[s] = "active"
  PROVE  state[s] = "active" \/ (Activate(s) /\ state[s] = "draft")
  <1>1. CASE \E t \in Specs : Answer(t) \/ Activate(t) \/ Cancel(t)
    BY <1>1 DEF Answer, Activate, Cancel, Move, Types, TablesTyped, TypeOK
  <1>2. ASSUME NEW t \in Specs, NEW evidence \in SUBSET Articles,
               FunnelFires(t, evidence) \/ FeedFires(t, evidence)
        PROVE  state[s] = "active"
    BY <1>2, RecordTyped DEF FunnelFires, FeedFires, Types
  <1>3. CASE UNCHANGED state
    BY <1>3
  <1> QED
    BY <1>1, <1>2, <1>3, StateSteps

LEMMA NothingSeen ==
  ASSUME NEW s \in Specs
  PROVE  /\ tick.drafts = NoDrafts => SeenYes(s) = SavedYes(s)
         /\ tick'.drafts = NoDrafts => SeenYes(s)' = SavedYes(s)'
  BY NothingDrafted DEF SeenYes, SavedYes, Judged, Seen

\* Time only takes verdicts away.
LEMMA SavedYesShrinks ==
  ASSUME Types, Types', NEW s \in Specs,
         \A a \in Articles : row'[s][a] = "YES" => row[s][a] = "YES" /\ arrived'[a] = arrived[a],
         clock' >= clock
  PROVE  SavedYes(s)' \subseteq SavedYes(s)
  <1>1. /\ arrived \in [Articles -> Nat \cup {None}] /\ clock \in Nat /\ clock' \in Nat
    BY DEF Types, TablesTyped, TypeOK
  <1> QED
    BY <1>1 DEF SavedYes, Judged

LEMMA SeenYesShrinks ==
  ASSUME Types, Types', NEW s \in Specs,
         \A a \in Articles : Seen(tick.drafts)'[s][a] = "YES" =>
           Seen(tick.drafts)[s][a] = "YES" /\ arrived'[a] = arrived[a],
         clock' >= clock
  PROVE  SeenYes(s)' \subseteq SeenYes(s)
  <1>1. /\ arrived \in [Articles -> Nat \cup {None}] /\ clock \in Nat /\ clock' \in Nat
    BY DEF Types, TablesTyped, TypeOK
  <1> QED
    BY <1>1 DEF SeenYes, Judged

\* What the funnel finds decided for a spec stays decided on fewer verdicts.
LEMMA StillDecided ==
  ASSUME Types, Decided, terms' = terms, NEW s \in Specs, state[s] = "active", ~Held(s)
  PROVE  /\ SavedYes(s)' \subseteq SavedYes(s) => ~Meets(terms'[s], SavedYes(s)', 0)
         /\ SeenYes(s)' \subseteq SavedYes(s) => ~Meets(terms'[s], SeenYes(s)', 0)
         /\ ~BeforeMarket(s) /\ SeenYes(s)' \subseteq SeenYes(s) => ~Meets(terms'[s], SeenYes(s)', 0)
         /\ ~BeforeMarket(s) /\ SavedYes(s)' \subseteq SeenYes(s) => ~Meets(terms'[s], SavedYes(s)', 0)
  <1>1. terms[s] \in Terms
    BY DEF Types, TablesTyped, TypeOK
  <1>2. SavedYes(s) \in SUBSET Articles /\ SeenYes(s) \in SUBSET Articles
    BY DEF SavedYes, SeenYes, Judged
  <1>3. /\ ~Meets(terms[s], SavedYes(s), 0)
        /\ ~BeforeMarket(s) => ~Meets(terms[s], SeenYes(s), 0)
    BY DEF Decided, RowsDecided, DraftsDecided
  <1>4. ASSUME NEW more \in SUBSET Articles, NEW yes \in SUBSET more, ~Meets(terms[s], more, 0)
        PROVE  ~Meets(terms'[s], yes, 0)
    BY <1>1, <1>4, NotMetByLess
  <1> QED
    BY <1>2, <1>3, <1>4

\* What is to be shown of a spec after a step.
StaysDecided(s) ==
  /\ ~Meets(terms'[s], SavedYes(s)', 0)
  /\ ~BeforeMarket(s)' => ~Meets(terms'[s], SeenYes(s)', 0)

\* Outside the funnel no verdict is added.
LEMMA OthersDecided ==
  ASSUME Queued, Types', Decided, terms' = terms, NEW s \in Specs, state[s] = "active", ~Held(s),
         tick' = tick, clock' >= clock,
         \A t \in Specs, a \in Articles : \/ row'[t][a] = row[t][a] /\ arrived'[a] = arrived[a]
                                          \/ row[t][a] = "none" /\ row'[t][a] # "YES"
  PROVE  StaysDecided(s)
  <1>0. Types
    BY DEF Queued, Audited
  <1>1. SavedYes(s)' \subseteq SavedYes(s)
    <2>1. \A a \in Articles : row'[s][a] = "YES" => row[s][a] = "YES" /\ arrived'[a] = arrived[a]
      OBVIOUS
    <2> QED
      BY <1>0, <2>1, SavedYesShrinks
  <1>2. SeenYes(s)' \subseteq SeenYes(s)
    <2>1. \A a \in Articles : Seen(tick.drafts)'[s][a] = "YES" =>
            Seen(tick.drafts)[s][a] = "YES" /\ arrived'[a] = arrived[a]
      BY DEF Seen, Queued, DraftsPending
    <2> QED
      BY <1>0, <2>1, SeenYesShrinks
  <1>3. BeforeMarket(s)' <=> BeforeMarket(s)
    BY DEF BeforeMarket, RowSpec
  <1> QED
    BY <1>0, <1>1, <1>2, <1>3, StillDecided DEF StaysDecided

\* A batch begins, or is lost: what counts is the table.
LEMMA ForgottenDecided ==
  ASSUME Types, Types', Decided, NEW s \in Specs, state[s] = "active", ~Held(s),
         UNCHANGED <<terms, row, arrived, clock>>, tick'.drafts = NoDrafts
  PROVE  StaysDecided(s)
  <1>1. SavedYes(s)' = SavedYes(s) /\ SeenYes(s)' = SavedYes(s)'
    BY NothingSeen DEF SavedYes, Judged
  <1> QED
    BY <1>1, StillDecided DEF StaysDecided

\* The batch goes on without a new YES on this spec.
LEMMA NoNewYes ==
  ASSUME Types, Types', Decided, NEW s \in Specs, state[s] = "active", ~Held(s), ~BeforeMarket(s),
         UNCHANGED <<terms, row, arrived, clock>>,
         \A a \in Articles : tick'.drafts[s][a] = tick.drafts[s][a]
                             \/ (tick'.drafts[s][a] # None /\ tick'.drafts[s][a] # "YES")
  PROVE  StaysDecided(s)
  <1>1. SavedYes(s)' \subseteq SavedYes(s)
    BY DEF SavedYes, Judged
  <1>2. SeenYes(s)' \subseteq SeenYes(s)
    <2>1. \A a \in Articles : Seen(tick.drafts)'[s][a] = "YES" =>
            Seen(tick.drafts)[s][a] = "YES" /\ arrived'[a] = arrived[a]
      BY DEF Seen
    <2>2. clock' >= clock
      BY DEF Types, TablesTyped, TypeOK
    <2> QED
      BY <2>1, <2>2, SeenYesShrinks
  <1> QED
    BY <1>1, <1>2, StillDecided DEF StaysDecided

\* A commit writes what the session had seen.
LEMMA CommitDecided ==
  ASSUME Types, Types', Decided, NEW s \in Specs, state[s] = "active", ~Held(s), ~BeforeMarket(s),
         UNCHANGED <<terms, arrived, clock>>, NEW drafts, row' = Seen(drafts),
         \A a \in Articles : drafts[s][a] = tick.drafts[s][a],
         tick'.drafts = NoDrafts
  PROVE  StaysDecided(s)
  <1>1. \A a \in Articles : row'[s][a] = Seen(tick.drafts)[s][a]
    BY DEF Seen
  <1>2. SavedYes(s)' \subseteq SeenYes(s)
    BY <1>1 DEF SavedYes, SeenYes, Judged
  <1>3. SeenYes(s)' = SavedYes(s)'
    BY NothingSeen
  <1> QED
    BY <1>2, <1>3, StillDecided DEF StaysDecided

\* A verdict on the row at hand leaves other specs' drafts alone.
LEMMA OtherDrafts ==
  ASSUME tick \in Ticks, tick.batch # <<>>, NEW s \in Specs, s # RowSpec, NEW v
  PROVE  \A a \in Articles : Drafted(RowSpec, RowArticle, v)[s][a] = tick.drafts[s][a]
  BY FirstRow DEF Drafted, Ticks, DraftTables

\* The rule was tried on the verdicts of this spec, and not met.
LEMMA RejectedDecided ==
  ASSUME Types, Types', Decided, NEW s \in Specs, state[s] = "active", ~Held(s),
         UNCHANGED <<terms, row, arrived, clock>>, NEW drafts, tick'.drafts = drafts,
         NEW signal, ~Rule(Seen(drafts), s, signal)
  PROVE  StaysDecided(s)
  <1> DEFINE yes == Judged(Seen(drafts), s, "YES")
  <1>1. terms[s] \in Terms /\ terms'[s] = terms[s]
    BY DEF Types, TablesTyped, TypeOK
  <1>2. yes \in SUBSET Articles
    BY DEF Judged
  <1>3. ~Meets(terms[s], yes, Extra(signal))
    BY RuleMeets
  <1>4. SeenYes(s)' = yes
    BY DEF SeenYes, Judged, Seen
  <1> HIDE DEF yes
  <1>5. ~Meets(terms[s], yes, 0)
    <2>1. Extra(signal) \in Nat
      BY DEF Extra
    <2> QED
      BY <1>1, <1>2, <1>3, <2>1, MeetsMore
  <1>6. SavedYes(s)' \subseteq SavedYes(s)
    BY DEF SavedYes, Judged
  <1> QED
    BY <1>1, <1>4, <1>5, <1>6, StillDecided DEF StaysDecided

\* The first verdict that could have met the rule has been decided on: by a
\* fire, or by the rule turned down.
LEMMA VerdictDecided ==
  ASSUME Queued, Types', Decided, NEW s \in Specs, state[s] = "active", state'[s] = "active",
         ~Held(s), Classify \/ Signal
  PROVE  StaysDecided(s)
  <1>0. /\ Types /\ tick \in Ticks /\ UNCHANGED <<terms, arrived, clock>> /\ tick.batch # <<>>
        /\ state' \in [Specs -> SpecStates] /\ tick.drafts \in DraftTables
        /\ tick.mem \in Memories /\ fired[s] = None
    <2>1. Types /\ tick \in Ticks /\ state' \in [Specs -> SpecStates]
      BY DEF Queued, Audited, Types, TickTyped, TablesTyped, TypeOK
    <2>2. UNCHANGED <<terms, arrived, clock>>
      BY DEF Classify, Signal, FunnelKeeps
    <2> QED
      BY <2>1, <2>2, VerdictSteps DEF Queued, Audited, AuditMatchesState, Ticks
  <1>1. \A drafts \in DraftTables, mem \in Memories :
          tick' = Advance(drafts, mem, state') => tick'.drafts = drafts
    BY <1>0, AdvanceStep
  <1>2. ASSUME NEW drafts, NEW signal, DraftsAtHand(drafts), drafts \in DraftTables,
               Decide(RowSpec, drafts, signal)
        PROVE  StaysDecided(s)
    <2>1. s # RowSpec => ~BeforeMarket(s) /\ \A a \in Articles : drafts[s][a] = tick.drafts[s][a]
      BY <1>0, <1>2, OtherDrafts DEF DraftsAtHand, BeforeMarket
    <2>2. CASE /\ ~Rule(Seen(drafts), RowSpec, signal) \/ fired[RowSpec] # None
               /\ tick' = Advance(drafts, tick.mem, state)
               /\ UNCHANGED <<state, row, fired>>
      <3>1. tick'.drafts = drafts
        BY <1>0, <1>1, <1>2, <2>2
      <3>2. CASE s = RowSpec
        <4>1. ~Rule(Seen(drafts), s, signal)
          BY <1>0, <2>2, <3>2
        <4> QED
          BY <1>0, <2>2, <3>1, <4>1, RejectedDecided
      <3>3. CASE s # RowSpec
        BY <1>0, <2>1, <2>2, <3>1, <3>3, NoNewYes
      <3> QED
        BY <3>2, <3>3
    <2>3. ASSUME NEW evidence, Record(RowSpec, evidence), row' = Seen(drafts),
                 tick' = IF terms[RowSpec].workflow
                         THEN [tick EXCEPT !.pc = "handoff", !.drafts = NoDrafts,
                                           !.mem = [Forgotten EXCEPT ![RowSpec] = "fired"]]
                         ELSE Advance(NoDrafts, [Forgotten EXCEPT ![RowSpec] = "fired"], state')
          PROVE  StaysDecided(s)
      <3>1. s # RowSpec
        BY <1>0, <2>3 DEF Record, Types, TablesTyped, TypeOK
      <3>2. tick'.drafts = NoDrafts
        <4> DEFINE mem == [Forgotten EXCEPT ![RowSpec] = "fired"]
        <4>1. mem \in Memories
          BY EmptyTables DEF Memories, SpecStates
        <4> HIDE DEF mem
        <4>2. CASE tick' = Advance(NoDrafts, mem, state')
          BY <1>1, <4>1, <4>2, EmptyTables
        <4>3. CASE tick' = [tick EXCEPT !.pc = "handoff", !.drafts = NoDrafts, !.mem = mem]
          BY <1>0, <4>3 DEF Ticks
        <4> QED
          BY <2>3, <4>2, <4>3 DEF mem
      <3> QED
        BY <1>0, <2>1, <2>3, <3>1, <3>2, CommitDecided
    <2> QED
      BY <1>2, <2>2, <2>3 DEF Decide
  <1>3. ASSUME Classify PROVE StaysDecided(s)
    <2>0. AtRow /\ tick.pc = "judge" /\ ~BeforeMarket(s)
      BY <1>3 DEF Classify, AtRow, BeforeMarket
    <2>1. PICK v \in Says[RowArticle] :
            LET drafts == Drafted(RowSpec, RowArticle, v) IN
            IF tick.mem[RowSpec] # "active"
              THEN /\ tick' = Advance(drafts, tick.mem, state)
                   /\ UNCHANGED <<state, row, fired>>
            ELSE IF terms[RowSpec].market # "no"
              THEN /\ tick' = [tick EXCEPT !.pc = "signal", !.drafts = drafts]
                   /\ UNCHANGED <<state, row, fired>>
            ELSE Decide(RowSpec, drafts, "unknown")
      BY <1>3 DEF Classify
    <2> DEFINE drafts == Drafted(RowSpec, RowArticle, v)
    <2>2. v \in Verdicts
      BY <1>0, FirstRow
    <2>3. /\ drafts \in DraftTables /\ DraftsAtHand(drafts)
          /\ s # RowSpec => \A a \in Articles : drafts[s][a] = tick.drafts[s][a]
      BY <1>0, <2>0, <2>2, DraftedTyped, OtherDrafts DEF DraftsAtHand
    <2> HIDE DEF drafts
    <2>4. CASE /\ tick.mem[RowSpec] # "active" /\ tick' = Advance(drafts, tick.mem, state)
               /\ UNCHANGED <<state, row, fired>>
      <3>1. s # RowSpec
        BY <1>0, <2>0, <2>4 DEF Queued, BatchInv, RowRead, MemoryKnown, Closed
      <3>2. tick'.drafts = drafts
        BY <1>0, <1>1, <2>3, <2>4
      <3> QED
        BY <1>0, <2>0, <2>3, <2>4, <3>1, <3>2, NoNewYes
    <2>5. CASE /\ tick' = [tick EXCEPT !.pc = "signal", !.drafts = drafts]
               /\ UNCHANGED <<state, row, fired>>
      <3>1. /\ tick'.pc = "signal" /\ tick'.drafts = drafts /\ tick'.batch = tick.batch
            /\ RowSpec' = RowSpec
        BY <1>0, <2>5 DEF Ticks, RowSpec
      <3>2. CASE s = RowSpec
        <4>1. BeforeMarket(s)' /\ SavedYes(s)' \subseteq SavedYes(s)
          BY <1>0, <2>5, <3>1, <3>2 DEF BeforeMarket, SavedYes, Judged
        <4> QED
          BY <1>0, <4>1, StillDecided DEF StaysDecided
      <3>3. CASE s # RowSpec
        BY <1>0, <2>0, <2>3, <2>5, <3>1, <3>3, NoNewYes
      <3> QED
        BY <3>2, <3>3
    <2>6. CASE Decide(RowSpec, drafts, "unknown")
      BY <1>2, <2>3, <2>6
    <2> QED
      BY <2>1, <2>4, <2>5, <2>6 DEF drafts
  <1>4. CASE Signal
    BY <1>0, <1>2, <1>4 DEF Signal, DraftsAtHand
  <1> QED
    BY <1>3, <1>4

LEMMA FunnelDecided ==
  ASSUME Queued, Types', Decided, NEW s \in Specs, state[s] = "active", state'[s] = "active",
         ~Held(s), LoadBatch \/ FunnelStep
  PROVE  StaysDecided(s)
  <1>0. /\ Types /\ tick \in Ticks /\ UNCHANGED <<terms, arrived, clock>>
        /\ state' \in [Specs -> SpecStates] /\ tick.drafts \in DraftTables
        /\ tick.mem \in Memories
    <2>1. UNCHANGED FunnelKeeps
      BY DEF LoadBatch, FunnelStep, Postpone, Dismiss, Classify, Signal, Handoff, Link, EndBatch
    <2> QED
      BY <2>1 DEF Queued, Audited, Types, TickTyped, TablesTyped, TypeOK, Ticks, FunnelKeeps
  <1>1. \A drafts \in DraftTables, mem \in Memories :
          tick.batch # <<>> /\ tick' = Advance(drafts, mem, state') => tick'.drafts = drafts
    BY <1>0, AdvanceStep
  <1>2. CASE LoadBatch
    BY <1>0, <1>2, LoadedBatch, ForgottenDecided DEF LoadBatch
  <1>3. CASE Postpone
    <2>1. tick'.drafts = tick.drafts /\ ~BeforeMarket(s)
      BY <1>0, <1>1, <1>3 DEF Postpone, AtRow, BeforeMarket
    <2> QED
      BY <1>0, <1>3, <2>1, NoNewYes DEF Postpone
  <1>4. CASE Dismiss
    <2>1. /\ tick.batch # <<>> /\ ~BeforeMarket(s) /\ "UNRELATED" \in Verdicts
          /\ RowSpec \in Specs /\ RowArticle \in Articles
      BY <1>0, <1>4, FirstRow DEF Dismiss, AtRow, BeforeMarket, Verdicts
    <2>2. tick'.drafts = Drafted(RowSpec, RowArticle, "UNRELATED")
      BY <1>0, <1>1, <1>4, <2>1, DraftedTyped DEF Dismiss
    <2>3. \A a \in Articles : tick'.drafts[s][a] = tick.drafts[s][a]
                              \/ tick'.drafts[s][a] = "UNRELATED"
      BY <1>0, <2>1, <2>2 DEF Drafted, DraftTables
    <2>4. "UNRELATED" # None
      BY <2>1
    <2> QED
      BY <1>0, <1>4, <2>1, <2>3, <2>4, NoNewYes DEF Dismiss
  <1>5. CASE Classify \/ Signal
    BY <1>5, VerdictDecided
  <1>6. CASE Handoff
    <2>1. tick.pc = "handoff" /\ tick.batch # <<>> /\ UNCHANGED <<state, row>>
      BY <1>0, <1>6 DEF Handoff, Types, TickTyped
    <2>2. tick'.drafts = tick.drafts
      <3>1. CASE tick' = [tick EXCEPT !.pc = "link"]
        BY <1>0, <3>1 DEF Ticks
      <3>2. CASE tick' = Advance(tick.drafts, tick.mem, state)
        BY <1>0, <1>1, <2>1, <3>2
      <3> QED
        BY <1>6, <3>1, <3>2 DEF Handoff
    <2> QED
      BY <1>0, <2>1, <2>2, NoNewYes DEF BeforeMarket
  <1>7. CASE Link
    <2>1. tick.pc = "link" /\ tick.batch # <<>> /\ UNCHANGED <<state, row>>
      BY <1>0, <1>7 DEF Link, Types, TickTyped
    <2>2. tick'.drafts = NoDrafts
      BY <1>0, <1>1, <1>7, <2>1, EmptyTables DEF Link
    <2> QED
      BY <1>0, <2>1, <2>2, ForgottenDecided
  <1>8. CASE EndBatch
    <2>1. tick.pc = "judge" /\ row' = Seen(tick.drafts) /\ tick'.drafts = NoDrafts
      BY <1>8 DEF EndBatch, Idle
    <2> QED
      BY <1>0, <2>1, CommitDecided DEF BeforeMarket
  <1> QED
    BY <1>2, <1>3, <1>4, <1>5, <1>6, <1>7, <1>8 DEF FunnelStep

LEMMA DecidedNext ==
  ASSUME Queued, Types', Decided, [Next]_vars
  PROVE  Decided'
  <1>0. Types /\ terms' = terms /\ clock \in Nat
    BY YesOnlyStays DEF Queued, Audited, Types, TablesTyped, TypeOK
  <1>1. SUFFICES ASSUME NEW s \in Specs, state'[s] = "active", ~Held(s)
                 PROVE  StaysDecided(s)
    <2>1. \A s \in Specs : Held(s)' <=> Held(s)
      BY <1>0 DEF Held
    <2> QED
      BY <1>0, <2>1 DEF Decided, DraftsDecided, RowsDecided, StaysDecided
  <1>2. CASE Activate(s) /\ state[s] = "draft"
    <2>1. UNCHANGED <<row, tick, arrived>>
      BY <1>2 DEF Activate, Move
    <2>2. \A a \in Articles : row'[s][a] = "none" /\ tick'.drafts[s][a] = None
      BY <1>2, <2>1 DEF Queued, RowsArrived, DraftsPending
    <2>3. SavedYes(s)' = {} /\ SeenYes(s)' = {}
      BY <2>2 DEF SavedYes, SeenYes, Judged, Seen
    <2>4. terms'[s] \in Terms
      BY DEF Types, TablesTyped, TypeOK
    <2> QED
      BY <2>3, <2>4, MeetsSomething DEF StaysDecided
  <1>3. CASE state[s] = "active"
    <2>1. ASSUME UNCHANGED <<tick, row, arrived, clock>> PROVE StaysDecided(s)
      BY <1>0, <1>1, <1>3, <2>1, OthersDecided
    <2>2. CASE Pass
      <3>1. UNCHANGED <<tick, row, arrived>> /\ clock' >= clock
        BY <1>0, <2>2 DEF Pass, tables
      <3> QED
        BY <1>0, <1>1, <1>3, <3>1, OthersDecided
    <2>3. ASSUME NEW b \in Articles, Ingest(b) PROVE StaysDecided(s)
      <3>1. UNCHANGED <<tick, clock>>
        BY <2>3 DEF Ingest
      <3>2. ASSUME NEW t \in Specs, NEW a \in Articles
            PROVE  \/ row'[t][a] = row[t][a] /\ arrived'[a] = arrived[a]
                   \/ row[t][a] = "none" /\ row'[t][a] # "YES"
        <4>1. row[t][b] = "none"
          BY <2>3 DEF Ingest, Queued, RowsArrived
        <4>2. row'[t] = row[t] \/ row'[t] = [row[t] EXCEPT ![b] = "pending"]
          BY <2>3 DEF Ingest
        <4>3. row[t] \in [Articles -> RowStates] /\ arrived \in [Articles -> Nat \cup {None}]
          BY <1>0 DEF Types, TablesTyped, TypeOK
        <4>4. a # b => arrived'[a] = arrived[a]
          BY <2>3, <4>3 DEF Ingest
        <4> QED
          BY <4>1, <4>2, <4>3, <4>4
      <3> QED
        BY <1>0, <1>1, <1>3, <3>1, <3>2, OthersDecided
    <2>4. CASE Crash
      BY <1>0, <1>1, <1>3, <2>4, ForgottenDecided DEF Crash, tables, Idle
    <2>5. CASE LoadBatch \/ FunnelStep
      BY <1>1, <1>3, <2>5, FunnelDecided
    <2>6. CASE \/ UNCHANGED vars
               \/ \E t \in Specs : \/ Answer(t) \/ Activate(t) \/ Cancel(t)
                                   \/ OpenApproval(t) \/ AnswerApproval(t)
      BY <2>1, <2>6 DEF vars, tables, Answer, Activate, Cancel, Move, OpenApproval, AnswerApproval,
         WatchKeeps
    <2>7. CASE \/ ReconcileRead \/ ReconcileApply \/ FeedLoad \/ FeedFire \/ FeedHandoff \/ FeedLink
               \/ \E t \in Specs, side \in {"under", "over"} : Price(t, side)
      BY <2>1, <2>7 DEF ReconcileRead, ReconcileApply, FeedLoad, FeedFire, FeedHandoff, FeedLink,
         Price, FeedKeeps
    <2>8. CASE WatchRead \/ WatchHandle
      BY <1>0, <2>1, <2>8, WatchStep DEF WatchKeeps
    <2> QED
      BY <2>2, <2>3, <2>4, <2>5, <2>6, <2>7, <2>8 DEF Next
  <1> QED
    BY <1>0, <1>1, <1>2, <1>3, ActiveBefore

\* No fire is missed: whatever commits the verdicts of a spec that stays active,
\* and wherever the funnel stops, its rule has been tried on them and not met;
\* a held spec of Tier 3 is the only exception.
THEOREM NoFireIsMissed == Spec => []NoMissedFire
  <1>1. Init => Decided
    <2> SUFFICES ASSUME Init PROVE Decided
      OBVIOUS
    <2>1. \A s \in Specs : state[s] # "active"
      BY DEF Init
    <2> QED
      BY <2>1 DEF Decided, DraftsDecided, RowsDecided
  <1>2. Decided /\ Queued /\ Types' /\ [Next]_vars => Decided'
    BY DecidedNext
  <1>3. Decided /\ Types => NoMissedFire
    <2> SUFFICES ASSUME Decided, Types, NEW s \in Specs, state[s] = "active", ~Held(s)
                 PROVE  ~Rule(row, s, "unknown")
      BY DEF NoMissedFire, Held
    <2>1. ~Meets(terms[s], SavedYes(s), 0)
      BY DEF Decided, RowsDecided
    <2>2. Extra("unknown") = 0
      BY DEF Extra
    <2> QED
      BY <2>1, <2>2, RuleMeets DEF SavedYes
  <1> QED
    BY <1>1, <1>2, <1>3, TypesAlways, QueuedAlways, PTL DEF Spec
=============================================================================
