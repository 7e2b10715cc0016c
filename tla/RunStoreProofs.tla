--------------------------- MODULE RunStoreProofs ---------------------------
(***************************************************************************)
(* Proofs about RunStore, for every set of runs, tasks, surfaces, checks,  *)
(* places, rules, ids and severities, every limit and every claim.         *)
(*                                                                         *)
(* Rows is the referential integrity the code keeps by hand, without a     *)
(* foreign key for most of it: a task has one run, its plan is of that     *)
(* run's surfaces, evidence came in while its task ran, and a finding has  *)
(* the id of its first observation.  Every conclusion rests on it.         *)
(***************************************************************************)
EXTENDS RunStore, TLAPS

USE SeverityAssumption, PlaceAssumption, ClaimAssumption

\* A task that exists belongs to one run, which exists.
TasksHaveRuns ==
    \A t \in Tasks :
      IF task[t] = "absent" THEN home[t] = {}
      ELSE \E r \in Runs : home[t] = {r} /\ run[r] # "absent"

\* A task's plan is of surfaces of its run.
PlansAreOwn ==
    \A t \in Tasks : \A item \in plan[t] :
      item[1] \in DOMAIN surface /\ home[t] = {surface[item[1]].run}

\* What was covered is planned, and came in once its task had started.
CoverageIsOwn ==
    \A t \in Tasks :
      DOMAIN coverage[t] # {} => Started(t) /\ DOMAIN coverage[t] \subseteq plan[t]

\* What was observed is planned, was seen by a task that had started, and is
\* filed under the problem it is about.
ObservationsAreFiled ==
    \A o \in DOMAIN observation :
      LET row == observation[o] IN
      /\ task[row.task] \notin {"absent", "queued"}
      /\ row.item \in plan[row.task]
      /\ row.finding \in DOMAIN finding
      /\ finding[row.finding].run = surface[row.item[1]].run
      /\ finding[row.finding].key[2] = NormalPlace[surface[row.item[1]].place]

\* A finding has the id of an observation, so a new id is new to both tables,
\* and a rejected one was judged.
FindingsAreOpened ==
    /\ DOMAIN finding \subseteq DOMAIN observation
    /\ \A f \in DOMAIN finding : finding[f].state = "rejected" => f \in DOMAIN judged

\* One problem of a run is one finding.
KeysAreUnique ==
    \A f, g \in DOMAIN finding :
      finding[f].run = finding[g].run /\ finding[f].key = finding[g].key => f = g

\* A completed task executed its plan.
CompletedIsExecuted == \A t \in Tasks : task[t] = "completed" => FullyExecuted(t)

\* A completed run has tasks, all of them completed.
CompletedIsWhole == \A r \in Runs : run[r] = "completed" => AllCompleted(r)

Rows == TasksHaveRuns /\ PlansAreOwn /\ CoverageIsOwn /\ ObservationsAreFiled /\ FindingsAreOpened

Conclusions == CompletedIsExecuted /\ CompletedIsWhole /\ AcceptedClaimStands

Findings == KeysAreUnique /\ SeverityIsWorst /\ RejectionSawAll

StoreInv == Tables /\ Rows /\ Conclusions /\ Findings

-----------------------------------------------------------------------------
(* Tables.                                                                 *)

LEMMA PutRow ==
    ASSUME NEW K, NEW R, NEW table, IsTable(table, K, R), NEW key \in K, NEW row \in R
    PROVE  /\ IsTable(Put(table, key, row), K, R)
           /\ DOMAIN Put(table, key, row) = DOMAIN table \cup {key}
           /\ Put(table, key, row)[key] = row
           /\ \A k \in DOMAIN table \ {key} : Put(table, key, row)[k] = table[k]
BY DEF Put, IsTable

LEMMA RowOf ==
    ASSUME NEW K, NEW R, NEW table, IsTable(table, K, R), NEW key \in DOMAIN table
    PROVE  key \in K /\ table[key] \in R
BY DEF IsTable

LEMMA BatchIsTable ==
    ASSUME NEW K, NEW R, NEW batch \in Table(K, R)
    PROVE  IsTable(batch, K, R)
BY DEF Table, IsTable

\* Where an item is, and the key a rule has there.
LEMMA ItemIsFiled ==
    ASSUME Tables, PlansAreOwn, NEW t \in Tasks, NEW item \in plan[t], NEW rule \in Rules
    PROVE  /\ item \in Items /\ item[1] \in DOMAIN surface
           /\ surface[item[1]] \in SurfaceRow
           /\ surface[item[1]].run \in Runs
           /\ home[t] = {surface[item[1]].run}
           /\ Key(rule, item) \in Keys
           /\ Key(rule, item)[2] = NormalPlace[surface[item[1]].place]
<1>1. item \in Items /\ item[1] \in DOMAIN surface /\ home[t] = {surface[item[1]].run}
  BY DEF Tables, PlansAreOwn
<1>2. surface[item[1]] \in SurfaceRow
  BY <1>1, RowOf DEF Tables
<1>3. surface[item[1]].run \in Runs /\ surface[item[1]].place \in Places
  BY <1>2 DEF SurfaceRow
<1>4. NormalPlace[surface[item[1]].place] \in Places
  BY <1>3
<1>5. QED
  BY <1>1, <1>2, <1>3, <1>4 DEF Key, Keys

\* What recordFinding writes: a row of the right type for one finding, either
\* a new one or one of the same problem, and one observation of it.
Files(id, t, item, rule, severity, f) ==
    LET r == surface[item[1]].run  key == Key(rule, item) IN
    /\ f \in FindingIds
    /\ \/ f = id /\ Same(r, key) = {} /\ id \notin DOMAIN finding
          /\ finding' = Put(finding, f,
               [run |-> r, key |-> key, severity |-> severity, state |-> "candidate"])
       \/ /\ f \in Same(r, key)
          /\ finding' = Put(finding, f, Merged(finding[f], severity))
    /\ observation' = Put(observation, id,
         [finding |-> f, task |-> t, item |-> item, severity |-> severity])

LEMMA RecordFiles ==
    ASSUME StoreInv, NEW id \in FindingIds, NEW t \in Tasks, NEW item \in Items,
           NEW rule \in Rules, NEW severity \in Severities,
           RecordFinding(id, t, item, rule, severity)
    PROVE  \E f \in FindingIds : Files(id, t, item, rule, severity, f)
<1>1. id \notin DOMAIN finding
  BY DEF StoreInv, Rows, FindingsAreOpened, RecordFinding
<1>2. DOMAIN finding \subseteq FindingIds
  BY DEF StoreInv, Tables, IsTable
<1>3. QED
  BY <1>1, <1>2 DEF RecordFinding, Files, Same

LEMMA MergedRow ==
    ASSUME NEW row \in FindingRow, NEW severity \in Severities
    PROVE  /\ Merged(row, severity) \in FindingRow
           /\ Merged(row, severity).run = row.run
           /\ Merged(row, severity).key = row.key
           /\ Merged(row, severity).severity >= row.severity
           /\ Merged(row, severity).severity >= severity
           /\ Merged(row, severity).severity \in {row.severity, severity}
           /\ Merged(row, severity).state # "rejected"
<1>1. row.severity \in Nat /\ severity \in Nat
  BY DEF FindingRow
<1>2. Merged(row, severity) =
        [run |-> row.run, key |-> row.key,
         severity |-> IF severity > row.severity THEN severity ELSE row.severity,
         state |-> IF row.state = "rejected" THEN "candidate" ELSE row.state]
  <2> DEFINE worse == [row EXCEPT !.severity = IF severity > @ THEN severity ELSE @]
  <2>1. worse = [run |-> row.run, key |-> row.key,
                 severity |-> IF severity > row.severity THEN severity ELSE row.severity,
                 state |-> row.state]
    BY DEF FindingRow
  <2>2. Merged(row, severity) =
          [worse EXCEPT !.state = IF row.state = "rejected" THEN "candidate" ELSE row.state]
    BY <2>1 DEF Merged, FindingRow
  <2> HIDE DEF worse
  <2>3. QED
    BY <2>1, <2>2
<1>3. QED
  BY <1>1, <1>2 DEF FindingRow, Verdicts

-----------------------------------------------------------------------------
(* What no step takes back.                                                *)

\* Rows are kept: runs and tasks only move forward, a plan is fixed when its
\* task is created, and surfaces, coverage and observations only grow.
Kept ==
    /\ \A r \in Runs : /\ run[r] # "absent" => run'[r] # "absent"
                       /\ run[r] \in Closings => run'[r] = run[r]
                       /\ run'[r] = "running" => run[r] \in {"absent", "running"}
    /\ \A t \in Tasks :
         /\ task[t] # "absent" =>
              task'[t] # "absent" /\ home'[t] = home[t] /\ plan'[t] = plan[t]
         /\ task[t] \notin {"absent", "queued"} => task'[t] \notin {"absent", "queued"}
         /\ task[t] = "completed" => task'[t] = "completed"
    /\ \A s \in DOMAIN surface : s \in DOMAIN surface' /\ surface'[s] = surface[s]
    /\ \A t \in Tasks : \A item \in DOMAIN coverage[t] :
         item \in DOMAIN coverage'[t] /\ coverage'[t][item] = coverage[t][item]
    /\ \A o \in DOMAIN observation :
         o \in DOMAIN observation' /\ observation'[o] = observation[o]
    /\ \A f \in DOMAIN finding :
         /\ f \in DOMAIN finding'
         /\ finding'[f].run = finding[f].run /\ finding'[f].key = finding[f].key

LEMMA KeptStep == StoreInv /\ [Next]_vars => Kept
<1> SUFFICES ASSUME StoreInv, [Next]_vars PROVE Kept
  OBVIOUS
<1> USE DEF Kept
<1>0. Tables
  BY DEF StoreInv
<1>1. CASE UNCHANGED vars
  BY <1>1 DEF vars, lifecycle, evidence
<1>2. ASSUME NEW r \in Runs, CreateRun(r) PROVE Kept
  BY <1>0, <1>2 DEF CreateRun, evidence, Tables, Closings
<1>3. ASSUME NEW r \in Runs, NEW batch \in Table(Surfaces, Places), AddSurfaces(r, batch)
      PROVE  Kept
  BY <1>3 DEF AddSurfaces, evidence, lifecycle
<1>4. ASSUME NEW t \in Tasks, NEW r \in Runs, NEW items \in SUBSET Items, CreateTask(t, r, items)
      PROVE  Kept
  BY <1>0, <1>4 DEF CreateTask, evidence, Tables
<1>5. ASSUME NEW r \in Runs, NEW status \in Closings, FinishRun(r, status) PROVE Kept
  BY <1>0, <1>5 DEF FinishRun, evidence, Tables, Closings
<1>6. ASSUME NEW t \in Tasks, StartTask(t) PROVE Kept
  BY <1>0, <1>6 DEF StartTask, InState, evidence, Tables
<1>7. ASSUME NEW t \in Tasks, NEW id \in FindingIds, NEW item \in Items, NEW rule \in Rules,
             NEW severity \in Severities, RecordFinding(id, t, item, rule, severity)
      PROVE  Kept
  <2>1. PICK f \in FindingIds : Files(id, t, item, rule, severity, f)
    BY <1>7, RecordFiles
  <2>2. \A o \in DOMAIN observation :
          o \in DOMAIN observation' /\ observation'[o] = observation[o]
    BY <1>7, <2>1 DEF RecordFinding, Files, Put
  <2>3. \A g \in DOMAIN finding :
         /\ g \in DOMAIN finding'
         /\ finding'[g].run = finding[g].run /\ finding'[g].key = finding[g].key
    <3>1. CASE f \notin DOMAIN finding
      BY <2>1, <3>1 DEF Files, Put, Same
    <3>2. CASE f \in DOMAIN finding
      <4>1. finding' = Put(finding, f, Merged(finding[f], severity))
        BY <2>1, <3>2 DEF Files
      <4>2. finding[f] \in FindingRow
        BY <1>0, <3>2, RowOf DEF Tables
      <4>3. QED
        BY <4>1, <4>2, MergedRow DEF Put
    <3>3. QED
      BY <3>1, <3>2
  <2>4. UNCHANGED <<lifecycle, surface, plan, coverage>>
    BY <1>7 DEF RecordFinding
  <2>5. QED
    BY <2>2, <2>3, <2>4 DEF lifecycle
<1>8. ASSUME NEW t \in Tasks, NEW rows \in Table(Items, Reported), RecordCoverage(t, rows)
      PROVE  Kept
  <2>1. UNCHANGED <<lifecycle, surface, plan, finding, observation>>
    BY <1>8 DEF RecordCoverage
  <2>2. ASSUME NEW u \in Tasks, NEW item \in DOMAIN coverage[u]
        PROVE  item \in DOMAIN coverage'[u] /\ coverage'[u][item] = coverage[u][item]
    BY <1>0, <1>8 DEF RecordCoverage, Recordable, Tables
  <2>3. QED
    BY <2>1, <2>2 DEF lifecycle
<1>9. ASSUME NEW t \in Tasks, NEW claim \in Claims, CompleteTask(t, claim) PROVE Kept
  BY <1>0, <1>9 DEF CompleteTask, InState, evidence, Tables
<1>10. ASSUME NEW t \in Tasks, NEW status \in TaskClosings \ {"completed"}, CloseTask(t, status)
       PROVE  Kept
  BY <1>0, <1>10 DEF CloseTask, InState, evidence, Tables, TaskClosings, Closings
<1>11. ASSUME NEW f \in FindingIds, NEW verdict \in Verdicts, SetFindingState(f, verdict)
       PROVE  Kept
  <2>1. UNCHANGED <<lifecycle, surface, plan, coverage, observation>>
    BY <1>11 DEF SetFindingState
  <2>2. \A g \in DOMAIN finding :
         /\ g \in DOMAIN finding'
         /\ finding'[g].run = finding[g].run /\ finding'[g].key = finding[g].key
    <3>1. \A g \in DOMAIN finding : finding[g] \in FindingRow
      BY <1>0, RowOf DEF Tables
    <3>2. QED
      BY <1>11, <3>1 DEF SetFindingState, FindingRow
  <2>3. QED
    BY <2>1, <2>2 DEF lifecycle
<1>12. QED
  BY <1>1, <1>2, <1>3, <1>4, <1>5, <1>6, <1>7, <1>8, <1>9, <1>10, <1>11 DEF Next

-----------------------------------------------------------------------------
(* The inductive invariant.                                                *)

LEMMA StoreInit == Init => StoreInv
<1> SUFFICES ASSUME Init PROVE StoreInv
  OBVIOUS
<1>1. DOMAIN Empty = {} /\ Empty = [k \in {} |-> {}]
  BY DEF Empty
<1>2. Tables
  BY <1>1 DEF Init, Tables, IsTable
<1>3. Rows
  BY <1>1 DEF Init, Rows, TasksHaveRuns, PlansAreOwn, CoverageIsOwn, ObservationsAreFiled,
     FindingsAreOpened
<1>4. Conclusions
  BY <1>1 DEF Init, Conclusions, CompletedIsExecuted, CompletedIsWhole, AcceptedClaimStands
<1>5. Findings
  BY <1>1 DEF Init, Findings, KeysAreUnique, SeverityIsWorst, RejectionSawAll
<1>6. QED
  BY <1>2, <1>3, <1>4, <1>5 DEF StoreInv

LEMMA TypeStep == StoreInv /\ [Next]_vars => Tables'
<1> SUFFICES ASSUME StoreInv, [Next]_vars PROVE Tables'
  OBVIOUS
<1>0. Tables /\ PlansAreOwn
  BY DEF StoreInv, Rows
<1>1. CASE UNCHANGED vars
  BY <1>0, <1>1 DEF vars, lifecycle, evidence, Tables, IsTable
<1>2. ASSUME NEW r \in Runs, CreateRun(r) PROVE Tables'
  BY <1>0, <1>2 DEF CreateRun, evidence, Tables, IsTable
<1>3. ASSUME NEW r \in Runs, NEW batch \in Table(Surfaces, Places), AddSurfaces(r, batch)
      PROVE  Tables'
  <2>1. IsTable(batch, Surfaces, Places) /\ IsTable(surface, Surfaces, SurfaceRow)
    BY <1>0, BatchIsTable DEF Tables
  <2>2. IsTable(surface', Surfaces, SurfaceRow)
    BY <1>3, <2>1 DEF AddSurfaces, IsTable, SurfaceRow
  <2>3. QED
    BY <1>0, <1>3, <2>2 DEF AddSurfaces, evidence, lifecycle, Tables, IsTable
<1>4. ASSUME NEW t \in Tasks, NEW r \in Runs, NEW items \in SUBSET Items, CreateTask(t, r, items)
      PROVE  Tables'
  BY <1>0, <1>4 DEF CreateTask, evidence, Tables, IsTable
<1>5. ASSUME NEW r \in Runs, NEW status \in Closings, FinishRun(r, status) PROVE Tables'
  BY <1>0, <1>5 DEF FinishRun, evidence, Tables, IsTable
<1>6. ASSUME NEW t \in Tasks, StartTask(t) PROVE Tables'
  BY <1>0, <1>6 DEF StartTask, evidence, Tables, IsTable
<1>7. ASSUME NEW t \in Tasks, NEW id \in FindingIds, NEW item \in Items, NEW rule \in Rules,
             NEW severity \in Severities, RecordFinding(id, t, item, rule, severity)
      PROVE  Tables'
  <2>1. PICK f \in FindingIds : Files(id, t, item, rule, severity, f)
    BY <1>7, RecordFiles
  <2>2. item \in plan[t]
    BY <1>7 DEF RecordFinding
  <2>3. surface[item[1]].run \in Runs /\ Key(rule, item) \in Keys
    BY <1>0, <2>2, ItemIsFiled
  <2>4. IsTable(finding, FindingIds, FindingRow) /\ IsTable(observation, FindingIds, ObservationRow)
    BY <1>0 DEF Tables
  <2>5. IsTable(observation', FindingIds, ObservationRow)
    <3>1. [finding |-> f, task |-> t, item |-> item, severity |-> severity] \in ObservationRow
      BY DEF ObservationRow
    <3>2. QED
      BY <2>1, <2>4, <3>1, PutRow DEF Files
  <2>6. IsTable(finding', FindingIds, FindingRow)
    <3>1. [run |-> surface[item[1]].run, key |-> Key(rule, item), severity |-> severity,
           state |-> "candidate"] \in FindingRow
      BY <2>3 DEF FindingRow
    <3>2. CASE f \in Same(surface[item[1]].run, Key(rule, item))
      <4>1. f \in DOMAIN finding /\ finding[f] \in FindingRow
        BY <2>4, <3>2, RowOf DEF Same
      <4>2. Merged(finding[f], severity) \in FindingRow
        BY <4>1, MergedRow
      <4>3. finding' = Put(finding, f, Merged(finding[f], severity))
        BY <2>1, <3>2 DEF Files
      <4>4. QED
        BY <2>4, <4>2, <4>3, PutRow
    <3>3. CASE f \notin Same(surface[item[1]].run, Key(rule, item))
      <4>1. finding' = Put(finding, f,
                [run |-> surface[item[1]].run, key |-> Key(rule, item),
                 severity |-> severity, state |-> "candidate"])
        BY <2>1, <3>3 DEF Files
      <4>2. QED
        BY <2>4, <3>1, <4>1, PutRow
    <3>4. QED
      BY <3>2, <3>3
  <2>7. QED
    BY <1>0, <1>7, <2>5, <2>6 DEF RecordFinding, lifecycle, Tables, IsTable
<1>8. ASSUME NEW t \in Tasks, NEW rows \in Table(Items, Reported), RecordCoverage(t, rows)
      PROVE  Tables'
  <2>1. IsTable(rows, Items, Results) /\ DOMAIN coverage = Tasks
    BY <1>0, BatchIsTable DEF Tables, IsTable
  <2>2. DOMAIN coverage' = Tasks /\ \A u \in Tasks : IsTable(coverage'[u], Items, Results)
    BY <1>0, <1>8, <2>1 DEF RecordCoverage, Tables, IsTable
  <2>3. QED
    BY <1>0, <1>8, <2>2 DEF RecordCoverage, lifecycle, Tables, IsTable
<1>9. ASSUME NEW t \in Tasks, NEW claim \in Claims, CompleteTask(t, claim) PROVE Tables'
  <2>1. IsTable(accepted', Tasks, Claim)
    BY <1>0, <1>9, PutRow DEF CompleteTask, Tables
  <2>2. QED
    BY <1>0, <1>9, <2>1 DEF CompleteTask, evidence, Tables, TaskClosings, Closings
<1>10. ASSUME NEW t \in Tasks, NEW status \in TaskClosings \ {"completed"}, CloseTask(t, status)
       PROVE  Tables'
  BY <1>0, <1>10 DEF CloseTask, evidence, Tables, IsTable
<1>11. ASSUME NEW f \in FindingIds, NEW verdict \in Verdicts, SetFindingState(f, verdict)
       PROVE  Tables'
  <2>1. IsTable(finding, FindingIds, FindingRow) /\ IsTable(judged, FindingIds, SUBSET FindingIds)
        /\ DOMAIN observation \subseteq FindingIds
    BY <1>0 DEF Tables, IsTable
  <2>2. IsTable(finding', FindingIds, FindingRow)
    BY <1>11, <2>1 DEF SetFindingState, IsTable, FindingRow
  <2>3. IsTable(judged', FindingIds, SUBSET FindingIds)
    BY <1>11, <2>1, PutRow DEF SetFindingState, Observations
  <2>4. QED
    BY <1>0, <1>11, <2>2, <2>3 DEF SetFindingState, lifecycle, Tables, IsTable
<1>12. QED
  BY <1>1, <1>2, <1>3, <1>4, <1>5, <1>6, <1>7, <1>8, <1>9, <1>10, <1>11 DEF Next

(* Each table is written by one or two of the operations.                  *)

Records == \E t \in Tasks, id \in FindingIds, item \in Items, rule \in Rules, severity \in Severities :
             RecordFinding(id, t, item, rule, severity)

Judges == \E f \in FindingIds, verdict \in Verdicts : SetFindingState(f, verdict)

\* recordFinding writes two tables and no other.
LEMMA RecordLeaves ==
    ASSUME Records
    PROVE  UNCHANGED <<run, task, home, surface, plan, coverage, judged, accepted>>
<1>1. PICK t \in Tasks, id \in FindingIds, item \in Items, rule \in Rules, severity \in Severities :
         RecordFinding(id, t, item, rule, severity)
  BY DEF Records
<1>2. UNCHANGED <<lifecycle, surface, plan, coverage, judged, accepted>>
  BY ONLY <1>1, Zenon DEF RecordFinding
<1>3. QED
  BY <1>2 DEF lifecycle

LEMMA Writers ==
    ASSUME Tables, [Next]_vars
    PROVE  /\ \A t \in Tasks : task[t] = "absent" =>
                \/ task'[t] = "absent" /\ home'[t] = home[t] /\ plan'[t] = plan[t]
                \/ \E r \in Runs, items \in SUBSET Items : CreateTask(t, r, items)
           /\ \A t \in Tasks : task'[t] = "completed" =>
                task[t] = "completed" \/ \E claim \in Claims : CompleteTask(t, claim)
           /\ \A r \in Runs : run'[r] = "completed" =>
                run[r] = "completed" \/ FinishRun(r, "completed")
           /\ UNCHANGED observation \/ Records
           /\ UNCHANGED <<finding, judged>> \/ Records \/ Judges
           /\ UNCHANGED accepted \/ \E t \in Tasks, claim \in Claims : CompleteTask(t, claim)
<1> USE DEF lifecycle, evidence
<1>1. CASE UNCHANGED vars
  BY <1>1 DEF vars
<1>2. ASSUME NEW r \in Runs,
             \/ CreateRun(r)
             \/ \E batch \in Table(Surfaces, Places) : AddSurfaces(r, batch)
      PROVE  /\ UNCHANGED <<task, home, plan, observation, finding, judged, accepted>>
             /\ \A q \in Runs : run'[q] = run[q] \/ run'[q] = "running"
  BY <1>2 DEF CreateRun, AddSurfaces, Tables
<1>3. ASSUME NEW t \in Tasks, NEW r \in Runs, NEW items \in SUBSET Items, CreateTask(t, r, items)
      PROVE  /\ \A u \in Tasks : u # t =>
                  task'[u] = task[u] /\ home'[u] = home[u] /\ plan'[u] = plan[u]
             /\ task'[t] = "queued"
             /\ UNCHANGED <<run, observation, finding, judged, accepted>>
  BY <1>3 DEF CreateTask, Tables
<1>4. ASSUME NEW r \in Runs, NEW status \in Closings, FinishRun(r, status)
      PROVE  /\ UNCHANGED <<task, home, plan, observation, finding, judged, accepted>>
             /\ \A q \in Runs : run'[q] = run[q] \/ (q = r /\ run'[q] = status)
  BY <1>4 DEF FinishRun, Tables
<1>5. ASSUME NEW t \in Tasks,
             \/ StartTask(t)
             \/ \E claim \in Claims : CompleteTask(t, claim)
             \/ \E status \in TaskClosings \ {"completed"} : CloseTask(t, status)
      PROVE  /\ UNCHANGED <<run, home, plan, observation, finding, judged>>
             /\ \A u \in Tasks : u # t => task'[u] = task[u]
             /\ task[t] # "absent"
             /\ \/ \E claim \in Claims : CompleteTask(t, claim)
                \/ task'[t] # "completed" /\ UNCHANGED accepted
  BY <1>5 DEF StartTask, CompleteTask, CloseTask, InState, Tables
<1>6. ASSUME Records \/ Judges \/ \E t \in Tasks, rows \in Table(Items, Reported) : RecordCoverage(t, rows)
      PROVE  /\ UNCHANGED <<run, task, home, plan, accepted>>
             /\ Records \/ UNCHANGED observation
             /\ Records \/ Judges \/ UNCHANGED <<finding, judged>>
  <2>1. CASE Records
    BY <2>1, RecordLeaves
  <2>2. CASE Judges
    BY <2>2 DEF SetFindingState, Judges
  <2>3. CASE \E t \in Tasks, rows \in Table(Items, Reported) : RecordCoverage(t, rows)
    BY <2>3 DEF RecordCoverage
  <2>4. QED
    BY <1>6, <2>1, <2>2, <2>3
<1>7. CASE \E r \in Runs : \/ CreateRun(r)
                          \/ \E batch \in Table(Surfaces, Places) : AddSurfaces(r, batch)
  BY <1>2, <1>7
<1>8. CASE \E t \in Tasks, r \in Runs, items \in SUBSET Items : CreateTask(t, r, items)
  BY <1>3, <1>8
<1>9. CASE \E r \in Runs, status \in Closings : FinishRun(r, status)
  BY <1>4, <1>9
<1>10. CASE \E t \in Tasks :
              \/ StartTask(t)
              \/ \E claim \in Claims : CompleteTask(t, claim)
              \/ \E status \in TaskClosings \ {"completed"} : CloseTask(t, status)
  BY <1>5, <1>10
<1>11. CASE Records \/ Judges \/ \E t \in Tasks, rows \in Table(Items, Reported) : RecordCoverage(t, rows)
  BY <1>6, <1>11
<1>12. QED
  BY <1>1, <1>7, <1>8, <1>9, <1>10, <1>11 DEF Next, Records, Judges

\* A run that has finished gets no more tasks.
LEMMA FinishedGetsNoTasks ==
    ASSUME StoreInv, [Next]_vars, NEW r \in Runs, run[r] \in Closings
    PROVE  TasksOf(r)' = TasksOf(r)
<1>1. ASSUME NEW t \in Tasks PROVE r \in home'[t] <=> r \in home[t]
  <2>1. CASE task[t] # "absent"
    BY <2>1, KeptStep DEF Kept
  <2>2. ASSUME task[t] = "absent", NEW q \in Runs, NEW items \in SUBSET Items, CreateTask(t, q, items)
        PROVE  r \in home'[t] <=> r \in home[t]
    BY <2>2 DEF CreateTask, StoreInv, Tables, Rows, TasksHaveRuns, Closings
  <2>3. QED
    BY <2>1, <2>2, Writers DEF StoreInv
<1>2. QED
  BY <1>1 DEF TasksOf

\* Only recordCoverage writes coverage.
LEMMA CoverageWriter ==
    ASSUME [Next]_vars
    PROVE  \/ UNCHANGED coverage
           \/ \E t \in Tasks, rows \in Table(Items, Reported) : RecordCoverage(t, rows)
<1> USE DEF evidence
<1>1. CASE UNCHANGED vars
  BY <1>1 DEF vars
<1>2. ASSUME NEW r \in Runs,
             \/ CreateRun(r)
             \/ \E batch \in Table(Surfaces, Places) : AddSurfaces(r, batch)
             \/ \E t \in Tasks, items \in SUBSET Items : CreateTask(t, r, items)
             \/ \E status \in Closings : FinishRun(r, status)
      PROVE  UNCHANGED coverage
  BY <1>2 DEF CreateRun, AddSurfaces, CreateTask, FinishRun
<1>3. ASSUME NEW t \in Tasks,
             \/ StartTask(t)
             \/ \E claim \in Claims : CompleteTask(t, claim)
             \/ \E status \in TaskClosings \ {"completed"} : CloseTask(t, status)
      PROVE  UNCHANGED coverage
  BY <1>3 DEF StartTask, CompleteTask, CloseTask
<1>4. ASSUME NEW t \in Tasks, NEW id \in FindingIds, NEW item \in Items, NEW rule \in Rules,
             NEW severity \in Severities, RecordFinding(id, t, item, rule, severity)
      PROVE  UNCHANGED coverage
  BY <1>4, RecordLeaves DEF Records
<1>5. ASSUME NEW f \in FindingIds, NEW verdict \in Verdicts, SetFindingState(f, verdict)
      PROVE  UNCHANGED coverage
  BY <1>5 DEF SetFindingState
<1>6. QED
  BY <1>1, <1>2, <1>3, <1>4, <1>5 DEF Next

LEMMA RowsStep == StoreInv /\ [Next]_vars => Rows'
<1> SUFFICES ASSUME StoreInv, [Next]_vars PROVE Rows'
  OBVIOUS
<1>1. Tables /\ Rows /\ Kept
  BY KeptStep DEF StoreInv
<1>2. ASSUME NEW t \in Tasks, task[t] # "absent"
      PROVE  task'[t] # "absent" /\ home'[t] = home[t] /\ plan'[t] = plan[t]
  BY <1>1, <1>2 DEF Kept
<1>3. TasksHaveRuns'
  <2>1. ASSUME NEW t \in Tasks, task[t] # "absent"
        PROVE  task'[t] # "absent" /\ \E r \in Runs : home'[t] = {r} /\ run'[r] # "absent"
    BY <1>1, <1>2, <2>1 DEF Rows, TasksHaveRuns, Kept
  <2>2. ASSUME NEW t \in Tasks, NEW r \in Runs, NEW items \in SUBSET Items, CreateTask(t, r, items)
        PROVE  task'[t] # "absent" /\ home'[t] = {r} /\ run'[r] # "absent"
    BY <1>1, <2>2 DEF CreateTask, Tables
  <2>3. QED
    BY <1>1, <2>1, <2>2, Writers DEF Rows, TasksHaveRuns
<1>4. PlansAreOwn'
  <2>1. \A s \in DOMAIN surface : s \in DOMAIN surface' /\ surface'[s] = surface[s]
    BY <1>1 DEF Kept
  <2>2. ASSUME NEW t \in Tasks, task[t] # "absent", NEW item \in plan'[t]
        PROVE  item[1] \in DOMAIN surface' /\ home'[t] = {surface'[item[1]].run}
    BY <1>1, <1>2, <2>1, <2>2 DEF Rows, PlansAreOwn
  <2>3. ASSUME NEW t \in Tasks, NEW r \in Runs, NEW items \in SUBSET Items, CreateTask(t, r, items),
               NEW item \in plan'[t]
        PROVE  item[1] \in DOMAIN surface' /\ home'[t] = {surface'[item[1]].run}
    BY <1>1, <2>1, <2>3 DEF CreateTask, Plannable, SurfacesOf, Tables
  <2>4. ASSUME NEW t \in Tasks, task[t] = "absent", home'[t] = home[t], plan'[t] = plan[t]
        PROVE  plan'[t] = {}
    BY <1>1, <2>4 DEF Rows, TasksHaveRuns, PlansAreOwn
  <2>5. QED
    BY <1>1, <2>2, <2>3, <2>4, Writers DEF PlansAreOwn
<1>5. ObservationsAreFiled'
  <2> DEFINE Filed(row) ==
               /\ task'[row.task] \notin {"absent", "queued"}
               /\ row.item \in plan'[row.task]
               /\ row.finding \in DOMAIN finding'
               /\ finding'[row.finding].run = surface'[row.item[1]].run
               /\ finding'[row.finding].key[2] = NormalPlace[surface'[row.item[1]].place]
  <2>1. ASSUME NEW o \in DOMAIN observation PROVE Filed(observation[o])
    <3> DEFINE row == observation[o]
    <3>1. row \in ObservationRow
      BY <1>1, <2>1, RowOf DEF Tables
    <3>2. row.task \in Tasks
      BY <3>1 DEF ObservationRow
    <3>3. /\ task[row.task] \notin {"absent", "queued"}
          /\ row.item \in plan[row.task]
          /\ row.finding \in DOMAIN finding
          /\ finding[row.finding].run = surface[row.item[1]].run
          /\ finding[row.finding].key[2] = NormalPlace[surface[row.item[1]].place]
      BY <1>1, <2>1 DEF Rows, ObservationsAreFiled
    <3>4. row.item[1] \in DOMAIN surface
      BY <1>1, <3>2, <3>3 DEF Rows, PlansAreOwn
    <3>5. QED
      BY <1>1, <3>2, <3>3, <3>4 DEF Kept
  <2>2. ASSUME NEW t \in Tasks, NEW id \in FindingIds, NEW item \in Items, NEW rule \in Rules,
               NEW severity \in Severities, RecordFinding(id, t, item, rule, severity)
        PROVE  DOMAIN observation' = DOMAIN observation \cup {id} /\ Filed(observation'[id])
    <3>1. PICK f \in FindingIds : Files(id, t, item, rule, severity, f)
      BY <2>2, RecordFiles
    <3>2. /\ task'[t] = "running" /\ item \in plan'[t] /\ item \in plan[t]
          /\ surface' = surface
      BY <2>2 DEF RecordFinding, InState, lifecycle
    <3>3. /\ DOMAIN observation' = DOMAIN observation \cup {id}
          /\ observation'[id] = [finding |-> f, task |-> t, item |-> item, severity |-> severity]
      BY <3>1 DEF Files, Put
    <3>4. Key(rule, item)[2] = NormalPlace[surface[item[1]].place]
      BY DEF Key
    <3>5. /\ f \in DOMAIN finding'
          /\ finding'[f].run = surface[item[1]].run /\ finding'[f].key = Key(rule, item)
      <4>1. CASE f \notin Same(surface[item[1]].run, Key(rule, item))
        BY <3>1, <4>1 DEF Files, Put
      <4>2. CASE f \in Same(surface[item[1]].run, Key(rule, item))
        BY <1>1, <4>2 DEF Kept, Same
      <4>3. QED
        BY <4>1, <4>2
    <3>6. QED
      BY <3>2, <3>3, <3>4, <3>5
  <2>3. CASE UNCHANGED observation
    BY <2>1, <2>3 DEF ObservationsAreFiled
  <2>4. ASSUME NEW t \in Tasks, NEW id \in FindingIds, NEW item \in Items, NEW rule \in Rules,
               NEW severity \in Severities, RecordFinding(id, t, item, rule, severity)
        PROVE  ObservationsAreFiled'
    <3>1. \A o \in DOMAIN observation : observation'[o] = observation[o]
      BY <1>1 DEF Kept
    <3>2. \A o \in DOMAIN observation' : o \in DOMAIN observation \/ o = id
      BY <2>2, <2>4
    <3>3. \A o \in DOMAIN observation' : Filed(observation'[o])
      <4> HIDE DEF Filed
      <4>1. QED
        BY <2>1, <2>2, <2>4, <3>1, <3>2
    <3>4. QED
      BY <3>3 DEF ObservationsAreFiled
  <2>5. QED
    BY <1>1, <2>3, <2>4, Writers DEF Records
<1>6. FindingsAreOpened'
  <2>1. CASE UNCHANGED <<finding, judged>>
    BY <1>1, <2>1 DEF Rows, FindingsAreOpened, Kept
  <2>2. ASSUME NEW t \in Tasks, NEW id \in FindingIds, NEW item \in Items, NEW rule \in Rules,
               NEW severity \in Severities, RecordFinding(id, t, item, rule, severity)
        PROVE  FindingsAreOpened'
    <3>1. PICK f \in FindingIds : Files(id, t, item, rule, severity, f)
      BY <2>2, RecordFiles
    <3>2. DOMAIN observation' = DOMAIN observation \cup {id} /\ judged' = judged
      BY <2>2, <3>1 DEF RecordFinding, Files, Put
    <3>3. /\ f \in DOMAIN finding \/ f = id
          /\ DOMAIN finding' = DOMAIN finding \cup {f}
          /\ \A g \in DOMAIN finding \ {f} : finding'[g] = finding[g]
      BY <3>1 DEF Files, Put, Same
    <3>4. finding'[f].state # "rejected"
      <4>1. CASE f \notin Same(surface[item[1]].run, Key(rule, item))
        BY <3>1, <4>1 DEF Files, Put
      <4>2. CASE f \in Same(surface[item[1]].run, Key(rule, item))
        <5>1. finding[f] \in FindingRow
          BY <1>1, <4>2, RowOf DEF Tables, Same
        <5>2. finding'[f] = Merged(finding[f], severity)
          BY <3>1, <4>2 DEF Files, Put
        <5>3. QED
          BY <5>1, <5>2, MergedRow
      <4>3. QED
        BY <4>1, <4>2
    <3>5. QED
      BY <1>1, <3>2, <3>3, <3>4 DEF Rows, FindingsAreOpened
  <2>3. ASSUME NEW f \in FindingIds, NEW verdict \in Verdicts, SetFindingState(f, verdict)
        PROVE  FindingsAreOpened'
    BY <1>1, <2>3 DEF SetFindingState, Rows, FindingsAreOpened, Put
  <2>4. QED
    BY <1>1, <2>1, <2>2, <2>3, Writers DEF Records, Judges
<1>7. CoverageIsOwn'
  <2>1. ASSUME NEW t \in Tasks, Started(t)
        PROVE  Started(t)' /\ plan'[t] = plan[t]
    BY <1>1, <1>2, <2>1 DEF Kept, Started
  <2>2. CASE UNCHANGED coverage
    BY <1>1, <2>1, <2>2 DEF Rows, CoverageIsOwn
  <2>3. ASSUME NEW t \in Tasks, NEW rows \in Table(Items, Reported), RecordCoverage(t, rows)
        PROVE  CoverageIsOwn'
    <3>1. Started(t) /\ DOMAIN rows \subseteq plan[t]
      BY <2>3 DEF RecordCoverage, InState, Recordable, Started
    <3>2. \A u \in Tasks : DOMAIN coverage'[u] =
            IF u = t THEN DOMAIN coverage[t] \cup DOMAIN rows ELSE DOMAIN coverage[u]
      BY <1>1, <2>3 DEF RecordCoverage, Tables
    <3>3. QED
      BY <1>1, <2>1, <3>1, <3>2 DEF Rows, CoverageIsOwn
  <2>4. QED
    BY <2>2, <2>3, CoverageWriter
<1>8. QED
  BY <1>3, <1>4, <1>5, <1>6, <1>7 DEF Rows

\* A task that executed its plan has executed it for good.
LEMMA ExecutedStands ==
    ASSUME StoreInv, [Next]_vars, NEW t \in Tasks, task[t] # "absent", FullyExecuted(t)
    PROVE  FullyExecuted(t)'
<1>1. plan'[t] = plan[t]
  BY KeptStep DEF Kept
<1>2. \A item \in DOMAIN coverage[t] : item \in DOMAIN coverage'[t] /\ coverage'[t][item] = coverage[t][item]
  BY KeptStep DEF Kept
<1>3. QED
  BY <1>1, <1>2 DEF FullyExecuted

\* Nothing adds to the evidence of a task that does not run.
LEMMA EvidenceStands ==
    ASSUME StoreInv, [Next]_vars, NEW t \in Tasks, task[t] # "running"
    PROVE  Evidence(t)' = Evidence(t) /\ \A s \in Severities : Worst(t, s)' = Worst(t, s)
<1> DEFINE Mine == {o \in DOMAIN observation : observation[o].task = t}
<1>1. Mine' = Mine /\ \A o \in Mine : observation'[o] = observation[o]
  <2>1. \A o \in DOMAIN observation : o \in DOMAIN observation' /\ observation'[o] = observation[o]
    BY KeptStep DEF Kept
  <2>2. ASSUME NEW u \in Tasks, NEW id \in FindingIds, NEW item \in Items, NEW rule \in Rules,
               NEW severity \in Severities, RecordFinding(id, u, item, rule, severity),
               NEW o \in DOMAIN observation'
        PROVE  o \in DOMAIN observation \/ observation'[o].task # t
    <3>1. u # t
      BY <2>2 DEF RecordFinding, InState
    <3>2. PICK f \in FindingIds : Files(id, u, item, rule, severity, f)
      BY <2>2, RecordFiles
    <3>3. o \in DOMAIN observation \/ (o = id /\ observation'[o].task = u)
      BY <3>2 DEF Files, Put
    <3>4. QED
      BY <3>1, <3>3
  <2>3. \A o \in DOMAIN observation' : o \in DOMAIN observation \/ observation'[o].task # t
    BY <2>2, Writers DEF Records, StoreInv
  <2>4. QED
    BY <2>1, <2>3
<1>2. Evidence(t) = {observation[o].finding : o \in Mine}
      /\ Evidence(t)' = {observation'[o].finding : o \in Mine'}
  BY DEF Evidence
<1>3. \A f : /\ SeenBy(t, f) = {observation[o].severity : o \in {p \in Mine : observation[p].finding = f}}
             /\ SeenBy(t, f)' = {observation'[o].severity : o \in {p \in Mine' : observation'[p].finding = f}}
  BY DEF SeenBy, Observations
<1> HIDE DEF Mine
<1>4. Evidence(t)' = Evidence(t)
  BY <1>1, <1>2
<1>5. ASSUME NEW f PROVE SeenBy(t, f)' = SeenBy(t, f)
  <2> DEFINE S == {p \in Mine : observation[p].finding = f}
  <2>1. {p \in Mine' : observation'[p].finding = f} = S
    BY <1>1
  <2>2. /\ SeenBy(t, f) = {observation[o].severity : o \in S}
        /\ SeenBy(t, f)' = {observation'[o].severity : o \in S}
    BY <1>3, <2>1
  <2>3. \A o \in S : observation'[o] = observation[o]
    BY <1>1
  <2> HIDE DEF S
  <2>4. QED
    BY <2>2, <2>3
<1>6. ASSUME NEW s \in Severities PROVE Worst(t, s)' = Worst(t, s)
  <2>1. /\ Worst(t, s) = {f \in Evidence(t) : s \in SeenBy(t, f) /\ \A x \in SeenBy(t, f) : x <= s}
        /\ Worst(t, s)' = {f \in Evidence(t)' : s \in SeenBy(t, f)' /\ \A x \in SeenBy(t, f)' : x <= s}
    BY DEF Worst
  <2>2. QED
    BY <1>4, <1>5, <2>1
<1>7. QED
  BY <1>4, <1>6

LEMMA ConclusionsStep == StoreInv /\ [Next]_vars => Conclusions'
<1> SUFFICES ASSUME StoreInv, [Next]_vars PROVE Conclusions'
  OBVIOUS
<1>1. Tables /\ Rows /\ Conclusions /\ Kept
  BY KeptStep DEF StoreInv
<1>2. CompletedIsExecuted'
  <2>1. ASSUME NEW t \in Tasks, task[t] = "completed" PROVE FullyExecuted(t)'
    BY <1>1, <2>1, ExecutedStands DEF Conclusions, CompletedIsExecuted
  <2>2. ASSUME NEW t \in Tasks, NEW claim \in Claims, CompleteTask(t, claim)
        PROVE  FullyExecuted(t)'
    BY <2>2, ExecutedStands DEF CompleteTask, InState
  <2>3. QED
    BY <1>1, <2>1, <2>2, Writers DEF CompletedIsExecuted
<1>3. CompletedIsWhole'
  <2>1. ASSUME NEW r \in Runs, run[r] = "completed" PROVE AllCompleted(r)'
    <3>1. AllCompleted(r) /\ TasksOf(r)' = TasksOf(r) /\ TasksOf(r) \subseteq Tasks
      BY <1>1, <2>1, FinishedGetsNoTasks DEF Conclusions, CompletedIsWhole, Closings, TasksOf
    <3>2. QED
      BY <1>1, <3>1 DEF AllCompleted, Kept
  <2>2. ASSUME NEW r \in Runs, FinishRun(r, "completed") PROVE AllCompleted(r)'
    BY <2>2 DEF FinishRun, AllCompleted, TasksOf
  <2>3. QED
    BY <1>1, <2>1, <2>2, Writers DEF CompletedIsWhole
<1>4. AcceptedClaimStands'
  <2> DEFINE Stands(t) ==
               /\ task'[t] = "completed" /\ accepted'[t].clean
               /\ accepted'[t].ids = Evidence(t)'
               /\ \A s \in Severities : accepted'[t].count[s] = Cardinality(Worst(t, s)')
  <2>1. ASSUME NEW t \in DOMAIN accepted, accepted'[t] = accepted[t] PROVE Stands(t)
    <3>1. t \in Tasks /\ task[t] = "completed"
      BY <1>1 DEF Conclusions, AcceptedClaimStands, Tables, IsTable
    <3>2. Evidence(t)' = Evidence(t) /\ \A s \in Severities : Worst(t, s)' = Worst(t, s)
      BY <3>1, EvidenceStands
    <3>3. task'[t] = "completed"
      BY <1>1, <3>1 DEF Kept
    <3>4. QED
      BY <1>1, <2>1, <3>2, <3>3 DEF Conclusions, AcceptedClaimStands
  <2>2. ASSUME NEW t \in Tasks, NEW claim \in Claims, CompleteTask(t, claim)
        PROVE  /\ Stands(t) /\ DOMAIN accepted' = DOMAIN accepted \cup {t}
               /\ \A u \in DOMAIN accepted \ {t} : accepted'[u] = accepted[u]
    <3>1. /\ accepted' = Put(accepted, t, claim) /\ UNCHANGED observation
          /\ Matches(t, claim) /\ claim.clean
      BY <2>2 DEF CompleteTask, evidence
    <3>2. Evidence(t)' = Evidence(t) /\ \A s : Worst(t, s)' = Worst(t, s)
      BY <3>1 DEF Evidence, Worst, SeenBy, Observations
    <3>3. task'[t] = "completed"
      BY <1>1, <2>2 DEF CompleteTask, Tables
    <3>4. accepted'[t] = claim /\ DOMAIN accepted' = DOMAIN accepted \cup {t}
          /\ \A u \in DOMAIN accepted \ {t} : accepted'[u] = accepted[u]
      BY <3>1 DEF Put
    <3>5. QED
      BY <3>1, <3>2, <3>3, <3>4 DEF Matches
  <2> HIDE DEF Stands
  <2>3. \A t \in DOMAIN accepted' : Stands(t)
    <3>1. CASE UNCHANGED accepted
      BY <2>1, <3>1
    <3>2. ASSUME NEW t \in Tasks, NEW claim \in Claims, CompleteTask(t, claim),
                 NEW u \in DOMAIN accepted'
          PROVE  Stands(u)
      BY <2>1, <2>2, <3>2
    <3>3. QED
      BY <1>1, <3>1, <3>2, Writers
  <2>4. QED
    BY <2>3 DEF AcceptedClaimStands, Stands
<1>5. QED
  BY <1>2, <1>3, <1>4 DEF Conclusions

\* The observations of a finding, when one more is filed.
LEMMA FiledObservations ==
    ASSUME StoreInv, NEW id \in FindingIds, NEW t \in Tasks, NEW item \in Items,
           NEW rule \in Rules, NEW severity \in Severities, NEW f \in FindingIds,
           RecordFinding(id, t, item, rule, severity),
           Files(id, t, item, rule, severity, f)
    PROVE  /\ Observations(f)' = Observations(f) \cup {id}
           /\ \A g : g # f => Observations(g)' = Observations(g)
           /\ id \notin Observations(f)
           /\ observation'[id].severity = severity
           /\ \A o \in DOMAIN observation : observation'[o] = observation[o]
<1>1. id \notin DOMAIN observation
  BY DEF RecordFinding
<1>2. /\ DOMAIN observation' = DOMAIN observation \cup {id}
      /\ observation'[id] = [finding |-> f, task |-> t, item |-> item, severity |-> severity]
      /\ \A o \in DOMAIN observation : observation'[o] = observation[o]
  BY <1>1 DEF Files, Put
<1>3. QED
  BY <1>1, <1>2 DEF Observations

LEMMA FindingsStep == StoreInv /\ [Next]_vars => Findings'
<1> SUFFICES ASSUME StoreInv, [Next]_vars PROVE Findings'
  OBVIOUS
<1>1. Tables /\ Rows /\ Findings /\ Kept
  BY KeptStep DEF StoreInv
<1>2. \A f \in DOMAIN finding : finding[f] \in FindingRow
  BY <1>1, RowOf DEF Tables
<1>3. CASE UNCHANGED <<finding, judged, observation>>
  <2>1. \A f : Observations(f)' = Observations(f)
    BY <1>3 DEF Observations
  <2>2. QED
    BY <1>1, <1>3, <2>1 DEF Findings, KeysAreUnique, SeverityIsWorst, RejectionSawAll
<1>4. ASSUME NEW t \in Tasks, NEW id \in FindingIds, NEW item \in Items, NEW rule \in Rules,
             NEW severity \in Severities, RecordFinding(id, t, item, rule, severity)
      PROVE  Findings'
  <2>1. PICK f \in FindingIds : Files(id, t, item, rule, severity, f)
    BY <1>4, RecordFiles
  <2> DEFINE r == surface[item[1]].run  key == Key(rule, item)
  <2>2. /\ Observations(f)' = Observations(f) \cup {id}
        /\ \A g : g # f => Observations(g)' = Observations(g)
        /\ id \notin Observations(f)
        /\ observation'[id].severity = severity
        /\ \A o \in DOMAIN observation : observation'[o] = observation[o]
    BY <1>1, <1>4, <2>1, FiledObservations DEF StoreInv
  <2>3. /\ DOMAIN finding' = DOMAIN finding \cup {f}
        /\ \A g \in DOMAIN finding \ {f} : finding'[g] = finding[g]
        /\ judged' = judged
    BY <1>4, <2>1 DEF RecordFinding, Files, Put, Same
  <2>4. CASE f \notin Same(r, key)
    <3>1. /\ f = id /\ Same(r, key) = {} /\ id \notin DOMAIN finding
          /\ finding'[f] = [run |-> r, key |-> key, severity |-> severity, state |-> "candidate"]
      BY <2>1, <2>4 DEF Files, Put
    <3>2. Observations(f) = {}
      BY <1>1, <3>1 DEF Observations, Rows, ObservationsAreFiled
    <3>3. KeysAreUnique'
      BY <1>1, <2>3, <3>1 DEF KeysAreUnique, Findings, Same
    <3>4. SeverityIsWorst'
      <4>1. severity \in Nat
        OBVIOUS
      <4>2. ASSUME NEW g \in DOMAIN finding
            PROVE  Observations(g)' = Observations(g) /\ finding'[g] = finding[g]
        BY <2>2, <2>3, <3>1
      <4>3. \A g : Observations(g) \subseteq DOMAIN observation
        BY DEF Observations
      <4>4. QED
        BY <1>1, <2>2, <2>3, <3>1, <3>2, <4>1, <4>2, <4>3 DEF Findings, SeverityIsWorst
    <3>5. RejectionSawAll'
      BY <1>1, <2>2, <2>3, <3>1 DEF Findings, RejectionSawAll
    <3>6. QED
      BY <3>3, <3>4, <3>5 DEF Findings
  <2>5. CASE f \in Same(r, key)
    <3>1. f \in DOMAIN finding /\ finding[f] \in FindingRow /\ finding'[f] = Merged(finding[f], severity)
      BY <1>2, <2>1, <2>5 DEF Files, Put, Same
    <3>2. /\ finding'[f].run = finding[f].run /\ finding'[f].key = finding[f].key
          /\ finding'[f].severity >= finding[f].severity /\ finding'[f].severity >= severity
          /\ finding'[f].severity \in {finding[f].severity, severity}
          /\ finding'[f].state # "rejected"
      BY <3>1, MergedRow
    <3>3. KeysAreUnique'
      BY <1>1, <2>3, <3>1, <3>2 DEF KeysAreUnique, Findings
    <3>4. SeverityIsWorst'
      <4>1. severity \in Nat /\ finding[f].severity \in Nat
        BY <3>1 DEF FindingRow
      <4>2. ASSUME NEW g \in DOMAIN finding \ {f}
            PROVE  Observations(g)' = Observations(g) /\ finding'[g] = finding[g]
        BY <2>2, <2>3
      <4>3. \A g : Observations(g) \subseteq DOMAIN observation
        BY DEF Observations
      <4>4. \A o \in DOMAIN observation : observation[o].severity \in Nat
        <5>1. \A o \in DOMAIN observation : observation[o] \in ObservationRow
          BY <1>1, RowOf DEF Tables
        <5>2. QED
          BY <5>1 DEF ObservationRow
      <4>5. /\ \A o \in Observations(f)' : observation'[o].severity <= finding'[f].severity
            /\ \E o \in Observations(f)' : observation'[o].severity = finding'[f].severity
        BY <1>1, <2>2, <3>1, <3>2, <4>1, <4>3, <4>4 DEF Findings, SeverityIsWorst
      <4>6. ASSUME NEW g \in DOMAIN finding \ {f}
            PROVE  /\ \A o \in Observations(g)' : observation'[o].severity <= finding'[g].severity
                   /\ \E o \in Observations(g)' : observation'[o].severity = finding'[g].severity
        BY <1>1, <2>2, <4>2, <4>3 DEF Findings, SeverityIsWorst
      <4>7. QED
        BY <2>3, <3>1, <4>5, <4>6 DEF SeverityIsWorst
    <3>5. RejectionSawAll'
      BY <1>1, <2>2, <2>3, <3>2 DEF Findings, RejectionSawAll
    <3>6. QED
      BY <3>3, <3>4, <3>5 DEF Findings
  <2>6. QED
    BY <2>4, <2>5
<1>5. ASSUME NEW f \in FindingIds, NEW verdict \in Verdicts, SetFindingState(f, verdict)
      PROVE  Findings'
  <2>1. \A g : Observations(g)' = Observations(g)
    BY <1>5 DEF SetFindingState, Observations
  <2>2. /\ f \in DOMAIN finding /\ DOMAIN finding' = DOMAIN finding
        /\ \A g \in DOMAIN finding : /\ finding'[g].severity = finding[g].severity
                                     /\ finding'[g].run = finding[g].run
                                     /\ finding'[g].key = finding[g].key
                                     /\ g # f => finding'[g] = finding[g]
    BY <1>2, <1>5 DEF SetFindingState, FindingRow
  <2>3. /\ judged'[f] = Observations(f)
        /\ \A g \in DOMAIN judged \ {f} : judged'[g] = judged[g]
    BY <1>5 DEF SetFindingState, Put
  <2>4. KeysAreUnique'
    BY <1>1, <2>2 DEF Findings, KeysAreUnique
  <2>5. SeverityIsWorst'
    <3>1. observation' = observation
      BY <1>5 DEF SetFindingState
    <3>2. QED
      BY <1>1, <2>1, <2>2, <3>1 DEF Findings, SeverityIsWorst
  <2>6. RejectionSawAll'
    BY <1>1, <2>1, <2>2, <2>3 DEF Findings, RejectionSawAll, Rows, FindingsAreOpened
  <2>7. QED
    BY <2>4, <2>5, <2>6 DEF Findings
<1>6. Records \/ Judges \/ UNCHANGED <<finding, judged, observation>>
  <2>1. Judges => UNCHANGED observation
    BY DEF Judges, SetFindingState
  <2>2. QED
    BY <1>1, <2>1, Writers
<1>7. QED
  BY <1>3, <1>4, <1>5, <1>6 DEF Records, Judges

LEMMA StoreStep == StoreInv /\ [Next]_vars => StoreInv'
BY TypeStep, RowsStep, ConclusionsStep, FindingsStep DEF StoreInv

LEMMA StoreHolds == Spec => []StoreInv
BY StoreInit, StoreStep, PTL DEF Spec

-----------------------------------------------------------------------------
(* Invariants.                                                             *)

\* The tables keep their types (store.ts:109-214), and a coverage row or an
\* observation is always about a planned item of a task that had started, in a
\* database whose foreign keys say nothing of a task's status.
THEOREM TypeCorrect == Spec => []TypeOK
<1>1. StoreInv => TypeOK
  BY DEF StoreInv, Rows, CoverageIsOwn, ObservationsAreFiled, TypeOK, EvidenceIsOwn, Started
<1>2. QED
  BY <1>1, StoreHolds, PTL

\* "completed" is never a mere claim: a completed run has tasks, each of them
\* completed, and every item any of them planned was executed; and what a
\* completed task claimed of its findings is what the rows say, then and at
\* every later instant (store.ts completeTask and finishRun).
THEOREM ConclusionsAlwaysStand == Spec => []ConclusionsStand
<1>1. StoreInv => ConclusionsStand
  BY DEF StoreInv, Tables, Conclusions, CompletedIsExecuted, CompletedIsWhole, ConclusionsStand,
         CompletedRunIsEvidenced, AllCompleted, FullyExecuted, TasksOf
<1>2. QED
  BY <1>1, StoreHolds, PTL

\* A finding's severity is the worst observed for it, and a rejection has seen
\* every observation, however many tasks report it and in whatever order
\* (store.ts recordFinding and setFindingState).
THEOREM FindingsAlwaysFollow == Spec => []FindingsFollowEvidence
<1>1. StoreInv => FindingsFollowEvidence
  BY DEF StoreInv, Findings, FindingsFollowEvidence
<1>2. QED
  BY <1>1, StoreHolds, PTL

\* Runs and problems that share a database and its ids are kept apart: no two
\* findings of a run have one key, and an observation's task, surface and
\* finding are of one run (store.ts dedupeKey, recordFinding).
THEOREM SharingIsApart == Spec => []SharingKeepsApart
<1>1. ASSUME StoreInv PROVE SharingKeepsApart
  <2>1. OneFindingPerProblem
    BY <1>1 DEF StoreInv, Rows, Findings, KeysAreUnique, ObservationsAreFiled, OneFindingPerProblem
  <2>2. ASSUME NEW o \in DOMAIN observation
        PROVE  home[observation[o].task] = {finding[observation[o].finding].run}
    <3>1. observation[o] \in ObservationRow
      BY <1>1, RowOf DEF StoreInv, Tables
    <3>2. observation[o].task \in Tasks
      BY <3>1 DEF ObservationRow
    <3>3. QED
      BY <1>1, <3>2 DEF StoreInv, Rows, ObservationsAreFiled, PlansAreOwn
  <2>3. QED
    BY <2>1, <2>2 DEF SharingKeepsApart, EvidenceStaysInRun
<1>2. QED
  BY <1>1, StoreHolds, PTL

-----------------------------------------------------------------------------
(* What no step may do.                                                    *)

Appends ==
    /\ \A t \in Tasks : \A item \in DOMAIN coverage[t] :
            item \in DOMAIN coverage'[t] /\ coverage'[t][item] = coverage[t][item]
    /\ \A o \in DOMAIN observation :
            o \in DOMAIN observation' /\ observation'[o] = observation[o]

\* Nothing of a finished run r changes.
Frozen(r) ==
    /\ run'[r] = run[r] /\ TasksOf(r)' = TasksOf(r)
    /\ \A t \in TasksOf(r) : task'[t] = task[t] /\ coverage'[t] = coverage[t]
    /\ \A f \in FindingIds :
         f \in DOMAIN finding /\ finding[f].run = r =>
           finding'[f] = finding[f] /\ Observations(f)' = Observations(f)

\* Only a task of a running run is written to, and only it gets evidence.
LEMMA FinishedIsFrozen ==
    ASSUME StoreInv, [Next]_vars, NEW r \in Runs, run[r] \in Closings
    PROVE  Frozen(r)
<1>1. Tables /\ Rows /\ Kept
  BY KeptStep DEF StoreInv
<1>2. run'[r] = run[r] /\ TasksOf(r)' = TasksOf(r)
  BY <1>1, FinishedGetsNoTasks DEF Kept
<1>3. \A t \in TasksOf(r) : t \in Tasks /\ task[t] # "absent" /\ home[t] = {r}
  BY <1>1 DEF TasksOf, Rows, TasksHaveRuns
<1>4. run[r] # "running"
  BY DEF Closings
<1>5. CASE /\ \A t \in Tasks : t \in TasksOf(r) => task'[t] = task[t] /\ coverage'[t] = coverage[t]
           /\ UNCHANGED <<finding, observation>>
  BY <1>2, <1>3, <1>5 DEF Frozen, Observations
<1>6. CASE UNCHANGED vars
  BY <1>5, <1>6 DEF vars, lifecycle, evidence
<1>7. ASSUME NEW q \in Runs,
             \/ CreateRun(q)
             \/ \E batch \in Table(Surfaces, Places) : AddSurfaces(q, batch)
             \/ \E status \in Closings : FinishRun(q, status)
      PROVE  Frozen(r)
  BY <1>5, <1>7 DEF CreateRun, AddSurfaces, FinishRun, lifecycle, evidence
<1>8. ASSUME NEW u \in Tasks, NEW q \in Runs, NEW items \in SUBSET Items, CreateTask(u, q, items)
      PROVE  Frozen(r)
  BY <1>1, <1>3, <1>5, <1>8 DEF CreateTask, evidence, Tables
<1>9. ASSUME NEW u \in Tasks,
             \/ StartTask(u)
             \/ \E rows \in Table(Items, Reported) : RecordCoverage(u, rows)
             \/ \E claim \in Claims : CompleteTask(u, claim)
             \/ \E status \in TaskClosings \ {"completed"} : CloseTask(u, status)
      PROVE  Frozen(r)
  <2>1. u \notin TasksOf(r)
    BY <1>3, <1>4, <1>9 DEF StartTask, RecordCoverage, CompleteTask, CloseTask, InState
  <2>2. QED
    BY <1>1, <1>5, <1>9, <2>1
       DEF StartTask, RecordCoverage, CompleteTask, CloseTask, evidence, lifecycle, Tables
<1>10. ASSUME NEW t \in Tasks, NEW id \in FindingIds, NEW item \in Items, NEW rule \in Rules,
              NEW severity \in Severities, RecordFinding(id, t, item, rule, severity)
       PROVE  Frozen(r)
  <2>1. PICK f \in FindingIds : Files(id, t, item, rule, severity, f)
    BY <1>10, RecordFiles
  <2>2. surface[item[1]].run # r
    BY <1>1, <1>4, <1>10 DEF RecordFinding, InState, Rows, PlansAreOwn
  <2>3. \A g \in DOMAIN finding : finding[g].run = r => g # f
    BY <2>1, <2>2 DEF Files, Same
  <2>4. ASSUME NEW g \in FindingIds, g \in DOMAIN finding, finding[g].run = r
        PROVE  finding'[g] = finding[g] /\ Observations(g)' = Observations(g)
    <3>1. finding'[g] = finding[g]
      BY <2>1, <2>3, <2>4 DEF Files, Put
    <3>2. QED
      BY <1>10, <2>1, <2>3, <2>4, <3>1, FiledObservations
  <2>5. UNCHANGED <<task, coverage>>
    BY <1>10 DEF RecordFinding, lifecycle
  <2>6. QED
    BY <1>2, <2>4, <2>5 DEF Frozen
<1>11. ASSUME NEW f \in FindingIds, NEW verdict \in Verdicts, SetFindingState(f, verdict)
       PROVE  Frozen(r)
  <2>1. \A g \in DOMAIN finding : finding[g].run = r => finding'[g] = finding[g]
    BY <1>4, <1>11 DEF SetFindingState
  <2>2. UNCHANGED <<task, coverage, observation>>
    BY <1>11 DEF SetFindingState, lifecycle
  <2>3. QED
    BY <1>2, <2>1, <2>2 DEF Frozen, Observations
<1>12. QED
  BY <1>6, <1>7, <1>8, <1>9, <1>10, <1>11 DEF Next

\* What has been recorded stands: coverage and observations are append-only,
\* and once a run has finished nothing of it changes, with its tasks still
\* running or not (store.ts recordCoverage, recordFinding, task, finishRun).
THEOREM RecordsAlwaysStand == Spec => RecordsStand
<1>1. StoreInv /\ [Next]_vars => [Appends]_vars
  BY KeptStep DEF Kept, Appends
<1>2. StoreInv /\ [Next]_vars => [\A r \in Runs : run[r] \in Closings => Frozen(r)]_vars
  BY FinishedIsFrozen
<1>3. Spec => [][Appends]_vars
  BY <1>1, StoreHolds, PTL DEF Spec
<1>4. Spec => [][\A r \in Runs : run[r] \in Closings => Frozen(r)]_vars
  BY <1>2, StoreHolds, PTL DEF Spec
<1>5. QED
  BY <1>3, <1>4 DEF RecordsStand, EvidenceAppendOnly, FinishedRunFrozen, Appends, Frozen

-----------------------------------------------------------------------------
(* The lifecycle is implemented.                                           *)

\* Every operation of the store is an operation of RunLifecycle on the same
\* runs and tasks, or leaves them alone.
THEOREM LifecycleIsKept == Spec => KeepsLifecycle
<1>1. Init => Lifecycle!Init
  BY DEF Init, Lifecycle!Init
<1>2. [Next]_vars => [Lifecycle!Next]_(Lifecycle!vars)
  <2> SUFFICES ASSUME [Next]_vars PROVE [Lifecycle!Next]_(Lifecycle!vars)
    OBVIOUS
  <2> USE DEF Lifecycle!Next, Lifecycle!vars
  <2>1. ASSUME NEW r \in Runs, CreateRun(r) PROVE Lifecycle!Next
    BY <2>1 DEF CreateRun, Lifecycle!CreateRun
  <2>2. ASSUME NEW r \in Runs, NEW status \in Closings, FinishRun(r, status) PROVE Lifecycle!Next
    <3>1. Lifecycle!FinishRun(r, status)
      BY <2>2 DEF FinishRun, AllCompleted, TasksOf, Lifecycle!FinishRun, Lifecycle!TasksOf
    <3>2. QED
      BY <3>1 DEF Closings, Lifecycle!Closings
  <2>3. ASSUME NEW t \in Tasks, NEW r \in Runs, NEW items \in SUBSET Items, CreateTask(t, r, items)
        PROVE  Lifecycle!Next
    BY <2>3 DEF CreateTask, Lifecycle!CreateTask
  <2>4. ASSUME NEW t \in Tasks, StartTask(t) PROVE Lifecycle!Next
    BY <2>4 DEF StartTask, InState, Lifecycle!StartTask, Lifecycle!InRunning
  <2>5. ASSUME NEW t \in Tasks, NEW claim \in Claims, CompleteTask(t, claim) PROVE Lifecycle!Next
    <3>1. Lifecycle!CompleteTask(t, "completed") /\ "completed" \in Lifecycle!TaskClosings
      BY <2>5 DEF CompleteTask, InState, Lifecycle!CompleteTask, Lifecycle!InRunning,
                  Lifecycle!TaskClosings, Lifecycle!Closings
    <3>2. QED
      BY <3>1
  <2>6. ASSUME NEW t \in Tasks, NEW status \in TaskClosings \ {"completed"}, CloseTask(t, status)
        PROVE  Lifecycle!Next
    <3>1. Lifecycle!CompleteTask(t, status) /\ status \in Lifecycle!TaskClosings
      BY <2>6 DEF CloseTask, InState, TaskClosings, Closings, Lifecycle!CompleteTask,
                  Lifecycle!InRunning, Lifecycle!TaskClosings, Lifecycle!Closings
    <3>2. QED
      BY <3>1
  <2>7. ASSUME UNCHANGED lifecycle PROVE UNCHANGED Lifecycle!vars
    BY <2>7 DEF lifecycle
  <2>8. ASSUME \/ UNCHANGED vars \/ Records \/ Judges
               \/ \E r \in Runs, batch \in Table(Surfaces, Places) : AddSurfaces(r, batch)
               \/ \E t \in Tasks, rows \in Table(Items, Reported) : RecordCoverage(t, rows)
        PROVE  UNCHANGED lifecycle
    <3>1. CASE Records
      BY <3>1, RecordLeaves DEF lifecycle
    <3>2. CASE ~Records
      BY <2>8, <3>2 DEF vars, Judges, AddSurfaces, RecordCoverage, SetFindingState
    <3>3. QED
      BY <3>1, <3>2
  <2>9. QED
    BY <2>1, <2>2, <2>3, <2>4, <2>5, <2>6, <2>7, <2>8 DEF Next, Records, Judges
<1>3. QED
  BY <1>1, <1>2, PTL DEF Spec, KeepsLifecycle, Lifecycle!Spec
=============================================================================
