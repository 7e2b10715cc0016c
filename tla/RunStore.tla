------------------------------ MODULE RunStore ------------------------------
(***************************************************************************)
(* The run database: class RunStore of src/src/agent-dast/store.ts.        *)
(*                                                                         *)
(* It keeps what the controller planned, observed and concluded, and       *)
(* refuses a conclusion the rows do not support.  Every operation is one   *)
(* SQLite transaction on a synchronous connection, so it is one action     *)
(* here; a call the code rejects rolls back and changes nothing, so it is  *)
(* a stuttering step.  Repeating a surface, a coverage row or an           *)
(* observation exactly is accepted and changes nothing either.             *)
(*                                                                         *)
(* A table is a function from its primary key, whose domain grows; the     *)
(* status columns of runs and tasks are total, with "absent" for no row.   *)
(* Severities are numbers, larger is worse.  recordFindings is modelled    *)
(* entry by entry: a batch is its entries in order, or nothing.            *)
(***************************************************************************)
EXTENDS Naturals, FiniteSets

CONSTANTS
    Runs, Tasks, Surfaces, Checks,
    Places,        \* what a surface row says: method, path, parameter, auth
    NormalPlace,   \* NormalPlace[p]: p with its id-like path segments collapsed
    Rules,
    FindingIds,    \* ids given to observations; a finding keeps its first
    Severities,
    MaxRunItems,   \* MAX_RUN_ITEMS
    MaxFindingIds, \* MAX_FINDING_IDS of a worker result
    MaxTaskObservations,
    Claims,        \* bound: what a worker result may claim
    Reported       \* bound: the coverage results that are reported

ASSUME SeverityAssumption == Severities \subseteq Nat
ASSUME PlaceAssumption    == NormalPlace \in [Places -> Places]
ASSUME FiniteAssumption   == /\ IsFiniteSet(Runs) /\ IsFiniteSet(Tasks)
                             /\ IsFiniteSet(Surfaces) /\ IsFiniteSet(FindingIds)
ASSUME LimitAssumption    == /\ MaxRunItems \in Nat /\ MaxFindingIds \in Nat
                             /\ MaxTaskObservations \in Nat

\* An entry of a coverage plan: a check on a surface.
Items == Surfaces \X Checks

VARIABLES
    run, task, home,  \* tables runs and tasks, as in RunLifecycle
    surface,          \* table surface: its run and place
    plan,             \* table coverage_plan: the items of each task
    coverage,         \* table coverage: the result recorded for an item
    finding,          \* table findings
    observation,      \* table finding_observations
    accepted,         \* history: the claim a completed task closed with
    judged            \* history: the evidence a finding's last verdict saw

lifecycle == <<run, task, home>>
evidence  == <<coverage, finding, observation, judged>>
vars      == <<lifecycle, surface, plan, evidence, accepted>>

Closings     == {"completed", "partial", "error"}
TaskClosings == Closings \cup {"skipped"}
Results      == {"executed", "skipped", "error"}
Verdicts     == {"confirmed", "rejected"}
Keys         == Rules \X Places

SurfaceRow     == [run: Runs, place: Places]
FindingRow     == [run: Runs, key: Keys, severity: Severities,
                   state: Verdicts \cup {"candidate"}]
ObservationRow == [finding: FindingIds, task: Tasks, item: Items, severity: Severities]

\* What a worker result says of the task's findings, and what the runner's
\* ledger says of the process: exit 0, some output, nothing truncated.
Claim == [planned: Nat, ids: SUBSET FindingIds, count: [Severities -> Nat], clean: BOOLEAN]

ASSUME ClaimAssumption == Claims \subseteq Claim /\ Reported \subseteq Results

\* The tables whose keys are in K and whose rows are in R.
Table(K, R) == UNION {[keys -> R] : keys \in SUBSET K}

IsTable(table, K, R) == DOMAIN table \subseteq K /\ table \in [DOMAIN table -> R]

\* Inserts the row, or replaces the one with its key.
Put(table, key, row) ==
    [k \in DOMAIN table \cup {key} |-> IF k = key THEN row ELSE table[k]]

Empty == [k \in {} |-> {}]

Tables ==
    /\ run \in [Runs -> {"absent", "running"} \cup Closings]
    /\ task \in [Tasks -> {"absent", "queued", "running"} \cup TaskClosings]
    /\ home \in [Tasks -> SUBSET Runs]
    /\ IsTable(surface, Surfaces, SurfaceRow)
    /\ plan \in [Tasks -> SUBSET Items]
    /\ DOMAIN coverage = Tasks /\ \A t \in Tasks : IsTable(coverage[t], Items, Results)
    /\ IsTable(finding, FindingIds, FindingRow)
    /\ IsTable(observation, FindingIds, ObservationRow)
    /\ IsTable(accepted, Tasks, Claim)
    /\ IsTable(judged, FindingIds, SUBSET FindingIds)

Started(t) == task[t] \notin {"absent", "queued"}

\* What coverage and observations refer to.
EvidenceIsOwn ==
    /\ \A t \in Tasks : DOMAIN coverage[t] # {} => Started(t) /\ DOMAIN coverage[t] \subseteq plan[t]
    /\ \A o \in DOMAIN observation :
         LET row == observation[o] IN Started(row.task) /\ row.item \in plan[row.task]

\* Types of the tables.  Evidence is about planned items of a task that was
\* started before it came in, whatever has become of the task since: the plan
\* is a foreign key (store.ts:128, 137), the start is kept by task() alone
\* (store.ts:257-262).
TypeOK == Tables /\ EvidenceIsOwn

Init ==
    /\ run = [r \in Runs |-> "absent"]
    /\ task = [t \in Tasks |-> "absent"]
    /\ home = [t \in Tasks |-> {}]
    /\ surface = Empty
    /\ plan = [t \in Tasks |-> {}]
    /\ coverage = [t \in Tasks |-> Empty]
    /\ finding = Empty
    /\ observation = Empty
    /\ accepted = Empty
    /\ judged = Empty

-----------------------------------------------------------------------------
(* Runs, surfaces and tasks.                                               *)

\* createRun
CreateRun(r) ==
    /\ run[r] = "absent"
    /\ Cardinality({q \in Runs : run[q] # "absent"}) < MaxRunItems
    /\ run' = [run EXCEPT ![r] = "running"]
    /\ UNCHANGED <<task, home, surface, plan, evidence, accepted>>

TasksOf(r)    == {t \in Tasks : r \in home[t]}
SurfacesOf(r) == {s \in DOMAIN surface : surface[s].run = r}

\* addSurfaces: a batch maps surface ids to places.  One entry that disagrees
\* with a row refuses the whole batch.
AddSurfaces(r, batch) ==
    LET new == DOMAIN batch \ DOMAIN surface IN
    /\ run[r] = "running" /\ DOMAIN batch # {}
    /\ \A s \in DOMAIN batch \cap DOMAIN surface :
         surface[s] = [run |-> r, place |-> batch[s]]
    /\ new # {} => Cardinality(SurfacesOf(r)) + Cardinality(new) <= MaxRunItems
    /\ surface' = [s \in DOMAIN surface \cup new |->
                     IF s \in new THEN [run |-> r, place |-> batch[s]] ELSE surface[s]]
    /\ UNCHANGED <<lifecycle, plan, evidence, accepted>>

\* Variant: any surface of the database may be planned.
Plannable_AnyRun(r, items) == \A item \in items : item[1] \in DOMAIN surface

\* Every surface of the plan is a row of this run.
Plannable(r, items) == \A item \in items : item[1] \in SurfacesOf(r)

\* createTask: the plan is fixed here, before anything runs.
CreateTask(t, r, items) ==
    /\ task[t] = "absent" /\ run[r] = "running"
    /\ items # {}
    /\ Cardinality(TasksOf(r)) < MaxRunItems
    /\ Plannable(r, items)
    /\ task' = [task EXCEPT ![t] = "queued"]
    /\ home' = [home EXCEPT ![t] = {r}]
    /\ plan' = [plan EXCEPT ![t] = items]
    /\ UNCHANGED <<run, surface, evidence, accepted>>

\* Variant: the task's own status is enough.
InState_AnyRun(t, status) == task[t] = status

\* Variant: a running run is enough.
InState_AnyStatus(t, status) == \E r \in home[t] : run[r] = "running"

\* task(): the task has this status and its run is running.
InState(t, status) == task[t] = status /\ \E r \in home[t] : run[r] = "running"

\* startTask
StartTask(t) ==
    /\ InState(t, "queued")
    /\ task' = [task EXCEPT ![t] = "running"]
    /\ UNCHANGED <<run, home, surface, plan, evidence, accepted>>

-----------------------------------------------------------------------------
(* Evidence.                                                               *)

\* Variant: the key keeps the path as it was recorded.
Key_Raw(rule, item) == <<rule, surface[item[1]].place>>

\* dedupeKey
Key(rule, item) == <<rule, NormalPlace[surface[item[1]].place]>>

\* The finding of this run for the same problem, if any.
Same(r, key) == {f \in DOMAIN finding : finding[f].run = r /\ finding[f].key = key}

Observations(f) == {o \in DOMAIN observation : observation[o].finding = f}

\* Variant: the last report's severity wins.
Merged_Last(row, severity) ==
    [row EXCEPT !.severity = severity, !.state = IF @ = "rejected" THEN "candidate" ELSE @]

\* Variant: a verdict outlives new evidence.
Merged_KeepsVerdict(row, severity) ==
    [row EXCEPT !.severity = IF severity > @ THEN severity ELSE @]

\* A known problem seen again: the worse severity, and a rejection is reopened.
Merged(row, severity) ==
    [row EXCEPT !.severity = IF severity > @ THEN severity ELSE @,
                !.state    = IF @ = "rejected" THEN "candidate" ELSE @]

\* recordFinding of a new observation id.
RecordFinding(id, t, item, rule, severity) ==
    LET key == Key(rule, item)
        r   == surface[item[1]].run
    IN
    /\ InState(t, "running") /\ item \in plan[t]
    /\ id \notin DOMAIN observation
    /\ Cardinality({o \in DOMAIN observation : observation[o].task = t}) < MaxTaskObservations
    /\ \E canonical \in (IF Same(r, key) = {} THEN {id} ELSE Same(r, key)) :
         /\ finding' = Put(finding, canonical,
              IF Same(r, key) = {}
              THEN [run |-> r, key |-> key, severity |-> severity, state |-> "candidate"]
              ELSE Merged(finding[canonical], severity))
         /\ observation' = Put(observation, id,
              [finding |-> canonical, task |-> t, item |-> item, severity |-> severity])
    /\ UNCHANGED <<lifecycle, surface, plan, coverage, judged, accepted>>

\* setFindingState: a candidate, while a task that observed it still runs.
SetFindingState(f, verdict) ==
    /\ f \in DOMAIN finding /\ finding[f].state = "candidate"
    /\ run[finding[f].run] = "running"
    /\ \E o \in Observations(f) : task[observation[o].task] = "running"
    /\ finding' = [finding EXCEPT ![f].state = verdict]
    /\ judged' = Put(judged, f, Observations(f))
    /\ UNCHANGED <<lifecycle, surface, plan, coverage, observation, accepted>>

\* Variant: a later row overwrites an earlier one.
Recordable_Overwrite(t, rows) == DOMAIN rows \subseteq plan[t]

\* Planned items only, and no row that disagrees with what was recorded.
Recordable(t, rows) ==
    /\ DOMAIN rows \subseteq plan[t]
    /\ \A item \in DOMAIN rows \cap DOMAIN coverage[t] : coverage[t][item] = rows[item]

\* recordCoverage: rows maps items to results; a reason goes with each result
\* but "executed", and is left out.
RecordCoverage(t, rows) ==
    /\ InState(t, "running") /\ DOMAIN rows # {}
    /\ Recordable(t, rows)
    /\ coverage' = [coverage EXCEPT ![t] =
                      [item \in DOMAIN @ \cup DOMAIN rows |->
                         IF item \in DOMAIN rows THEN rows[item] ELSE @[item]]]
    /\ UNCHANGED <<lifecycle, surface, plan, finding, observation, judged, accepted>>

-----------------------------------------------------------------------------
(* Conclusions.                                                            *)

\* The distinct findings task t observed, with the worst severity it saw.
Evidence(t) == {observation[o].finding : o \in {p \in DOMAIN observation : observation[p].task = t}}

SeenBy(t, f) == {observation[o].severity :
                   o \in {p \in Observations(f) : observation[p].task = t}}

Worst(t, severity) ==
    {f \in Evidence(t) : severity \in SeenBy(t, f) /\ \A s \in SeenBy(t, f) : s <= severity}

\* Variant: only the rows that exist are looked at.
FullyExecuted_Recorded(t) ==
    \A item \in plan[t] \cap DOMAIN coverage[t] : coverage[t][item] = "executed"

FullyExecuted(t) ==
    /\ plan[t] # {}
    /\ \A item \in plan[t] : item \in DOMAIN coverage[t] /\ coverage[t][item] = "executed"

\* Variant: the ids are checked against the claim's own count.
Matches_CountOnly(t, claim) == Cardinality(claim.ids) = Cardinality(Evidence(t))

\* The claim's ids and counts are those of the stored observations.
Matches(t, claim) ==
    /\ Cardinality(Evidence(t)) <= MaxFindingIds
    /\ claim.ids = Evidence(t)
    /\ \A s \in Severities : claim.count[s] = Cardinality(Worst(t, s))

\* completeTask with status "completed": the whole plan executed, a clean
\* process and a claim that matches the rows.
CompleteTask(t, claim) ==
    /\ InState(t, "running")
    /\ FullyExecuted(t) /\ claim.planned = Cardinality(plan[t])
    /\ claim.clean
    /\ Matches(t, claim)
    /\ task' = [task EXCEPT ![t] = "completed"]
    /\ accepted' = Put(accepted, t, claim)
    /\ UNCHANGED <<run, home, surface, plan, evidence>>

\* completeTask with any other status: taken as reported, nothing compared.
CloseTask(t, status) ==
    /\ InState(t, "running")
    /\ task' = [task EXCEPT ![t] = status]
    /\ UNCHANGED <<run, home, surface, plan, evidence, accepted>>

\* Variant: tasks that never started are not counted.
AllCompleted_Started(r) ==
    \A t \in TasksOf(r) : task[t] # "queued" => task[t] = "completed"

AllCompleted(r) ==
    /\ TasksOf(r) # {}
    /\ \A t \in TasksOf(r) : task[t] = "completed"

\* finishRun
FinishRun(r, status) ==
    /\ run[r] = "running"
    /\ status = "completed" => AllCompleted(r)
    /\ run' = [run EXCEPT ![r] = status]
    /\ UNCHANGED <<task, home, surface, plan, evidence, accepted>>

-----------------------------------------------------------------------------
Next ==
    \/ \E r \in Runs :
         \/ CreateRun(r)
         \/ \E batch \in Table(Surfaces, Places) : AddSurfaces(r, batch)
         \/ \E t \in Tasks, items \in SUBSET Items : CreateTask(t, r, items)
         \/ \E status \in Closings : FinishRun(r, status)
    \/ \E t \in Tasks :
         \/ StartTask(t)
         \/ \E id \in FindingIds, item \in Items, rule \in Rules, severity \in Severities :
              RecordFinding(id, t, item, rule, severity)
         \/ \E rows \in Table(Items, Reported) : RecordCoverage(t, rows)
         \/ \E claim \in Claims : CompleteTask(t, claim)
         \/ \E status \in TaskClosings \ {"completed"} : CloseTask(t, status)
    \/ \E f \in FindingIds, verdict \in Verdicts : SetFindingState(f, verdict)

Spec == Init /\ [][Next]_vars

-----------------------------------------------------------------------------
(* Safety.                                                                 *)

\* "completed" is never a mere claim: a completed run has tasks, every one of
\* them is completed, and every item any of them planned was executed.
CompletedRunIsEvidenced ==
    \A r \in Runs : run[r] = "completed" =>
      /\ TasksOf(r) # {}
      /\ \A t \in TasksOf(r) :
           /\ task[t] = "completed"
           /\ \A item \in plan[t] : item \in DOMAIN coverage[t] /\ coverage[t][item] = "executed"

\* What a completed task claimed is what the rows say, now and not only when it
\* closed: no later observation, of any task, adds to or changes its evidence.
AcceptedClaimStands ==
    \A t \in DOMAIN accepted :
      /\ task[t] = "completed" /\ accepted[t].clean
      /\ accepted[t].ids = Evidence(t)
      /\ \A s \in Severities : accepted[t].count[s] = Cardinality(Worst(t, s))

\* What a run and a task were closed as is what their rows say, then and later.
ConclusionsStand == CompletedRunIsEvidenced /\ AcceptedClaimStands

\* A finding's severity is the worst any task ever observed for it: it is
\* never below an observation and always one of them.
SeverityIsWorst ==
    \A f \in DOMAIN finding :
      /\ \A o \in Observations(f) : observation[o].severity <= finding[f].severity
      /\ \E o \in Observations(f) : observation[o].severity = finding[f].severity

\* One problem is one finding, and one finding is one problem: however many
\* tasks and places report it, two findings of a run never share a key, and
\* every observation of a finding is of its run and its key.
OneFindingPerProblem ==
    /\ \A f, g \in DOMAIN finding :
         finding[f].run = finding[g].run /\ finding[f].key = finding[g].key => f = g
    /\ \A o \in DOMAIN observation :
         LET f == observation[o].finding  s == observation[o].item[1] IN
         /\ f \in DOMAIN finding
         /\ finding[f].run = surface[s].run
         /\ finding[f].key[2] = NormalPlace[surface[s].place]

\* The evidence of a run is its own: an observation's task, finding and surface
\* are of one run, though ids are global to the database.
EvidenceStaysInRun ==
    \A o \in DOMAIN observation :
      home[observation[o].task] = {finding[observation[o].finding].run}

\* A rejection has seen all the evidence: a finding is "rejected" only while no
\* observation has come in after the verdict.
RejectionSawAll ==
    \A f \in DOMAIN finding :
      finding[f].state = "rejected" => judged[f] = Observations(f)

\* Severity and verdict follow the evidence, in whatever order it comes.
FindingsFollowEvidence == SeverityIsWorst /\ RejectionSawAll

\* Runs and problems that share a database and its ids are kept apart.
SharingKeepsApart == OneFindingPerProblem /\ EvidenceStaysInRun

(* What a step may never do.                                               *)

\* Coverage and observations are append-only: a recorded error is never turned
\* into an execution by a later row.
EvidenceAppendOnly ==
    [][/\ \A t \in Tasks : \A item \in DOMAIN coverage[t] :
            item \in DOMAIN coverage'[t] /\ coverage'[t][item] = coverage[t][item]
       /\ \A o \in DOMAIN observation :
            o \in DOMAIN observation' /\ observation'[o] = observation[o]]_vars

\* Once a run has finished, with tasks still running or not, nothing of it
\* changes: no row of its tasks, coverage, findings or observations.
FinishedRunFrozen ==
    [][\A r \in Runs : run[r] \in Closings =>
         /\ run'[r] = run[r] /\ TasksOf(r)' = TasksOf(r)
         /\ \A t \in TasksOf(r) : task'[t] = task[t] /\ coverage'[t] = coverage[t]
         /\ \A f \in FindingIds :
              f \in DOMAIN finding /\ finding[f].run = r =>
                finding'[f] = finding[f] /\ Observations(f)' = Observations(f)]_vars

\* What has been recorded stands, in a run that goes on and in one that is over.
RecordsStand == EvidenceAppendOnly /\ FinishedRunFrozen

-----------------------------------------------------------------------------
Lifecycle == INSTANCE RunLifecycle

\* The database, with its plans and evidence, keeps the lifecycle's promise.
KeepsLifecycle == Lifecycle!Spec
=============================================================================
