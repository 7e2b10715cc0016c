# Verification of wakeio-security-ci

wakeio-security-ci is a TypeScript tool that reviews a repository and an owned test API for security problems. Most of
it is stateless analysis of text. Its stateful core is the *plan run*: a reviewed plan names several dynamic engines, a
controller runs them with a few concurrent workers, admits every outbound request through one queue, records what was
planned, executed and observed in a SQLite database, and publishes a result that is only allowed to pass when the
records support it. What can go wrong there depends on the order of awaits, timers, signals, failures and kills, and
that is what this project specifies in TLA+, checks with TLC and proves with TLAPS.

Paths below are relative to the repository, whose root is mapped as `src/` (so `src/src/agent-dast/store.ts` is the
repository's `src/agent-dast/store.ts`).

## 1. Inventory

For each part: the state it keeps, its operations, who calls it, what is hard, and what makes it correct.

### The plan run

**Request admission** (`agent-dast/admission.ts`, class `RunAdmission`).
State: the promise chain `tail`, the run-wide `count` and `nextAt`, the abort controller, a map of task snapshots with a
state per attempt. Operations: `bindTask`, `reserve`, a permit's `addBytes` and `finish`, `close`, the deadline timer,
the caller's and the reservation's signals. Called by the egress gate and the native prober, before each request they
send. Hard: a reservation checks the run, sleeps, and checks again while others reserve, finish and abort; one abort
settles attempts of every task at once; waits are fractional, timers are not.
Correct when: the budget is shared and never exceeded, the counters of each task add up at every instant, nothing is
admitted after the deadline or after a stop, and every reservation and permit settles.

**Run store** (`agent-dast/store.ts`, class `RunStore`).
State: the tables `runs`, `surface`, `tasks`, `coverage_plan`, `coverage`, `findings`, `finding_observations`.
Operations: `createRun`, `addSurfaces`, `createTask`, `startTask`, `recordFinding(s)`, `setFindingState`,
`recordCoverage`, `completeTask`, `finishRun`, and readers. Called by the plan runner. Hard: the calls may come in any
order, repeated, late, from several tasks, over ids the caller chose; conclusions must follow from rows.
Correct when: a completed run has executed everything it planned, a completed task's claim is and stays what the rows
say, a finding is one problem with the worst severity seen, a rejection has seen all the evidence.

**Plan runner** (`agent-dast/runner.ts`) and **plan command** (`agent-dast/cli.ts`).
State: the shared index `next`, the array of task summaries, `deliveryFailed`, the output directory. Operations:
`worker`, `storeTask`, `closeFailedTask`, `writeReports`, the sweep, `finishRun`, publication of report, manifest and
receipt; then the process exit code. Calls the store, the admission queue and the engines. Hard: workers interleave at
every await; storing, reporting and publishing fail part of the way; the run is cancelled, expires or is killed between
any two of them.
Correct when: a receipt stands for files that exist, a passing code stands for a completed run, a failed run leaves no
receipt, every task is accounted for, and the run ends.

**Egress gate** (`dast-egress.ts`).
State: `forwarded`, `blocked`, `bytes`, the stop reason, sockets and in-flight requests, one generation of the target
per phase. Operations: `onRequest`, response, error, close and timeout handlers, `bind`, `close`. Every request of the
Schemathesis child crosses it. Hard: the caps are checked, the admission queue is awaited, and they are checked again;
which handler settles a permit depends on event order; `close` must reach sockets that came late.
Correct when: the caps hold, each permit and each lost exchange is accounted for as the call ended, a call that is refused after its
wait is told of by the stop reason, and `close` returns with nothing open.

**Native SQL prober** (`dast.ts`, `dast-execution.ts`) and **URL network** (`url-network.ts`).
State: the phase, a ledger row per request, the identity controls, the first failure, a request and a body budget, the
abort signal with its cause. Operations: the fixed request plan of a profile, `fetchResource` and `postJsonResource` over
`requestPinned`, `readResponseBody`, the judgement, the outcome, and `sanitizeDastExecution`. Runs inside the plan run, or
alone. Hard: the deadline and the budget are checked before a DNS lookup, an admission wait, a connection and a body and
may be stale after each; a lost connection falls over to the next address and is charged again; a cut in any phase has to
leave a ledger that the sanitizer, written apart from the producer, accepts.
Correct when: an "observed" stands for controls and probes that all answered, the ledger is valid and adds up to what the
run was charged, and a run that is cut says so, whatever failed after the cut, and concludes nothing.

**Process supervision** (`source/process.ts`, `actions/run-plan/supervise.mjs`).
State: timers, output limits, the reason, whether exit, close and cleanup were seen; in `supervise.mjs` also the
processes it owns. Operations: `runProcess`, `runAgentProcess`, `runStrictProcess`, `superviseCli`. Every external tool and
the CLI of the Action are run through them. Hard: exit, pipe close, overflow, timeout and cancellation in any order; a
descendant may hold the pipes or outlive the child; signals may be refused and listings fail.
Correct when: a result a caller accepts holds the whole output and the child's own exit, `cleanupConfirmed` is true, no
timer is left to signal a recycled group, and there is always a result.

**Plan action wrapper** (`actions/run-plan/run.mjs`).
State: the delivery status, the receipt it owns, the appended outputs. Operations: `verifyPublication`, receipt, `outputs`,
step summary, signal handlers. Calls `superviseCli`. Hard: cancellation and failed writes at every await between the
receipt and the exit.
Correct when: a delivered run has a whole receipt, true outputs and no signal, and any other takes both back.

**API policy run** (`api.ts`, `api-execution.ts`).
State: the ledger with a row per planned request, what each actor's identity returned before and after the cases, whether
principals were reused, the exposures found, request and body budgets, the flag `incomplete`, the cause of the abort. Operations:
`requestPlan`, `recordStep` around each control or denial, `requestApi`, `attachExposureVerification`,
`finishApiExecutionLedger` and its sanitizer. Runs alone or as a phase of the state pilots. Hard: whether a denial counts
depends on controls that came before it and on others still to come; a failed owner's control skips the rest of its case; any
request may fail over, be refused, or be cut; the flag, the ledger and the sanitizer each have an opinion of whether the run was whole.
Correct when: a completed check had every control and every denial, a verified exposure stands between controls that all
passed, and the ledger is one the sanitizer accepts however the run was cut.

### The other commands

| part | state | hard behaviour | what makes it correct |
|---|---|---|---|
| API state pilots (`api-state*.ts`, `api-write-*.ts`) | phase, observer reply | worker that dies between write and read-back | a difference is reported only from a complete pair |
| Schemathesis, Nuclei | child process, output limits | supervision | as above |
| URL scan (`url*.ts`) | queue, visited, request and byte budgets | budget cut in the middle of a page | a cut is reported as incomplete |
| source collection (`source/collector.ts`) | walk stack, counters | limits at a boundary | complete means no limit was hit |
| source analysis (`source/*.ts`) | none between calls | none that depends on order | examples |
| report gate and writers (`report*.ts`) | none | partial output | exit 2 dominates 1 dominates 0 |
| comparison (`compare.ts`) | none | incomplete side | "resolved" only against a complete report |
| advice, repair, hand-off (`agent-advice*.ts`, `repair*.ts`, `source-handoff.ts`) | one child process | supervision | |
| main command, doctor, scaffolding, action | none | none | |

### How they interact

The runner creates one admission queue and one store per run. A worker binds its task to the queue, runs its engine,
and the engine's every request waits for a permit. When the engine has settled, the worker reads the task's snapshot,
registers plan, coverage and findings in the store (a file write in the middle), and writes the task's reports. After
`Promise.allSettled` the runner sweeps what no worker finished, finishes the run in the store, and publishes. The command
turns the result and the signal into the exit code. Signals reach all of them: the caller's, the run's own deadline
timers, and `close`.

## 2. Modules

| module | models | kind |
|---|---|---|
| `AdmissionBudget` | what admission promises: a budget that can be stopped | abstract |
| `RunAdmission` | `admission.ts`, whole class | detailed, implements `AdmissionBudget` |
| `RunLifecycle` | what the database promises about runs and tasks | abstract |
| `RunStore` | `store.ts`, every transaction | detailed, implements `RunLifecycle` |
| `PlanRun` | `runner.ts` from the claimed directory to the exit code in `cli.ts` | composed with `RunLifecycle` as its database |
| `EgressGate` | `dast-egress.ts`, the proxy with an admission queue | composed with `AdmissionBudget` as its queue |
| `NativeDast` | `dast.ts` over `url-network.ts`, and the sanitizer of `dast-execution.ts` | composed with `AdmissionBudget` as its queue |
| `ProcessSupervision` | `source/process.ts`, one call in one of three lanes | detailed |
| `PlanAction` | `run.mjs` over `supervise.mjs` | detailed |
| `ApiPolicyRun` | `runApiPolicy` of `api.ts`, and the sanitizer of `api-execution.ts` | detailed |
| `RunAdmissionProofs`, `RunStoreProofs`, `PlanRunProofs`, `EgressGateProofs`, `NativeDastProofs`, `ProcessSupervisionProofs`, `PlanActionProofs`, `ApiPolicyRunProofs` | theorems about the module each is named after | proofs |
| `MCRunAdmission`, `MCRunStore`, `MCPlanRun`, `MCEgressGate`, `MCNativeDast`, `MCProcessSupervision`, `MCPlanAction`, `MCApiPolicyRun` | small instances | for TLC |

### RunAdmission and the code

The promise chain is `tail`, a sequence of reservations whose promise has not settled. Only its head runs: `HeadRuns` is
the first synchronous stretch of `admit` (lines 66-76) and ends in a refusal, an admission, or a sleep; `HeadWakes` is the
stretch after the `await delay`, with its second check; `HeadAborted` is the delay rejecting on the combined signal. `Reserve`
only joins the chain, whatever the state of the run, because `reserve` does. One action is one turn of the event loop:
`Close` settles the pending attempts of every task in the same step, because abort listeners run synchronously.

`now` is `Date.now()`. `1000 / ratePerSecond` is a fraction, so `nextAt` counts `Grain`-ths of a millisecond, and the
timer truncates and never arms less than 1 ms, as Node does. `TimerSlack` is by how much `Date.now()` may see a timer
fire early, because timers run on another clock; `DeadlineFires` uses it too, so the model has a deadline timer that fires
before the deadline, after it, or late. The attempt's method, URL and error text are left out: metadata is valid or not.

`ordinal` is the code's; `admissions` is a history variable.

### RunStore and the code

A table is a function whose domain grows; the status columns of runs and tasks are total with `"absent"` for no row, so
that they are the variables of `RunLifecycle`. Each operation of the class is one `BEGIN IMMEDIATE` transaction on a
synchronous connection: one action. A call the code refuses is rolled back and is a stuttering step, and an exact
repetition is accepted and changes nothing. `recordFindings` is its entries in order or nothing; one entry is one action
here, which allows every prefix to be seen and so more states than the code. Places are model values, and
`NormalPlace` is the collapse of id-like path segments. `completeTask('completed')` takes a worker's claim from `Claims`
and compares it with the rows as `validateCompletion` does; `accepted` and `judged` are history variables.

### PlanRun and the code

`step[t]` is where the actor that has task `t` stands, `main` where the controller stands. A step is a stretch between two
awaits or one database transaction: the code runs several transactions in one turn, but each commits by itself and a
`SIGKILL` between two of them is possible, so `Kill` is enabled everywhere. What may fail does: every store call, every
report or publication write, the engines, the worker's own code outside its `try`, even the unlink of the receipt.
Cancellation, expiry and the late timer are three separate steps, because `stopped` is read from the clock and
`runtime.signal` from the timer. The engine is a choice of outcome (`Executed`), its report's gate is 0, 1 or 2.

The database is `Db == INSTANCE RunLifecycle`: its guards are the store's, so that a call the store would refuse is not
a step. What the code relies on is then a property: `NeverRefused` says that the calls of `storeTask`, and the `finishRun` of a run the
controller takes for complete, find the rows as they need them, whatever failed calls, dead workers and the sweep left there before.

### EgressGate and the code

A call is one request of the engine, `stage[c]` is how far `onRequest` has come with it, `down[c]` is the response to the
engine and `up[c]` the request to the target. An end that is destroyed is not closed yet: its "close" handlers run in a
later turn and in any order, as steps of their own (`UpCloses`, `DownCloses`). An "error" and the "close" that follows it in
the same turn are one step (`Lose`). When a permit is granted the continuation after the `await` runs before any other
event: every other action is disabled (`Idle`) until `GiveBack` or `Forward` has been taken. Which check a request meets,
on arrival (`Barred`) or after its wait (`Withheld`), is kept as in the code, including where the two differ. A refusal after the
wait (`Deny`, `GiveBack`) stops the gate only for the run's budget or the gate's own cap: `Denial` and `Overtaken` are those two lines, and
`RefusalsAreTold` what they are for, since a scan without a stop reason is reported as whole. The cap on generated calls stops the gate on
arrival (line 200) but not after the wait (line 220), and the property excepts it: the authenticated run compares the worker's records
with the wire (`schemathesis-auth-run.ts` 228-235), and a record of a request that was not sent does not pass there.

The admission queue is `Budget == INSTANCE AdmissionBudget`, the abstract module `RunAdmission` is shown to implement; the
tasks that share the run are `Others`, which take and settle permits at will. CONNECT is not modelled, since a gate with
an admission queue refuses it; nor are header rewriting and the client that the controller uses for its own calls.

### NativeDast and the code

`steps` is the ledger as it grows, so the step under way is `Len(steps) + 1` and its phase is `Plan`'s, as in the loop over
`dastRequestPlan`. `at` is where that step stands; one action is the stretch from one await to the next, and the checks a
stretch makes are its guards (`Barred` before the admission wait, `Withheld` after it, `Stopped` after the body). Signals
are aborted only in an await (`Idle`), but the clock (`Expire`, `RunExpires`) goes on everywhere: the code reads
`Date.now()` several times in one stretch. The timer of the control may fire a moment before the clock it reads reaches the
deadline, so an abort for "deadline" does not wait for `expired`.

`Fail` is the catch clause with the rest of the loop: once `firstFailure` is set the remaining rows are filled in with no
await between them. The first failure is taken from the cause of the abort, then from the clock, then from the error, and
that order is kept (`Reason`), because a row and the conclusion must name the same. Answers are the classes of the oracle;
a status is ok, not ok, or a number outside 100..599. `Sane` is the sanitizer, translated from `dast-execution.ts` and not
from `dast.ts`: the property is that the two agree. The plain profile has conclusions of its own (`ValueOutcome`,
`HttpAttempts`, `SaneV1`), the others derive them from rows.

That order is also what `CutConcludes` is about: an abort makes the await under way fail, often with an error of its own, and a run that
named that error, or judged the answer it still got, would not tell of the cut.

The queue is `Budget == INSTANCE AdmissionBudget`; `RunBudget` is what the other tasks of the run leave.

### ProcessSupervision and the code

The supervisor is one record, and each handler is a function from it to the next (`Stop`, `Finish`, `Check`, `Taken`,
`Looked`), since in each lane the handlers share those closures. Where the lanes differ, the difference is a conjunct:
`runProcess` keeps a flag for every cause and starts its shutdown over on a second one, the other two keep the first and
do not. Timers are counters: a variable that holds a timer refers to the last one set, so a shutdown begun twice has
one that nobody clears (`AllBut1`). The child, its group and the pipes are the environment: `Die` and `Disperse` take
no notice of signals, and `close` comes when nobody holds the pipes, whether or not the group has gone. The strict lane takes its first
sample in the turn of the spawn, and may find nobody (`Start`). What the callers of
the three lanes require of a result before they take it for a run of the tool is `Accepted`, from those callers.

### PlanAction and the code

`Procs` is a small tree of processes: the CLI, an engine that leads a group, the engine's helper in it. `Visible` is what a
listing adds to the known: a process whose chain of parents up to a known one is alive, because an orphan is given another
parent. `sup` is the record of `superviseCli`; its timers are a set. The first `finish` ends the wait for the child, and what follows the
wait clears them (`Settle`). The listeners of exit and close stay: a child that ends after the settlement timer gave up on it still
starts the close timer, which nobody clears again, and which kills what is left when it fires (`Spawned`, the phases in which they are
heard). A clean result has no timer, because its exit and close came before. A listing may fail, and then observes nothing and spoils
`cleanupConfirmed`.
`main` takes the result in the turn that returns it (`Onward`) and then goes from one await to the next. `Verify` is the
whole of `verifyPublication`, whose answer depends on what the CLI published; `Fact` is `requireFact`, which fails once the
wrapper is cancelled. Without a `GITHUB_OUTPUT` the outputs are not written at all (`Said`). `Catch` stands for both places that take the receipt back; the second also rewrites the outputs
(`Again`), and a failure there is ignored, as in the code, and remembered in the history variable `failed`.

### ApiPolicyRun and the code

A policy fixes its `Plan`; `next` is the ordinal of the step under way, and `at` tells whether its request has begun. `End` is
the second half of `recordStep` with what the caller does with the result, up to the next request: a failed owner's control
marks the rest of its case and skips it, the last identity of a phase compares the principals (`Shared`), and an abort seen
there spoils the run. Three ends of a step lead to it: the request is never begun (`Refuse`, `NotStarted`), fails (`Fail`) or is
answered (`Respond`). What happens within a request is `NativeDast`'s subject; here it makes attempts, each charged, and a failure
keeps the order in which `requestFailureReason` looks for its cause. An answer to a denial is a class of status and a class of body,
and `Denies` is the sequence of early returns of `checkDeny` over these classes. `who` holds the principal an identity
returned, the right one, another actor's or none, since reuse is found among wrong answers too. `Finish` is the rest of the run:
the clock is read once more, each actor is looked at again, the ledger is finished. `Sane` is the sanitizer, translated from
`api-execution.ts`; `ControlsPassed` is the verdict on one exposure.

## 3. Runs

| run | instance | what it shows |
|---|---|---|
| `admission` | 2 tasks, 3 reservations, budget 2, interval 2 2/3 ms, deadline 3 ms, slack 1 ms, fairness | the queue's accounts, pacing and order, that it implements the abstract budget, and that everything settles |
| `admission_rate` | 1 task, 3 calls, 6 2/3 ms (150/s) | a violation: the configured rate is exceeded (section 6) |
| `store_evidence` | 1 run, 2 tasks, 2 checks, 2 observations, 2 severities, verdicts | findings and conclusions are what the rows say, records stand, and the store implements `RunLifecycle` |
| `store_sharing` | 2 runs, 2 tasks, shared ids, 2 surfaces over 3 places, two of which collapse | nothing crosses between runs; a finding is one problem and a problem one finding |
| `plan_run` | 3 tasks, 2 workers, all failures, fairness | what a receipt, a pass and the exit code stand for, that the database refuses nothing the controller relies on, and that the run ends |
| `egress` | 3 calls, cap 2, run budget 3 shared with another task | a permit is settled as its call ended, a loss is counted once, and a refusal after the wait is told |
| `egress_auth` | authenticated: 2 generated calls and a control, fairness | the caps hold after the wait; `close` returns and leaves nothing open |
| `egress_loss` | authenticated: 2 generated calls | a violation: a lost response does not stop a waiting call (section 6) |
| `native_dast` | plain, authenticated and JSON profiles, 4 or 13 requests, 2 addresses, one failover, run budget 12, fairness | the ledger is one its sanitizer accepts, charges reconcile, and a run that is cut ends, says so and concludes nothing |
| `processes` | the three lanes, 4 bytes of output in chunks of 2 and 3, fairness | what an accepted result stands for, what outlives it, and that there is one |
| `api_policy` | 3 policies, up to 8 requests, 2 addresses, 2 surprises | the ledger is one its sanitizer accepts, a completed check had every control, a verified exposure had its own |
| `plan_action` | the CLI, an engine in its own group and its helper, fairness | what a delivered run stands for, what is taken back, and that the wrapper ends |

**Why the bounds are enough.** *Admission*: the interesting cases are a head that sleeps while another task's call joins
behind it, a budget spent by one task and asked for by the other, and a call that is one too many; three calls of two
tasks with a budget of two has all of them, and the deadline falls inside the second wait. A deadline of three milliseconds
holds one interval and lets a second wait run into it; the slack lets the timer fire on either side. *Store*: a merge needs two observations of a finding,
with a verdict between them a rejection that is reopened, and a disagreement between tasks two tasks; a plan of two items is the smallest that can be half
executed; isolation needs two runs. One run has the plans and observations of one run, the other two runs over shared ids, so that each can be exhausted.
*PlanRun*: two workers and three tasks is the least at which a task waits, is drawn by a worker that survives, or is never
drawn since both have died.
*EgressGate*: three calls against a cap of two have one too many; two may pass the first check together and only one of
them the second; answers of one-byte chunks against a total of two reach the byte limit from one call and from two.
A run budget of three lets all three calls have their permits, so that the third meets the gate's cap after its wait, and the other task
may take one of them, so that a call meets the run's.
*NativeDast*: 13 requests are enough for every plan and one failover, 4 end in the first round of each; a run budget of 12 ends a JSON
run on its last request. Two addresses have a first and a last one, and failovers beyond the first repeat it. The answers to one of the two
baselines of a round vary and the other's are usual: which control is off does not matter to a conclusion over all of them. A probe's answer
is of the true or of the false class: one of neither leaves the run inconclusive, as two answers to one probe that disagree do, and the theorem
about the ledger is for answers of any class.
*ProcessSupervision*: with chunks of 2 and 3 against 4 bytes the limit is met exactly, passed by one and passed after a stop.
*PlanAction*: the engine is seen only through the CLI, the helper only through the engine or its group, which are the ways a
descendant is found and lost.
*ApiPolicyRun*: two actors who may answer for each other, a case that fails while another goes on, a legacy policy, and a longest plan
with as many steps as requests, so that one failover costs the last one. A *surprise* is a failover, a failure nothing
forces, an exposure, or an answer that fails its control: two are enough for a control to fail on each side of an exposure, for two causes to meet
in one run, and, since signals and expiry are not counted, for a cut after them. Symmetry is used only for ids, which the properties treat alike, and never with liveness.

`CHECK_DEADLOCK FALSE` is set throughout: reservations are bounded, a database comes to an end with its runs, a
process exits or is killed, an engine makes no more calls once its gate is closed, a prober's run and a supervised call end with their
result, a policy's run with its check, and the wrapper exits.

**Bounds named in the models.** `Requests`, `Horizon`, `ByteSizes` (admission); `MaxTaskObservations`, `Claims` and
`Reported`, the coverage results a worker reports (store); `TaskCount` (plan run); `Calls`, `Others`, `ChunkSizes` and
`ChunkBound` (egress); `Answers`, `FailoverBound`, `RunBudget`, `MaxChoices`, `Addresses` (native prober); `Sizes`, `ChunkBound`, `Cap`
(processes); `Procs` (plan action); `Policies`, `Addresses`, `SurpriseBound` (API policy). `MaxRequests`, `MaxRunItems`, `MaxFindingIds`, `SafeBytes`, `Concurrency` are the code's own limits with
small values.

**Fairness.** *Admission*: the event loop runs every ready continuation (`HeadRuns`), every due timer and abort (`HeadWakes`,
`HeadAborted`, `DeadlineFires`), and time passes (`Tick`). Nothing is assumed of the holder of a permit, who may never call
`finish`: that is why the deadline is needed. *PlanRun*: some step of the controller or of a worker is taken as long as one can
be, which is what settled promises give. That an engine settles rests on the deadline every adapter is given. No
fairness is assumed of failures, cancellation or kills. *EgressGate*: what was destroyed closes, a closing server closes its
connections, and a continuation that is ready runs. No target has to answer and no engine has to read. *ProcessSupervision*: the call is refused or the
child spawned, and timers fire; nothing is assumed of the child, of its group, of a signal's effect or of what an observation
sees. *PlanAction*: `main` goes on when it can, and the timers that bound the child's life fire, with the loop that drains what
is left. *NativeDast*: some step of the run is taken as long as one can be, since the lookup, the wait for a permit, the connection and the body are
each ended by the signal or a timer of their own; nothing is assumed of signals or the clock. `ApiPolicyRun` states safety only. That neither prober
goes on for ever is a safety property, and proved (`RunsAreFinite`, section 4).

## 4. Proofs

Each `...Proofs` module proves theorems about the module it is named after, for every value of its constants: any tasks,
calls, ids, limits, plans, policies, trees of processes. They rest on the named assumptions of that module and nothing else, and TLC
evaluates those on every run. Three say more than that a constant has its type. `ProcsAssumption` of `PlanAction`: a process
other than the CLI has a parent, and is in its parent's group or leads one of its own. `AnswersAssumption` of `NativeDast`:
an "expected" answer is one an identity or an alternate control looks for. `PolicyAssumption` of `ApiPolicyRun` is what the policy
parser has made sure of: named actors and a case's denied actors are not repeated, a case has an owner that is not denied, and there is a case and a denial;
it also keeps the names of the model's own values, `Anonymous` and `"none"`, apart from the actors'. The others are types, finiteness, limits that are not zero, and
`MAX_DNS_ANSWERS`, the 32 addresses a lookup may return, without which a row could show more attempts than the sanitizer takes.

A safety theorem follows one pattern: an inductive invariant, checked by TLC on the module's instance before it was proved; a lemma
for each helper that says what it returns and leaves alone; a lemma per action; and a temporal step that joins them.

| module | theorem | property | inductive invariant |
|---|---|---|---|
| `RunAdmissionProofs` | `TypeCorrect`, `AccountsAlwaysReconcile`, `StoppedRunsSettle` | `TypeOK`, `AccountsReconcile`, `StoppedIsSettled` | `Accounts` |
| | `AdmissionsArePaced` | `PacedApart` | `Pace` |
| | `AdmissionsAreInTurn` | `AdmittedInTurn` | `Turns` |
| | `ClosedIsFrozen` | `ClosedAccountsFrozen`, an action property | `Accounts` |
| | `PromiseIsKept` | `KeepsPromise`, a refinement of `AdmissionBudget` | `Accounts` |
| `RunStoreProofs` | `TypeCorrect`, `ConclusionsAlwaysStand`, `FindingsAlwaysFollow`, `SharingIsApart` | `TypeOK`, `ConclusionsStand`, `FindingsFollowEvidence`, `SharingKeepsApart` | `StoreInv` |
| | `RecordsAlwaysStand` | `RecordsStand`, an action property | `StoreInv` |
| | `LifecycleIsKept` | `KeepsLifecycle`, a refinement of `RunLifecycle` | `StoreInv` |
| `PlanRunProofs` | `TypeCorrect`, `ReceiptAlwaysStands`, `PassIsAlwaysEarned`, `TasksAreAlwaysAccounted` | `TypeOK`, `ReceiptStands`, `PassIsEarned`, `TasksAreAccounted` | `PlanInv` |
| | `LifecycleIsUsed` | the runner's steps are steps of `RunLifecycle` | none needed |
| | `DatabaseNeverRefuses` | `NeverRefused`: no call is refused for the state of the rows | `Rows`, with `PlanInv` |
| | `RunsAreFinite` | every step takes away a move, of finitely many | `Rows` |
| `EgressGateProofs` | `TypeCorrect`, `OpensAreAlwaysBounded`, `ChargesAreAlwaysTrue` | `TypeOK`, `OpensAreBounded`, `ChargesAreTrue` | `GateInv` |
| | `RefusalsAreAlwaysTold` | `RefusalsAreTold` | `GateInv` |
| | `ForwardsAreCharged`, `BudgetIsKept` | the run's budget bounds what is forwarded; the gate's steps are steps of `AdmissionBudget` | `BudgetHolds` |
| `NativeDastProofs` | `TypeCorrect`, `ChargesAlwaysReconcile` | `TypeOK`, `ChargesReconcile` | `DastInv` |
| | `LedgerIsAlwaysValid` | `LedgerIsValid` | `LedgerInv`, over `DastInv` |
| | `CutIsAlwaysReported` | `CutIsReported`, the safety half of `CutConcludes` | `CutIsNamed`, over `DastInv` and `LedgerInv` |
| | `AttemptsAreCharged`, `BudgetIsKept` | the run's budget bounds the attempts; the prober's steps are steps of `AdmissionBudget` | `BudgetHolds`, with `DastInv` |
| | `RunsAreFinite` | every step lowers a measure of 3747 at most | `DastInv` |
| `ProcessSupervisionProofs` | `TypeCorrect`, `ResultIsAlwaysTrue`, `ResultIsAlwaysSilent` | `TypeOK`, `ResultIsTrue`, `ResultIsSilent` | `CallInv` |
| `PlanActionProofs` | `TypeCorrect`, `ReportIsAlwaysTrue` | `TypeOK`, `ReportIsTrue` | `ActionInv` |
| `ApiPolicyRunProofs` | `TypeCorrect`, `LedgerIsAlwaysSane`, `PassIsAlwaysEvidenced`, `FindingsAreAlwaysTrue` | `TypeOK`, `LedgerIsSane`, `PassIsEvidenced`, `FindingsAreTrue` | `IInv` |
| | `RunsAreFinite` | every step lowers a measure bounded by the plan and the request budget | `IInv` |

**Why the properties are not inductive by themselves.**

- *Admission.* `pending` is a natural number only because the ledger says there is something to subtract from. `Accounts` adds
  `ChainIsQueued`: the chain holds the queued reservations, each once; without it a step of the head could admit a
  reservation a second time. The counters are cardinalities of sets of reservations; lemma `Moves` says what moving one
  reservation from one status to another does to each of these sets, and each action is a case of it. `Settle`, which
  moves many at once, has lemmas of its own. `Pace` says that `nextAt` is one interval after the last admission and that a
  sleeping head's timer is due no earlier than that rounded down. `Turns` says that the chain is in the order of the calls and that
  whoever was admitted came before whoever still waits.
- *Store.* `TypeOK` says of evidence that it is of a started task's plan, which only the code keeps. `StoreInv` adds `Rows`, the referential integrity the code keeps by hand: a task has one run, its plan is of that run's
  surfaces, what was observed was planned, and a finding has the id, run and key of an observation. A run of which
  all tasks have completed stays so only because nothing reopens a task or plans one in a run that has finished.
- *Plan run.* `PlanInv` says what the conclusion has behind it at each of the controller's steps (a result only with its receipt,
  a code other than 2 only after the sweep), that a busy worker is one of the pool, and that the sweep closes one task at a time. `PassIsBacked`
  rests on the database's guards, since a run that is completed there cannot gain an uncompleted task. `Rows` says where a task's row
  stands, from where its actor does: the guards of the database are then true whenever a call is made that the controller does not expect to fail.
  So they hide no step of the code.
- *Egress gate.* `GateInv` says, call by call, how a permit, the place in `onRequest` and the two ends of the connection go together
  (`PermitFits`, `EndsFit`, `NotedFit`). That a lost exchange is counted once is then an equality of cardinalities: a handler
  that counts moves its call into `Lost`, and one that finds the call already ended or noted does neither. A waiting call has an open end or was
  broken off (`EndsFit`), which with the check a refusal came from says what tells of it; what tells is never taken back.
- *Native prober.* `Permits` says what the permit of each attempt is, from where the step under way stands; `Standing` what a
  stretch may rely on after a wait, of what was checked before it. `ChargesReconcile` follows by counting an interval.
  `LedgerInv` says what the prober's rows are while it runs (all passed, each starting where the last one ended, the attempts of the step
  under way known from the address it tries) and how the first failure cuts them. `PlanShape` says which phase is where in each profile's plan,
  `TotalIs` that the reader's running total is where each row ends, and `PlainOutcome` that the two ways the code judges the
  unauthenticated probes, from the values and from the rows, give one answer. That the sanitizer accepts follows row by row. `CutIsNamed`
  says that the failure of a run that was cut is the cut; that such a ledger concludes nothing is read off the row the failure cut.
- *Process supervision.* The handlers are functions of the supervisor's record, so `CallInv` is a predicate on a record and a child
  (`Good`), and a lemma for each function says that it keeps it. `Waits` is what holds of a call under way, `Done` of one that gave
  its result; a `lost` byte always comes with a cause, and the settle timers in being are fewer than the shutdowns begun.
- *Plan action.* `Supervised` says what the wrapper may take for granted of a child it was told about: that an end is final, and that
  no process nobody knows can make one in a group somebody knows. `Reported` says what the receipt and the outputs are, from where `main` stands.
- *API policy run.* The three properties speak of a run that is done, so each part of `IInv` says what of them is true already while the run is
  under way. `RowsAreTrue` is what a row's outcome, reason and status say together, and of the step they are for; `Untouched` that the
  rows ahead are as they were created; `SumsAre` that some function is where each row ends, that nothing in the plan passes what was
  counted, and that a row which blames the request budget ends at that budget; `FinalsAreFinal` that no request follows a row that says so; `CasesArePrepared` that a
  case goes on exactly when its owner's first control passed; `IdentitiesAreTrue` that whoever was itself has a row for it, and that
  whoever shared a principal is marked once a phase is over; `FlagIsTrue` that a flag still clear has every earlier step evaluated.
  What `Finish` adds, verification and the rows a failure cut, is then read off these parts, and `TotalIs` shows that the reader's running total is the
  function `SumsAre` asserts. The plan is a concatenation over a policy's cases, as many as it has: `NatSets` is induction over a
  set of naturals, and `Flattened`, `PlanOfIs`, `PlanIs` and `CaseIs` use it to say where each phase and each case is in every plan. (The library's induction theorems take an
  operator as a parameter, which no installed prover can instantiate; `NatSets` is the same principle about a set.)

**Refinement and composition.** `PromiseIsKept` and `LifecycleIsKept` show that the detailed modules implement the abstract ones, step by step:
initial states map to initial states, every action to an abstract one or to a stutter. The other half is that their users use them only as they allow: `BudgetIsKept`, of the gate and of the prober,
shows that every step of the composition is one of `AdmissionBudget` or leaves the queue alone, and `LifecycleIsUsed` the same of the runner and `RunLifecycle`. Together they justify
that the gate, the prober and the runner are modelled over the abstract queue and database. `ForwardsAreCharged` and `AttemptsAreCharged` are what the whole
gives: neither sends more than its run was granted, whatever the other tasks take. `DatabaseNeverRefuses` is what the runner gets from it: of
`createRun`, `createTask`, `startTask`, `completeTask` and `finishRun` none is refused, unless it is a call of `closeFailedTask`, which swallows it.

**Termination.** Three theorems called `RunsAreFinite` say that a run comes to an end, as far as safety can. In the probers a natural number,
bounded by the plan, the addresses and the request budget, is lowered by every step, be it a step of the run, an abort or the clock. In the plan runner the moves
each task has left, the controller's and the alarms still to come are such numbers: none ever grows and each step lowers one. A task that died or failed
does not start over, for the sweep takes it up on a path of its own that is shorter than what the worker had left. `RunEnds` adds to it, on TLC's
instance, that the runner does not stop half way. The queue, the gate, the supervisor and the wrapper have no such measure: they poll and sample as long as they live, or others use them at will.

**What the proofs changed.** `PlanAction` had no assumption about groups, and `ReportIsTrue` was not inductive: a process that no listing had
seen could have started one in a known group. Unix does not let it, and the assumption now says so. Four judgements (`Taken`, `ValueOutcome`, `ProbeOutcome`, `Denies`)
were written as `CASE` with overlapping guards; TLC takes the first, but the expression means any of them, and the proofs failed on the others. They are
now nested in the order of the code's early returns.

**A caution about `Len`.** The SMT encoding of tlapm 1.4.5 gives every function whose domain is an interval the length of a sequence, and a leaf that has both
`0..n` as a domain and a length in it could be proved from that alone. Every leaf of the eight modules was also proved with that axiom replaced by its true
direction (the domain of a sequence is `1..Len`), so that no theorem rests on it.

**Only model-checked, and why.**

- Liveness (`AllSettle`, `RunEnds`, `CloseReturns`, `CutConcludes`, `Resolves`, `ActionEnds`): fairness and ENABLED are out of the prover's reach. Of a
  run of a plan or of a prober it is proved that it takes finitely many steps, not that it takes the next one.
- The two properties that are violated (`RateHonoured`, `LossEndsAuthentication`), which are findings.

## 5. Hazards

`PROJECT.json` lists what is hard to test in this code, each at its line, with the properties that would catch it going
wrong. In short: state read before an await and used after it (admission's two checks, `complete` before `storeTask`);
counters settled by several handlers; producers and sanitizers written apart; exposures recorded before the controls that decide
them; exit, close, output and timers of a child in any order; conclusions over rows written in another order; partial failure of storing,
reporting and publishing; kills between transactions; a stop that comes during publication; fractional waits.

One of them no property covers: a call in the plain lane that is shut down twice forgets its first SIGKILL timer (`process.ts` 111), which may
fire after the process has gone. The code does this, nothing in the repository says otherwise, and `ResultIsSilent` excepts exactly that timer
while it states that every other of every lane is gone.

## 6. Findings

`admission_rate`: at 150 requests per second, the largest rate the command line accepts, an interval is 6 2/3 ms, the
timer's delay is truncated to 6 ms, and the next slot is counted from the time the timer fired: the run sends up to 166.7
requests per second. `actions/run-plan/action.yml`, the usage text in `cli.ts` and `docs/agent-dast-runner.md` state the
option as admissions per second. What the pacing does guarantee is `PacedApart`, which is proved.

`egress_loss`: `fail` in `dast-egress.ts` sets `authenticatedTransportStopped` so that "a lost response cannot authorize
another authenticated wire attempt". The check on arrival reads it; the check after the admission wait (lines 217-218)
repeats the other conditions and not this one. A request that was already waiting when the response was lost is forwarded.
The signals, the stop reason and the caps are looked at again: `OpensAreBounded`, which is proved, is what does hold after the wait.

## 7. Not modelled, and why

- Parsing and validation of plans, inputs, reports and URLs: stateless functions over text.
- Source analysis and the detectors: deterministic rules over syntax trees, a matter of examples.
- Rendering and redaction of reports.
- SQLite itself: a transaction is atomic. Schema migration is SQL text in one transaction.
- The engines (Schemathesis, Nuclei, the agent providers): other programs; the runner sees an outcome.
- In `RunAdmission`, the attempt metadata; in `RunStore`, sizes of batches and of text, and the readers; in `PlanRun`, the
  preparation of inputs before the output directory is claimed; in `EgressGate`, tunnels and headers.
- In `NativeDast`, policy parsing, TLS and address classification, and redirects, which the prober refuses. A server that answers
  with a status outside 100..599 makes the sanitizer reject the ledger, and the run is reported as an internal error: the code's
  choice, which `LedgerIsValid` excepts. The same holds of an API policy run, and `LedgerIsSane` excepts it.
- In `ApiPolicyRun`, policy parsing and preflight, the search for the canary in a body, `replay.ts`, and the capture session through
  which the state pilots share its budgets.
- In `ProcessSupervision`, finding the executable, its environment, and the text of `ps`.
- In `PlanAction`, the policy and path checks, which are one choice of outcome, and the text of the step summary, which is not rewritten
  when a run is taken back. An orphan that no listing ever saw is outside what `cleanupConfirmed` claims.

## 8. Plan

`RunAdmission`, `RunStore`, `PlanRun` and `EgressGate` carry the decisions of a plan run; `NativeDast`, `ProcessSupervision` and `PlanAction`
are what it runs and what runs it; `ApiPolicyRun` is the other prober. Next:

1. The state pilots, as two `ApiPolicyRun`s that share their budgets.
2. `ReportGate`: the gate as an operator over checks; the collector's walk and comparison states as algorithms against reference definitions.

Proofs: a measure for the gate's calls and the queue's reservations, relative to the steps of the other tasks; the pilots' ledger, once they are modelled.
