------------------------------ MODULE PlanRun -------------------------------
(***************************************************************************)
(* One run of a reviewed plan: runExecutionPlan of                         *)
(* src/src/agent-dast/runner.ts and its caller runPlanMain of cli.ts.      *)
(*                                                                         *)
(* A pool of workers takes the prepared tasks in order, executes each,     *)
(* registers what was observed in the run database and writes the task's   *)
(* reports.  When all workers have settled, the controller closes the      *)
(* tasks nobody finished, finishes the run in the database and publishes:  *)
(* run reports, a manifest, and last the receipt.  Any database call or    *)
(* file write may fail, the caller may cancel and the deadline may pass    *)
(* between any two awaits, and the process may be killed.                  *)
(*                                                                         *)
(* The database is RunLifecycle, which RunStore implements.  Each of its   *)
(* transactions is a step here: the code runs several in one turn, but     *)
(* each commits by itself, and a kill between two of them is real.         *)
(***************************************************************************)
EXTENDS Naturals, FiniteSets

CONSTANTS
    TaskCount,    \* prepared.length
    Concurrency   \* options.concurrency

ASSUME CountAssumption == TaskCount \in Nat \ {0} /\ Concurrency \in Nat \ {0}

Tasks   == 1..TaskCount
TheRun  == "run"

\* Math.min(options.concurrency, prepared.length)
Workers == IF Concurrency < TaskCount THEN Concurrency ELSE TaskCount

VARIABLES
    run, task, home,  \* the database, as in RunLifecycle
    cancelled,        \* options.signal.aborted
    expired,          \* Date.now() >= control.deadlineAt
    fired,            \* and the deadline timers have run
    main,             \* where the controller stands
    next,             \* index of the next task to take
    idle,             \* live workers at the top of their loop
    step,             \* step[t]: where the actor that has task t stands
    starts,           \* history: how often the engine of t was started
    gate,             \* gate[t]: the exit code of the task's report so far
    deliveryFailed,
    exit,             \* the exit code computed for the whole run
    manifest,         \* run-manifest.json is written
    receipt,          \* run-receipt.json: absent, opened or whole
    leftover,         \* history: unlinking it has failed
    result,           \* what runExecutionPlan returned
    code              \* the exit code of the process

database == <<run, task, home>>
stop     == <<cancelled, expired, fired>>
work     == <<next, idle, step, gate, starts>>
files    == <<manifest, receipt, leftover>>
outcome  == <<exit, result, code>>
vars     == <<database, stop, main, work, deliveryFailed, files, outcome>>

Db == INSTANCE RunLifecycle WITH Runs <- {TheRun}

MainSteps == {"boot", "work", "sweep", "publish", "manifest", "receipt",
              "fill", "confirm", "abort", "returned", "exited", "killed"}

\* waiting: not taken;  executing: the engine runs;  register, start, record:
\* storeTask;  close, closeStart, closeEnd: closeFailedTask;  report:
\* writeReports;  done: tasks[index] is set;  lost: its worker died.
Closing   == {"close", "closeStart", "closeEnd"}
Busy      == {"executing", "register", "start", "record", "report"} \cup Closing
TaskSteps == {"waiting", "done", "lost"} \cup Busy

Results == {"none", "published", "failed"}

\* Types of the controller's state.
TypeOK ==
    /\ run \in [{TheRun} -> Db!RunStatuses]
    /\ task \in [Tasks -> Db!TaskStatuses]
    /\ home \in [Tasks -> SUBSET {TheRun}]
    /\ cancelled \in BOOLEAN /\ expired \in BOOLEAN /\ fired \in BOOLEAN
    /\ main \in MainSteps
    /\ next \in 1..TaskCount + 1 /\ idle \in 0..Workers
    /\ step \in [Tasks -> TaskSteps] /\ gate \in [Tasks -> 0..2]
    /\ starts \in [Tasks -> Nat]
    /\ deliveryFailed \in BOOLEAN
    /\ exit \in 0..2 /\ code \in 0..2
    /\ manifest \in BOOLEAN /\ receipt \in {"absent", "opened", "whole"}
    /\ leftover \in BOOLEAN
    /\ result \in Results

\* The output directory has just been claimed.
Init ==
    /\ Db!Init
    /\ cancelled \in BOOLEAN /\ expired = FALSE /\ fired = FALSE
    /\ main = "boot"
    /\ next = 1 /\ idle = 0
    /\ step = [t \in Tasks |-> "waiting"]
    /\ gate = [t \in Tasks |-> 0] /\ starts = [t \in Tasks |-> 0]
    /\ deliveryFailed = FALSE
    /\ exit = 2 /\ code = 2
    /\ manifest = FALSE /\ receipt = "absent" /\ leftover = FALSE
    /\ result = "none"

-----------------------------------------------------------------------------
(* Cancellation, the deadline and the machine.                             *)

Over == main \in {"exited", "killed"}

\* control.signal.aborted || Date.now() >= control.deadlineAt
Stopped == cancelled \/ expired

\* runtime.signal.aborted: the admission queue has been closed.
Closed == cancelled \/ fired

Cancel ==
    /\ ~Over /\ ~cancelled
    /\ cancelled' = TRUE
    /\ UNCHANGED <<database, expired, fired, main, work, deliveryFailed, files, outcome>>

Expire ==
    /\ ~Over /\ ~expired /\ main # "boot"
    /\ expired' = TRUE
    /\ UNCHANGED <<database, cancelled, fired, main, work, deliveryFailed, files, outcome>>

TimerFires ==
    /\ ~Over /\ expired /\ ~fired
    /\ fired' = TRUE
    /\ UNCHANGED <<database, cancelled, expired, main, work, deliveryFailed, files, outcome>>

\* SIGKILL: what is on disk stays as it is.
Kill ==
    /\ ~Over
    /\ main' = "killed"
    /\ UNCHANGED <<database, stop, work, deliveryFailed, files, outcome>>

-----------------------------------------------------------------------------
(* Setting up.                                                             *)

\* openRunStore, createRun and run-start.json, then the worker pool.
Boot ==
    /\ main = "boot"
    /\ Db!CreateRun(TheRun)
    /\ main' = "work" /\ idle' = Workers
    /\ UNCHANGED <<stop, next, step, gate, starts, deliveryFailed, files, outcome>>

\* One of them throws, before or after the run's row is there.
BootFails ==
    /\ main = "boot"
    /\ Db!CreateRun(TheRun) \/ UNCHANGED database
    /\ main' = "abort"
    /\ UNCHANGED <<stop, work, deliveryFailed, files, outcome>>

-----------------------------------------------------------------------------
(* A worker and its task.                                                  *)

\* The actor that has t stands at s, and the process lives.
At(t, s) == step[t] = s /\ main \in {"work", "sweep"}

Goto(t, s) == step' = [step EXCEPT ![t] = s]

\* Variant: the index is read and advanced in two turns.
Taken_Stale(t) == t \in Tasks /\ t \in {next, next - 1}

\* index = next++
Taken(t) == t = next

\* The worker takes the next index, binds the task and starts its engine.
Take(t) ==
    /\ main = "work" /\ idle > 0
    /\ Taken(t)
    /\ next' = t + 1 /\ idle' = idle - 1
    /\ Goto(t, "executing") /\ starts' = [starts EXCEPT ![t] = @ + 1]
    /\ UNCHANGED <<database, stop, main, gate, deliveryFailed, files, outcome>>

\* observedGroup(...) && !runtime.signal.aborted
Complete(observed) == observed /\ ~Closed

\* The engine has returned or thrown.  A report of a complete group passes or
\* has blocking findings; any other gets an incomplete check, and gate 2.
Executed(t, observed) ==
    /\ At(t, "executing")
    /\ gate' \in {[gate EXCEPT ![t] = g] :
                    g \in IF Complete(observed) THEN {0, 1} ELSE {2}}
    /\ Goto(t, "register")
    /\ UNCHANGED <<database, stop, main, next, idle, starts, deliveryFailed, files, outcome>>

\* Something outside the worker's own try blocks throws: the worker is gone
\* and tasks[index] stays empty.
WorkerDies(t) ==
    /\ main = "work" /\ step[t] \in {"executing", "report"}
    /\ Goto(t, "lost")
    /\ UNCHANGED <<database, stop, main, next, idle, gate, starts, deliveryFailed, files, outcome>>

\* storeTask: addSurfaces and createTask ...
Register(t) ==
    /\ At(t, "register")
    /\ Db!CreateTask(t, TheRun)
    /\ Goto(t, "start")
    /\ UNCHANGED <<stop, main, next, idle, gate, starts, deliveryFailed, files, outcome>>

\* ... startTask ...
Start(t) ==
    /\ At(t, "start")
    /\ Db!StartTask(t)
    /\ Goto(t, "record")
    /\ UNCHANGED <<stop, main, next, idle, gate, starts, deliveryFailed, files, outcome>>

Concluded(t) == IF gate[t] = 2 THEN "partial" ELSE "completed"

\* ... recordCoverage, the evidence files and findings, and completeTask.
Record(t) ==
    /\ At(t, "record")
    /\ Db!CompleteTask(t, Concluded(t))
    /\ Goto(t, "report")
    /\ UNCHANGED <<stop, main, next, idle, gate, starts, deliveryFailed, files, outcome>>

\* Variant: the report is not told that storing failed.
Charge_Nothing(t) == UNCHANGED gate

\* The store_error check makes the task's report incomplete.
Charge(t) == gate' = [gate EXCEPT ![t] = 2]

\* Any call of storeTask throws: what was committed stays.
StoreFails(t) ==
    /\ \E s \in {"register", "start", "record"} : At(t, s)
    /\ Charge(t)
    /\ Goto(t, "close")
    /\ UNCHANGED <<database, stop, main, next, idle, starts, deliveryFailed, files, outcome>>

-----------------------------------------------------------------------------
(* closeFailedTask, for a worker or for the controller's sweep.            *)

\* Variant: the sweep also writes the task's report.
Leave_Report(t) == Goto(t, "report")

\* Where closeFailedTask returns: to the worker, or to the sweep, which writes
\* no report for the task.
Leave(t) == Goto(t, IF main = "sweep" THEN "done" ELSE "report")

\* createTask, or not: it may exist already, and its failure is swallowed.
CloseCreate(t) ==
    /\ At(t, "close")
    /\ Db!CreateTask(t, TheRun) \/ UNCHANGED database
    /\ Goto(t, "closeStart")
    /\ UNCHANGED <<stop, main, next, idle, gate, starts, deliveryFailed, files, outcome>>

CloseStart(t) ==
    /\ At(t, "closeStart")
    /\ Db!StartTask(t) \/ UNCHANGED database
    /\ Goto(t, "closeEnd")
    /\ UNCHANGED <<stop, main, next, idle, gate, starts, deliveryFailed, files, outcome>>

\* completeTask with an error result, or a row whose end stays unknown.
CloseEnd(t) ==
    /\ At(t, "closeEnd")
    /\ Db!CompleteTask(t, "error") \/ UNCHANGED database
    /\ Leave(t)
    /\ UNCHANGED <<stop, main, next, idle, gate, starts, deliveryFailed, files, outcome>>

\* addSurfaces itself throws: nothing further is tried.
CloseFails(t) ==
    /\ At(t, "close")
    /\ Leave(t)
    /\ UNCHANGED <<database, stop, main, next, idle, gate, starts, deliveryFailed, files, outcome>>

\* writeReports and the artifact hashes; the worker goes back to its loop.
Report(t) ==
    /\ At(t, "report")
    /\ Goto(t, "done")
    /\ idle' = idle + 1
    /\ UNCHANGED <<database, stop, main, next, gate, starts, deliveryFailed, files, outcome>>

\* A report cannot be written: the task's exit code becomes 2.
ReportFails(t) ==
    /\ At(t, "report")
    /\ Goto(t, "done")
    /\ idle' = idle + 1
    /\ gate' = [gate EXCEPT ![t] = 2]
    /\ deliveryFailed' = TRUE
    /\ UNCHANGED <<database, stop, main, next, starts, files, outcome>>

-----------------------------------------------------------------------------
(* The controller after Promise.allSettled.                                *)

\* Variant: a worker that died is still waited for.
Settled_AllReturn == idle = Workers /\ next > TaskCount

\* Every worker has returned or died.
Settled ==
    /\ \A t \in Tasks : step[t] \notin Busy
    /\ next > TaskCount \/ idle = 0

AllSettled ==
    /\ main = "work" /\ Settled
    /\ main' = "sweep"
    /\ UNCHANGED <<database, stop, work, deliveryFailed, files, outcome>>

Unfinished == {t \in Tasks : step[t] # "done"}

\* A task without a summary, taken or not, is closed as an error.
Sweep(t) ==
    /\ main = "sweep"
    /\ t \in Unfinished /\ step[t] \notin Closing
    /\ \A s \in Unfinished : t <= s
    /\ Goto(t, "close")
    /\ gate' = [gate EXCEPT ![t] = 2]
    /\ deliveryFailed' = TRUE
    /\ UNCHANGED <<database, stop, main, next, idle, starts, files, outcome>>

Incomplete == Stopped \/ \E t \in Tasks : gate[t] = 2

\* Variant: only the tasks decide.
ExitCode_Gates ==
    IF deliveryFailed \/ \E t \in Tasks : gate[t] = 2 THEN 2
    ELSE IF \E t \in Tasks : gate[t] = 1 THEN 1 ELSE 0

ExitCode ==
    IF Incomplete \/ deliveryFailed THEN 2
    ELSE IF \E t \in Tasks : gate[t] = 1 THEN 1 ELSE 0

\* finishRun, close, and the run's exit code, in one turn.
FinishRun ==
    /\ main = "sweep" /\ Unfinished = {}
    /\ Db!FinishRun(TheRun, IF Incomplete THEN "partial" ELSE "completed")
    /\ exit' = ExitCode
    /\ main' = "publish"
    /\ UNCHANGED <<stop, work, deliveryFailed, files, result, code>>

\* finishRun throws, or its transaction commits and close() throws.
FinishFails ==
    /\ main = "sweep" /\ Unfinished = {}
    /\ \/ UNCHANGED database
       \/ Db!FinishRun(TheRun, IF Incomplete THEN "partial" ELSE "completed")
    /\ main' = "abort"
    /\ UNCHANGED <<stop, work, deliveryFailed, files, outcome>>

\* `if (stopped && exitCode !== 2) invalid()`, before each publication step.
Passes == ~Stopped \/ exit = 2

Publishing(from, to) ==
    /\ main = from
    /\ main' = to
    /\ UNCHANGED <<database, stop, work, deliveryFailed, exit, code>>

\* Variant: a run whose task reports could not be written is published too.
Delivered_Always == TRUE

Delivered == ~deliveryFailed

\* The run reports are written; without delivery nothing more is.
WriteRunReports ==
    /\ Delivered /\ Passes
    /\ Publishing("publish", "manifest")
    /\ UNCHANGED <<files, result>>

NotDelivered ==
    /\ ~Delivered
    /\ Publishing("publish", "returned")
    /\ result' = "failed"
    /\ UNCHANGED files

WriteManifest ==
    /\ Publishing("manifest", "receipt")
    /\ manifest' = TRUE
    /\ UNCHANGED <<receipt, leftover, result>>

\* open(..., 'wx') of the receipt, which from here on is the run's own.
OpenReceipt ==
    /\ Passes
    /\ Publishing("receipt", "fill")
    /\ receipt' = "opened"
    /\ UNCHANGED <<manifest, leftover, result>>

FillReceipt ==
    /\ Publishing("fill", "confirm")
    /\ receipt' = "whole"
    /\ UNCHANGED <<manifest, leftover, result>>

Publish ==
    /\ Passes
    /\ Publishing("confirm", "returned")
    /\ result' = "published"
    /\ UNCHANGED files

\* An await of a publication step rejects, or the check before it throws.
PublishFails ==
    \E from \in {"publish", "manifest", "receipt", "fill", "confirm"} :
      /\ from = "confirm" => ~Passes
      /\ Publishing(from, "abort")
      /\ UNCHANGED <<files, result>>

\* Variant: the catch block unlinks only what it finished writing.
Withdrawn_Whole == IF receipt = "whole" THEN "absent" ELSE receipt

Withdrawn == "absent"

\* The catch block: an owned receipt is unlinked.
Abort ==
    /\ receipt' = Withdrawn
    /\ Publishing("abort", "returned")
    /\ result' = "failed"
    /\ UNCHANGED <<manifest, leftover>>

\* The unlink fails, silently.
AbortLeaves ==
    /\ receipt # "absent"
    /\ leftover' = TRUE
    /\ Publishing("abort", "returned")
    /\ result' = "failed"
    /\ UNCHANGED <<manifest, receipt>>

\* Variant: the process exits as the run concluded.
ProcessCode_OfRun == IF result = "failed" THEN 2 ELSE exit

ProcessCode == IF cancelled \/ result = "failed" THEN 2 ELSE exit

\* runPlanMain: 2 when the signal was aborted, whatever was printed.
ExitProcess ==
    /\ main = "returned"
    /\ main' = "exited"
    /\ code' = ProcessCode
    /\ UNCHANGED <<database, stop, work, deliveryFailed, files, exit, result>>

-----------------------------------------------------------------------------
TaskStep(t) ==
    \/ Take(t) \/ (\E observed \in BOOLEAN : Executed(t, observed)) \/ WorkerDies(t)
    \/ Register(t) \/ Start(t) \/ Record(t) \/ StoreFails(t)
    \/ CloseCreate(t) \/ CloseStart(t) \/ CloseEnd(t) \/ CloseFails(t)
    \/ Report(t) \/ ReportFails(t)
    \/ Sweep(t)

MainStep ==
    \/ Boot \/ BootFails
    \/ AllSettled \/ FinishRun \/ FinishFails
    \/ WriteRunReports \/ NotDelivered \/ WriteManifest
    \/ OpenReceipt \/ FillReceipt \/ Publish \/ PublishFails \/ Abort \/ AbortLeaves
    \/ ExitProcess

Progress ==
    \/ \E t \in Tasks : TaskStep(t)
    \/ MainStep

Next == Progress \/ Cancel \/ Expire \/ TimerFires \/ Kill

Spec == Init /\ [][Next]_vars

\* Promises that can settle do.  An engine settles because every adapter bounds
\* its own run by the deadline it is given (execute passes timeoutMs).
FairSpec == Spec /\ WF_vars(Progress)

-----------------------------------------------------------------------------
(* Safety.                                                                 *)

AllDone == \A t \in Tasks : step[t] = "done"

\* A receipt on disk, even an empty one, even after a kill at any point, means
\* that everything it binds was there before it: the manifest, a finished run
\* in the database and a delivered report of every task.
ReceiptComesLast ==
    receipt # "absent" =>
      /\ manifest /\ ~deliveryFailed /\ AllDone
      /\ run[TheRun] \in {"completed", "partial"}

\* A passing exit code, computed or published, is backed by the database: the
\* run is completed there and so is every one of its tasks.
PassIsBacked ==
    exit # 2 =>
      /\ run[TheRun] = "completed"
      /\ \A t \in Tasks : task[t] = "completed" /\ gate[t] # 2

\* When the run is concluded every task has been accounted for: its row is
\* completed or its exit code is 2.  So the database never refuses the
\* controller's "completed", and a row left running never passes for success.
NoTaskUnaccounted ==
    \/ main = "sweep" /\ Unfinished = {}
    \/ main \in {"publish", "manifest", "receipt", "fill", "confirm"}
    => \A t \in Tasks : step[t] = "done" /\ (gate[t] = 2 \/ task[t] = "completed")

\* A failed run leaves no receipt behind, unless unlinking it failed.
FailureHasNoReceipt ==
    result = "failed" /\ ~leftover => receipt = "absent"

\* A receipt stands for what it binds, and for nothing once it was withdrawn.
ReceiptStands == ReceiptComesLast /\ FailureHasNoReceipt

\* A process that exits with a passing code published everything, and the
\* caller had not cancelled: not before, not during, not after publication.
PassingExit ==
    main = "exited" /\ code # 2 =>
      /\ result = "published" /\ receipt = "whole" /\ code = exit
      /\ ~cancelled

\* A passing code, from the first place that computes it to the exit of the
\* process, was earned by every task and by the publication.
PassIsEarned == PassIsBacked /\ PassingExit

\* Never more engines, evidence writers and report writers at once than the
\* owner allowed, and no task's engine started twice, however the workers
\* interleave and whatever dies or fails.
PoolIsSound ==
    /\ Cardinality({t \in Tasks : step[t] \in Busy}) <= Concurrency
    /\ \A t \in Tasks : starts[t] <= 1

\* Every task is run once at most, by a pool that keeps its size, and none is
\* lost to the conclusion.
TasksAreAccounted == NoTaskUnaccounted /\ PoolIsSound

\* The database refuses no call the controller makes in good faith, whoever
\* else wrote the rows before: a worker that stores its task finds the rows it
\* left (runner.ts:181-199), and the controller that concludes a run it takes
\* for complete finds every task's row completed (runner.ts:288).  Rows that
\* failed calls, dead workers and the sweep left behind are where a run could
\* conclude what its database does not say.
NeverRefused ==
    /\ main = "boot" => run[TheRun] = "absent"
    /\ \A t \in Tasks :
         /\ At(t, "register") => task[t] = "absent" /\ run[TheRun] = "running"
         /\ At(t, "start")    => task[t] = "queued" /\ Db!InRunning(t)
         /\ At(t, "record")   => task[t] = "running" /\ Db!InRunning(t)
    /\ main = "sweep" /\ Unfinished = {} =>
         /\ run[TheRun] = "running"
         /\ ~Incomplete => /\ Db!TasksOf(TheRun) # {}
                           /\ \A t \in Db!TasksOf(TheRun) : task[t] = "completed"

(* Liveness.                                                               *)

\* The run ends, with dead workers, failed writes, a stop, or none of them.
RunEnds == <>(main \in {"exited", "killed"})
=============================================================================
