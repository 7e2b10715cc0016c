---------------------------- MODULE PlanRunProofs ----------------------------
(***************************************************************************)
(* Proofs about PlanRun, for every number of tasks and every concurrency.  *)
(*                                                                         *)
(* What the receipt, the exit code and the pool promise rests on where the *)
(* controller stands: each step of the conclusion is only reached with     *)
(* what the earlier ones left, and PlanInv says what that is.              *)
(***************************************************************************)
EXTENDS PlanRun, FiniteSetTheorems, TLAPS

USE CountAssumption

BusyTasks == {t \in Tasks : step[t] \in Busy}

\* The pool keeps its size.  While the workers run, every busy task has taken
\* one of them; the sweep closes one task at a time, in order.
Pool ==
    /\ Cardinality(BusyTasks) <= Workers
    /\ main = "boot" => BusyTasks = {}
    /\ main = "work" => Cardinality(BusyTasks) + idle <= Workers
    /\ main = "sweep" => \A b \in BusyTasks :
         step[b] \in Closing /\ \A s \in Unfinished : b <= s

\* Tasks not yet taken were not started, and none was started twice.
StartedOnce ==
    /\ \A t \in Tasks : starts[t] <= 1
    /\ main \in {"boot", "work"} => \A t \in Tasks : next <= t => starts[t] = 0

\* A task that failed to be stored is charged; one that is reported or done is
\* charged or has its row completed.
Charged ==
    \A t \in Tasks :
      /\ step[t] \in Closing => gate[t] = 2
      /\ step[t] \in {"report", "done"} => gate[t] = 2 \/ task[t] = "completed"

Concluding == {"publish", "manifest", "receipt", "fill", "confirm"}

\* What each step of the conclusion finds.
Conclusion ==
    /\ main \in Concluding => AllDone /\ run[TheRun] \in {"completed", "partial"}
    /\ main \in Concluding \ {"publish"} => ~deliveryFailed
    /\ main \in {"receipt", "fill", "confirm"} => manifest
    /\ main \in {"boot", "work", "sweep", "publish", "manifest", "receipt"} => receipt = "absent"
    /\ main = "confirm" => receipt = "whole"
    /\ main \in {"boot", "work", "sweep", "abort"} \cup Concluding => result = "none"
    /\ main = "returned" => result # "none"
    /\ result = "published" => receipt = "whole"
    /\ main \in {"boot", "work", "sweep"} => exit = 2
    /\ main # "exited" => code = 2

PlanInv == /\ TypeOK /\ Pool /\ StartedOnce /\ Charged /\ Conclusion
           /\ ReceiptStands /\ PassIsEarned

-----------------------------------------------------------------------------
(* The pool and the database.                                              *)

LEMMA PoolSize == /\ Workers \in Nat \ {0} /\ Workers <= Concurrency /\ Workers <= TaskCount
                  /\ IsFiniteSet(Tasks)
BY FS_Interval DEF Workers, Tasks

LEMMA BusyCount ==
    /\ IsFiniteSet(BusyTasks) /\ Cardinality(BusyTasks) \in Nat
    /\ BusyTasks = {} <=> Cardinality(BusyTasks) = 0
BY PoolSize, FS_Subset, FS_CardinalityType, FS_EmptySet DEF BusyTasks

\* The busy tasks, when one actor moves.
LEMMA BusyMoves ==
    ASSUME TypeOK, NEW t \in Tasks, NEW s, Goto(t, s)
    PROVE  /\ step[t] \in Busy /\ s \in Busy => BusyTasks' = BusyTasks
           /\ step[t] \in Busy /\ s \notin Busy =>
                /\ BusyTasks' = BusyTasks \ {t}
                /\ Cardinality(BusyTasks') = Cardinality(BusyTasks) - 1
           /\ s \in Busy => Cardinality(BusyTasks') <= Cardinality(BusyTasks) + 1
           /\ s \notin Busy => Cardinality(BusyTasks') <= Cardinality(BusyTasks)
           /\ Cardinality(BusyTasks') \in Nat
<1>0. BusyTasks' = IF s \in Busy THEN BusyTasks \cup {t} ELSE BusyTasks \ {t}
  BY DEF BusyTasks, Goto, TypeOK
<1>1. CASE step[t] \in Busy
  <2>1. t \in BusyTasks
    BY <1>1 DEF BusyTasks
  <2>2. s \in Busy => BusyTasks' = BusyTasks
    BY <1>0, <2>1
  <2>3. s \notin Busy => BusyTasks' = BusyTasks \ {t}
    BY <1>0
  <2>4. /\ Cardinality(BusyTasks \ {t}) = Cardinality(BusyTasks) - 1
        /\ Cardinality(BusyTasks \ {t}) \in Nat
    BY <2>1, BusyCount, FS_RemoveElement, FS_CardinalityType
  <2>5. QED
    BY <1>1, <2>2, <2>3, <2>4, BusyCount
<1>2. CASE step[t] \notin Busy
  <2>1. t \notin BusyTasks
    BY <1>2 DEF BusyTasks
  <2>2. s \notin Busy => BusyTasks' = BusyTasks
    BY <1>0, <2>1
  <2>3. s \in Busy => BusyTasks' = BusyTasks \cup {t}
    BY <1>0
  <2>4. Cardinality(BusyTasks \cup {t}) = Cardinality(BusyTasks) + 1
    BY <2>1, BusyCount, FS_AddElement
  <2>5. QED
    BY <1>2, <2>2, <2>3, <2>4, BusyCount
<1>3. QED
  BY <1>1, <1>2

\* A transaction on a task's rows keeps the types, the run and the other tasks,
\* and what is completed.
LEMMA TaskRow ==
    ASSUME TypeOK, NEW t \in Tasks, NEW status \in Db!TaskClosings,
           \/ Db!CreateTask(t, TheRun) \/ Db!StartTask(t) \/ Db!CompleteTask(t, status)
           \/ UNCHANGED database
    PROVE  /\ run' = run
           /\ task' \in [Tasks -> Db!TaskStatuses] /\ home' \in [Tasks -> SUBSET {TheRun}]
           /\ \A u \in Tasks : u # t => task'[u] = task[u]
           /\ \A u \in Tasks : task[u] = "completed" => task'[u] = "completed"
BY DEF TypeOK, database, Db!CreateTask, Db!StartTask, Db!CompleteTask, Db!TaskStatuses,
       Db!TaskClosings, Db!Closings

LEMMA RunRow ==
    ASSUME TypeOK, NEW status \in Db!Closings,
           \/ Db!CreateRun(TheRun) \/ Db!FinishRun(TheRun, status)
           \/ UNCHANGED database
    PROVE  /\ run' \in [{TheRun} -> Db!RunStatuses]
           /\ UNCHANGED <<task, home>>
           /\ Db!FinishRun(TheRun, status) => run'[TheRun] = status
BY DEF TypeOK, database, Db!CreateRun, Db!FinishRun, Db!RunStatuses, Db!Closings

Statuses == {"partial", "completed", "error"}

LEMMA StatusesAre == Statuses = Db!Closings /\ Statuses \subseteq Db!TaskClosings
                     /\ \A t \in Tasks : Concluded(t) \in Statuses
BY DEF Statuses, Db!Closings, Db!TaskClosings, Concluded

-----------------------------------------------------------------------------
(* What a step is, seen from the outside: a worker's step leaves the        *)
(* controller where it is and the files alone, and only while the workers   *)
(* or the sweep run; a controller's step leaves every task where it is.     *)

LEMMA WorkerFrame ==
    ASSUME NEW t \in Tasks, TaskStep(t)
    PROVE  /\ main \in {"work", "sweep"} /\ UNCHANGED <<main, stop, files, outcome>>
           /\ \E s \in TaskSteps : Goto(t, s)
<1> USE DEF At, files, outcome, stop
<1>1. CASE Take(t) \/ WorkerDies(t) \/ \E observed \in BOOLEAN : Executed(t, observed)
  BY <1>1 DEF Take, WorkerDies, Executed, TaskSteps, Busy
<1>2. CASE Register(t) \/ Start(t) \/ Record(t) \/ StoreFails(t)
  BY <1>2 DEF Register, Start, Record, StoreFails, TaskSteps, Busy, Closing
<1>3. CASE CloseCreate(t) \/ CloseStart(t) \/ CloseEnd(t) \/ CloseFails(t)
  BY <1>3 DEF CloseCreate, CloseStart, CloseEnd, CloseFails, Leave, TaskSteps, Busy, Closing
<1>4. CASE Report(t) \/ ReportFails(t) \/ Sweep(t)
  BY <1>4 DEF Report, ReportFails, Sweep, TaskSteps, Busy, Closing
<1>5. QED
  BY <1>1, <1>2, <1>3, <1>4 DEF TaskStep

LEMMA TaskRowsStep ==
    ASSUME TypeOK, NEW t \in Tasks, TaskStep(t)
    PROVE  /\ run' = run
           /\ task' \in [Tasks -> Db!TaskStatuses] /\ home' \in [Tasks -> SUBSET {TheRun}]
           /\ \A u \in Tasks : u # t => task'[u] = task[u]
           /\ \A u \in Tasks : task[u] = "completed" => task'[u] = "completed"
<1>1. \/ UNCHANGED database \/ Db!CreateTask(t, TheRun) \/ Db!StartTask(t)
      \/ Db!CompleteTask(t, Concluded(t)) \/ Db!CompleteTask(t, "error")
  BY DEF TaskStep, Take, Executed, WorkerDies, Register, Start, Record, StoreFails,
         CloseCreate, CloseStart, CloseEnd, CloseFails, Report, ReportFails, Sweep
<1>2. Concluded(t) \in Db!TaskClosings /\ "error" \in Db!TaskClosings
  BY StatusesAre DEF Statuses
<1>3. QED
  BY <1>1, <1>2, TaskRow

\* The controller's steps, by where they lead.
LEMMA MainFrame ==
    ASSUME TypeOK, MainStep
    PROVE  /\ UNCHANGED <<stop, next, step, gate, starts, deliveryFailed, task, home>>
           /\ run' \in [{TheRun} -> Db!RunStatuses]
           /\ main # "boot" => idle' = idle
           /\ main = "boot" => idle' \in {idle, Workers} /\ main' \in {"work", "abort"}
           /\ main \notin {"boot", "sweep"} => run' = run
           /\ main \notin {"exited", "killed"} /\ main' \in MainSteps \ {"killed", "boot"}
           /\ main' = "sweep" => main = "work" /\ Settled
           /\ main' = "work" => main = "boot"
<1> USE DEF work, files, outcome, MainSteps, stop
<1>1. CASE Boot \/ BootFails
  <2>1. \/ Db!CreateRun(TheRun) \/ UNCHANGED database
    BY <1>1 DEF Boot, BootFails
  <2>2. run' \in [{TheRun} -> Db!RunStatuses] /\ UNCHANGED <<task, home>>
    BY <2>1, RunRow, StatusesAre DEF Statuses
  <2>3. QED
    BY <1>1, <2>2 DEF Boot, BootFails
<1>2. CASE FinishRun \/ FinishFails
  <2>1. \/ Db!FinishRun(TheRun, "partial") \/ Db!FinishRun(TheRun, "completed")
        \/ UNCHANGED database
    BY <1>2 DEF FinishRun, FinishFails
  <2>2. run' \in [{TheRun} -> Db!RunStatuses] /\ UNCHANGED <<task, home>>
    BY <2>1, RunRow, StatusesAre DEF Statuses
  <2>3. QED
    BY <1>2, <2>2 DEF FinishRun, FinishFails
<1>3. ASSUME UNCHANGED database PROVE /\ UNCHANGED <<task, home, run>>
                                      /\ run' \in [{TheRun} -> Db!RunStatuses]
  BY <1>3 DEF database, TypeOK
<1>4. CASE AllSettled \/ ExitProcess
  BY <1>3, <1>4 DEF AllSettled, ExitProcess
<1>5. CASE WriteRunReports \/ NotDelivered \/ WriteManifest \/ OpenReceipt
  BY <1>3, <1>5 DEF WriteRunReports, NotDelivered, WriteManifest, OpenReceipt, Publishing
<1>6. CASE FillReceipt \/ Publish \/ PublishFails \/ Abort \/ AbortLeaves
  BY <1>3, <1>6 DEF FillReceipt, Publish, PublishFails, Abort, AbortLeaves, Publishing
<1>7. QED
  BY <1>1, <1>2, <1>4, <1>5, <1>6 DEF MainStep

\* Signals, the clock and a kill change nothing but themselves.
Outside == Cancel \/ Expire \/ TimerFires \/ Kill \/ UNCHANGED vars

LEMMA OutsideFrame ==
    ASSUME TypeOK, Outside
    PROVE  /\ UNCHANGED <<database, work, deliveryFailed, files, outcome>>
           /\ cancelled' \in BOOLEAN /\ expired' \in BOOLEAN /\ fired' \in BOOLEAN
           /\ main' = main \/ main' = "killed"
           /\ Over => main' = main /\ cancelled' = cancelled
BY DEF Outside, Cancel, Expire, TimerFires, Kill, vars, stop, TypeOK

LEMMA NextIs == [Next]_vars => (\E t \in Tasks : TaskStep(t)) \/ MainStep \/ Outside
BY DEF Next, Progress, Outside

-----------------------------------------------------------------------------
(* The pool.                                                               *)

\* How each step of a task moves it through the pool.
LEMMA TaskPool ==
    ASSUME TypeOK, Pool, NEW t \in Tasks, TaskStep(t)
    PROVE  Pool' /\ idle' \in 0..Workers /\ next' \in 1..TaskCount + 1
<1>0. /\ idle \in Nat /\ Workers \in Nat \ {0} /\ Cardinality(BusyTasks) \in Nat
      /\ next \in 1..TaskCount + 1 /\ idle \in 0..Workers
  BY PoolSize, BusyCount DEF TypeOK
<1>1. main \in {"work", "sweep"} /\ main' = main
  BY WorkerFrame
<1>2. CASE main = "work"
  <2>1. SUFFICES /\ Cardinality(BusyTasks') + idle' <= Workers /\ Cardinality(BusyTasks') \in Nat
                 /\ idle' \in Nat /\ next' \in 1..TaskCount + 1
    BY <1>0, <1>1, <1>2, <2>1 DEF Pool
  <2>2. Cardinality(BusyTasks) + idle <= Workers
    BY <1>2 DEF Pool
  <2>3. CASE Take(t)
    <3>1. Goto(t, "executing") /\ idle > 0 /\ idle' = idle - 1 /\ next' = t + 1
      BY <2>3 DEF Take
    <3>2. "executing" \in Busy
      BY DEF Busy
    <3>3. Cardinality(BusyTasks') <= Cardinality(BusyTasks) + 1 /\ Cardinality(BusyTasks') \in Nat
      BY <3>1, <3>2, BusyMoves
    <3>4. next' \in 1..TaskCount + 1
      BY <3>1 DEF Tasks
    <3>5. QED
      BY <1>0, <2>2, <3>1, <3>3, <3>4
  <2>4. CASE Report(t) \/ ReportFails(t)
    <3>1. Goto(t, "done") /\ step[t] \in Busy /\ idle' = idle + 1 /\ next' = next
      BY <2>4 DEF Report, ReportFails, At, Busy
    <3>2. "done" \notin Busy
      BY DEF Busy, Closing
    <3>3. Cardinality(BusyTasks') = Cardinality(BusyTasks) - 1 /\ Cardinality(BusyTasks') \in Nat
      BY <3>1, <3>2, BusyMoves
    <3>4. QED
      BY <1>0, <2>2, <3>1, <3>3
  <2>5. CASE ~(Take(t) \/ Report(t) \/ ReportFails(t))
    <3>1. /\ step[t] \in Busy /\ UNCHANGED <<idle, next>>
          /\ \E s : Goto(t, s)
      BY <1>2, <2>5 DEF TaskStep, WorkerDies, Executed, Register, Start, Record, StoreFails,
           CloseCreate, CloseStart, CloseEnd, CloseFails, Leave, Sweep, At, Busy, Closing
    <3>2. PICK s : Goto(t, s)
      BY <3>1
    <3>3. Cardinality(BusyTasks') <= Cardinality(BusyTasks) /\ Cardinality(BusyTasks') \in Nat
      <4>1. CASE s \in Busy
        BY <1>0, <3>1, <3>2, <4>1, BusyMoves
      <4>2. CASE s \notin Busy
        BY <1>0, <3>1, <3>2, <4>2, BusyMoves
      <4>3. QED
        BY <4>1, <4>2
    <3>4. QED
      BY <1>0, <2>2, <3>1, <3>3
  <2>6. QED
    BY <2>3, <2>4, <2>5
<1>3. CASE main = "sweep"
  <2>1. \A b \in BusyTasks : b \in Tasks /\ step[b] \in Closing /\ \A s \in Unfinished : b <= s
    BY <1>3 DEF Pool, BusyTasks
  <2>2. \A u \in Tasks : step[u] \in Busy => step[u] \in Closing
    BY <2>1 DEF BusyTasks
  <2>3. /\ \E s \in Closing \cup {"done"} : Goto(t, s)
        /\ UNCHANGED <<idle, next>>
        /\ t \in Unfinished
        /\ \A s \in Unfinished : t <= s
    <3>1. CASE CloseCreate(t) \/ CloseStart(t) \/ CloseEnd(t) \/ CloseFails(t)
      <4>1. step[t] \in Closing /\ t \in BusyTasks /\ t \in Unfinished
        BY <3>1 DEF CloseCreate, CloseStart, CloseEnd, CloseFails, At, Closing, Busy, BusyTasks,
                    Unfinished
      <4>2. QED
        BY <1>3, <2>1, <3>1, <4>1 DEF CloseCreate, CloseStart, CloseEnd, CloseFails, Leave, Closing
    <3>2. CASE Sweep(t)
      BY <3>2 DEF Sweep, Closing
    <3>3. QED
      BY <1>3, <2>2, <3>1, <3>2 DEF TaskStep, Take, WorkerDies, Executed, Register, Start, Record,
           StoreFails, Report, ReportFails, At, Busy, Closing
  <2>4. PICK s \in Closing \cup {"done"} : Goto(t, s)
    BY <2>3
  <2>5. \A u \in Tasks : step'[u] = IF u = t THEN s ELSE step[u]
    BY <2>4 DEF Goto, TypeOK
  <2>6. Unfinished' \subseteq Unfinished
    BY <2>3, <2>5 DEF Unfinished
  <2>7. ASSUME NEW b \in BusyTasks' PROVE b = t /\ step'[b] \in Closing
    <3>1. b \in Tasks /\ step'[b] \in Busy
      BY <2>7 DEF BusyTasks
    <3>2. CASE b = t
      BY <2>5, <3>1, <3>2 DEF Busy, Closing
    <3>3. CASE b # t
      <4>1. b \in BusyTasks /\ b \in Unfinished
        BY <2>5, <3>1, <3>3 DEF BusyTasks, Unfinished, Busy, Closing
      <4>2. b <= t /\ t <= b
        BY <2>1, <2>3, <4>1
      <4>3. QED
        BY <3>1, <3>3, <4>2 DEF Tasks
    <3>4. QED
      BY <3>2, <3>3
  <2>8. Cardinality(BusyTasks') <= 1
    <3>1. BusyTasks' \subseteq {t}
      BY <2>7
    <3>2. IsFiniteSet({t}) /\ Cardinality({t}) = 1
      BY FS_Singleton
    <3>3. QED
      BY <3>1, <3>2, FS_Subset
  <2>9. Cardinality(BusyTasks') \in Nat
    BY <2>4, BusyMoves
  <2>10. QED
    BY <1>0, <1>1, <1>3, <2>3, <2>6, <2>7, <2>8, <2>9 DEF Pool
<1>4. QED
  BY <1>1, <1>2, <1>3

LEMMA PoolStep == TypeOK /\ Pool /\ [Next]_vars => Pool'
<1> SUFFICES ASSUME TypeOK, Pool, [Next]_vars PROVE Pool'
  OBVIOUS
<1>0. Workers \in Nat \ {0} /\ Cardinality(BusyTasks) \in Nat /\ idle \in 0..Workers
  BY PoolSize, BusyCount DEF TypeOK
<1>1. ASSUME MainStep PROVE Pool'
  <2>1. BusyTasks' = BusyTasks /\ step' = step
    BY <1>1, MainFrame DEF BusyTasks
  <2>2. CASE main' = "sweep"
    <3>1. BusyTasks = {}
      BY <1>1, <2>2, MainFrame DEF Settled, BusyTasks
    <3>2. QED
      BY <2>1, <2>2, <3>1 DEF Pool
  <2>3. CASE main' = "work"
    <3>1. BusyTasks = {} /\ idle' \in 0..Workers
      BY <1>0, <1>1, <2>3, MainFrame DEF Pool
    <3>2. Cardinality(BusyTasks) = 0
      BY <3>1, FS_EmptySet
    <3>3. QED
      BY <1>0, <2>1, <2>3, <3>1, <3>2 DEF Pool
  <2>4. CASE main' \notin {"sweep", "work"}
    <3>1. main' # "boot"
      BY <1>1, MainFrame
    <3>2. QED
      BY <2>1, <2>4, <3>1 DEF Pool
  <2>5. QED
    BY <2>2, <2>3, <2>4
<1>2. ASSUME Outside PROVE Pool'
  <2>1. BusyTasks' = BusyTasks /\ UNCHANGED <<step, idle>> /\ (main' = main \/ main' = "killed")
    BY <1>2, OutsideFrame DEF BusyTasks, work
  <2>2. QED
    BY <2>1 DEF Pool, Unfinished
<1>3. QED
  BY <1>1, <1>2, TaskPool, NextIs

LEMMA StartedStep == TypeOK /\ StartedOnce /\ [Next]_vars => StartedOnce'
<1> SUFFICES ASSUME TypeOK, StartedOnce, [Next]_vars PROVE StartedOnce'
  OBVIOUS
<1>1. ASSUME NEW t \in Tasks, Take(t) PROVE StartedOnce'
  <2>1. starts[t] = 0 /\ t = next /\ starts' = [starts EXCEPT ![t] = 1] /\ next' = t + 1
    <3>1. main = "work" /\ t = next /\ starts' = [starts EXCEPT ![t] = @ + 1] /\ next' = t + 1
      BY <1>1 DEF Take, Taken
    <3>2. starts[t] = 0
      BY <3>1 DEF StartedOnce, Tasks
    <3>3. QED
      BY <3>1, <3>2
  <2>2. \A u \in Tasks : starts'[u] = IF u = t THEN 1 ELSE starts[u]
    BY <2>1 DEF TypeOK
  <2>3. \A u \in Tasks : next' <= u => next <= u /\ u # t
    BY <2>1 DEF Tasks
  <2>4. QED
    BY <1>1, <2>2, <2>3 DEF StartedOnce, Take
<1>2. ASSUME NEW t \in Tasks, TaskStep(t), ~Take(t) PROVE StartedOnce'
  <2>1. UNCHANGED <<starts, next, main>>
    BY <1>2 DEF TaskStep, WorkerDies, Executed, Register, Start, Record, StoreFails,
       CloseCreate, CloseStart, CloseEnd, CloseFails, Report, ReportFails, Sweep
  <2>2. QED
    BY <2>1 DEF StartedOnce
<1>3. ASSUME MainStep PROVE StartedOnce'
  BY <1>3, MainFrame DEF StartedOnce
<1>4. ASSUME Outside PROVE StartedOnce'
  BY <1>4, OutsideFrame DEF StartedOnce, work
<1>5. QED
  BY <1>1, <1>2, <1>3, <1>4, NextIs

-----------------------------------------------------------------------------
(* Types, charges and the conclusion.                                      *)

LEMMA PlanInit == Init => PlanInv
<1> SUFFICES ASSUME Init PROVE PlanInv
  OBVIOUS
<1>1. /\ run = [r \in {TheRun} |-> "absent"] /\ task = [t \in Tasks |-> "absent"]
      /\ home = [t \in Tasks |-> {}]
  BY DEF Init, Db!Init
<1>2. 0 \in 0..Workers /\ 1 \in 1..TaskCount + 1
  BY PoolSize
<1>3. TypeOK
  <2>1. /\ run \in [{TheRun} -> Db!RunStatuses] /\ task \in [Tasks -> Db!TaskStatuses]
        /\ home \in [Tasks -> SUBSET {TheRun}]
    BY <1>1 DEF Db!RunStatuses, Db!TaskStatuses
  <2>2. /\ step \in [Tasks -> TaskSteps] /\ gate \in [Tasks -> 0..2] /\ starts \in [Tasks -> Nat]
    BY DEF Init, TaskSteps
  <2>3. main \in MainSteps /\ result \in Results
    BY DEF Init, MainSteps, Results
  <2>4. /\ next \in 1..TaskCount + 1 /\ idle \in 0..Workers /\ exit \in 0..2 /\ code \in 0..2
    BY <1>2 DEF Init
  <2>5. /\ cancelled \in BOOLEAN /\ expired \in BOOLEAN /\ fired \in BOOLEAN
        /\ deliveryFailed \in BOOLEAN /\ manifest \in BOOLEAN /\ leftover \in BOOLEAN
        /\ receipt \in {"absent", "opened", "whole"}
    BY DEF Init
  <2>6. QED
    BY <2>1, <2>2, <2>3, <2>4, <2>5 DEF TypeOK
<1>4. BusyTasks = {}
  BY DEF Init, BusyTasks, Busy, Closing
<1>5. Pool
  BY <1>4, PoolSize, FS_EmptySet DEF Init, Pool
<1>6. StartedOnce /\ Charged /\ Conclusion
  BY DEF Init, StartedOnce, Charged, Closing, Conclusion, Concluding
<1>7. ReceiptStands /\ PassIsEarned
  BY DEF Init, ReceiptStands, ReceiptComesLast, FailureHasNoReceipt, PassIsEarned, PassIsBacked,
         PassingExit
<1>8. QED
  BY <1>3, <1>5, <1>6, <1>7 DEF PlanInv

LEMMA TypeStep == TypeOK /\ Pool /\ [Next]_vars => TypeOK'
<1> SUFFICES ASSUME TypeOK, Pool, [Next]_vars PROVE TypeOK'
  OBVIOUS
<1>1. ASSUME NEW t \in Tasks, TaskStep(t) PROVE TypeOK'
  <2>1. /\ main' = main /\ UNCHANGED <<cancelled, expired, fired, manifest, receipt, leftover>>
        /\ UNCHANGED <<exit, result, code>>
    BY <1>1, WorkerFrame DEF stop, files, outcome
  <2>2. step' \in [Tasks -> TaskSteps]
    BY <1>1, WorkerFrame DEF Goto, TypeOK
  <2>3. /\ run' = run /\ task' \in [Tasks -> Db!TaskStatuses]
        /\ home' \in [Tasks -> SUBSET {TheRun}]
    BY <1>1, TaskRowsStep
  <2>4. idle' \in 0..Workers /\ next' \in 1..TaskCount + 1
    BY <1>1, TaskPool
  <2>5. /\ gate' \in [Tasks -> 0..2] /\ starts' \in [Tasks -> Nat] /\ deliveryFailed' \in BOOLEAN
    <3>1. CASE Take(t) \/ WorkerDies(t) \/ \E observed \in BOOLEAN : Executed(t, observed)
      BY <3>1 DEF Take, WorkerDies, Executed, TypeOK
    <3>2. CASE Register(t) \/ Start(t) \/ Record(t) \/ StoreFails(t)
      BY <3>2 DEF Register, Start, Record, StoreFails, Charge, TypeOK
    <3>3. CASE CloseCreate(t) \/ CloseStart(t) \/ CloseEnd(t) \/ CloseFails(t)
      BY <3>3 DEF CloseCreate, CloseStart, CloseEnd, CloseFails, TypeOK
    <3>4. CASE Report(t) \/ ReportFails(t) \/ Sweep(t)
      <4>1. /\ gate' = gate \/ gate' = [gate EXCEPT ![t] = 2]
            /\ starts' = starts /\ (deliveryFailed' = deliveryFailed \/ deliveryFailed' = TRUE)
        BY <3>4 DEF Report, ReportFails, Sweep
      <4>2. gate \in [Tasks -> 0..2] /\ starts \in [Tasks -> Nat] /\ deliveryFailed \in BOOLEAN
        BY DEF TypeOK
      <4>3. gate' \in [Tasks -> 0..2]
        BY <4>1, <4>2
      <4>4. QED
        BY <4>1, <4>2, <4>3
    <3>5. QED
      BY <1>1, <3>1, <3>2, <3>3, <3>4 DEF TaskStep
  <2>6. QED
    BY <2>1, <2>2, <2>3, <2>4, <2>5 DEF TypeOK
<1>2. ASSUME MainStep PROVE TypeOK'
  <2>1. /\ UNCHANGED <<cancelled, expired, fired, next, step, gate, starts, deliveryFailed>>
        /\ UNCHANGED <<task, home>> /\ run' \in [{TheRun} -> Db!RunStatuses]
        /\ idle' = idle \/ idle' = Workers
        /\ main' \in MainSteps
    BY <1>2, MainFrame DEF stop
  <2>2. idle' \in 0..Workers
    BY <2>1, PoolSize DEF TypeOK
  <2>3. /\ exit' \in 0..2 /\ code' \in 0..2 /\ manifest' \in BOOLEAN
        /\ receipt' \in {"absent", "opened", "whole"} /\ leftover' \in BOOLEAN
        /\ result' \in Results
    <3>1. CASE Boot \/ BootFails \/ AllSettled \/ FinishFails
      BY <3>1 DEF Boot, BootFails, AllSettled, FinishFails, files, outcome, TypeOK
    <3>2. CASE FinishRun \/ ExitProcess
      BY <3>2 DEF FinishRun, ExitCode, ExitProcess, ProcessCode, files, TypeOK
    <3>3. CASE WriteRunReports \/ NotDelivered \/ WriteManifest \/ OpenReceipt \/ FillReceipt
      BY <3>3 DEF WriteRunReports, NotDelivered, WriteManifest, OpenReceipt, FillReceipt,
                  Publishing, files, TypeOK, Results
    <3>4. CASE Publish \/ PublishFails \/ Abort \/ AbortLeaves
      BY <3>4 DEF Publish, PublishFails, Abort, AbortLeaves, Withdrawn, Publishing, files,
                  TypeOK, Results
    <3>5. QED
      BY <1>2, <3>1, <3>2, <3>3, <3>4 DEF MainStep
  <2>4. QED
    BY <2>1, <2>2, <2>3 DEF TypeOK
<1>3. ASSUME Outside PROVE TypeOK'
  BY <1>3, OutsideFrame DEF database, work, files, outcome, TypeOK, MainSteps
<1>4. QED
  BY <1>1, <1>2, <1>3, NextIs

\* A gate that is charged stays charged, once its task has left its engine.
LEMMA ChargedStep == TypeOK /\ Charged /\ [Next]_vars => Charged'
<1> SUFFICES ASSUME TypeOK, Charged, [Next]_vars PROVE Charged'
  OBVIOUS
<1>1. ASSUME NEW t \in Tasks, TaskStep(t) PROVE Charged'
  <2>1. /\ \A u \in Tasks : u # t => task'[u] = task[u]
        /\ \A u \in Tasks : task[u] = "completed" => task'[u] = "completed"
    BY <1>1, TaskRowsStep
  <2>2. SUFFICES /\ \A u \in Tasks : u # t => step'[u] = step[u] /\ gate'[u] = gate[u]
                 /\ step'[t] \in Closing => gate'[t] = 2
                 /\ step'[t] \in {"report", "done"} => gate'[t] = 2 \/ task'[t] = "completed"
    BY <2>1, <2>2 DEF Charged
  <2>3. /\ step[t] \in Closing => gate[t] = 2
        /\ step[t] \in {"report", "done"} => gate[t] = 2 \/ task[t] = "completed"
    BY DEF Charged
  <2> USE DEF Goto, TypeOK, Closing, At
  <2>4. CASE Take(t) \/ WorkerDies(t) \/ \E observed \in BOOLEAN : Executed(t, observed)
    BY <2>4 DEF Take, WorkerDies, Executed
  <2>5. CASE Register(t) \/ Start(t) \/ StoreFails(t)
    BY <2>5 DEF Register, Start, StoreFails, Charge
  <2>6. CASE Record(t)
    <3>1. task' = [task EXCEPT ![t] = Concluded(t)] /\ gate' = gate /\ Goto(t, "report")
      BY <2>6 DEF Record, Db!CompleteTask
    <3>2. QED
      BY <3>1 DEF Concluded
  <2>7. CASE CloseCreate(t) \/ CloseStart(t) \/ CloseEnd(t) \/ CloseFails(t)
    BY <2>3, <2>7 DEF CloseCreate, CloseStart, CloseEnd, CloseFails, Leave
  <2>8. CASE Report(t) \/ ReportFails(t) \/ Sweep(t)
    BY <2>1, <2>3, <2>8 DEF Report, ReportFails, Sweep
  <2>9. QED
    BY <1>1, <2>4, <2>5, <2>6, <2>7, <2>8 DEF TaskStep
<1>2. ASSUME MainStep PROVE Charged'
  BY <1>2, MainFrame DEF Charged
<1>3. ASSUME Outside PROVE Charged'
  BY <1>3, OutsideFrame DEF Charged, work, database
<1>4. QED
  BY <1>1, <1>2, <1>3, NextIs

\* The controller's steps by the part of the conclusion they touch: a step that
\* only moves on, or only opens, fills or withdraws what is its own.
LEMMA ConclusionStep == PlanInv /\ [Next]_vars => Conclusion'
<1> SUFFICES ASSUME PlanInv, [Next]_vars PROVE Conclusion'
  OBVIOUS
<1>0. TypeOK /\ Conclusion /\ ReceiptStands
  BY DEF PlanInv
<1>1. ASSUME NEW t \in Tasks, TaskStep(t) PROVE Conclusion'
  <2>1. main' = main /\ main \in {"work", "sweep"}
        /\ UNCHANGED <<manifest, receipt, leftover, exit, result, code>>
    BY <1>1, WorkerFrame DEF files, outcome
  <2>2. QED
    BY <1>0, <2>1 DEF Conclusion, Concluding
<1>2. ASSUME Outside PROVE Conclusion'
  BY <1>0, <1>2, OutsideFrame DEF Conclusion, Over, Concluding, AllDone, database, work, files, outcome
<1>3. ASSUME MainStep PROVE Conclusion'
  <2>1. /\ step' = step /\ deliveryFailed' = deliveryFailed
        /\ (main \notin {"boot", "sweep"} => run' = run)
    BY <1>0, <1>3, MainFrame
  <2>2. AllDone' <=> AllDone
    BY <2>1 DEF AllDone
  <2> USE DEF Conclusion, Concluding
  <2>3. CASE Boot \/ BootFails \/ AllSettled \/ FinishFails
    BY <1>0, <2>1, <2>2, <2>3 DEF Boot, BootFails, AllSettled, FinishFails, files, outcome
  <2>4. CASE FinishRun
    <3>1. AllDone
      BY <2>4 DEF FinishRun, Unfinished, AllDone
    <3>2. run'[TheRun] \in {"partial", "completed"}
      BY <1>0, <2>4, RunRow, StatusesAre DEF FinishRun, Statuses
    <3>3. QED
      BY <1>0, <2>1, <2>2, <2>4, <3>1, <3>2 DEF FinishRun, files
  <2>5. CASE WriteRunReports \/ NotDelivered \/ WriteManifest
    BY <1>0, <2>1, <2>2, <2>5 DEF WriteRunReports, NotDelivered, WriteManifest, Publishing,
                                  files, Delivered
  <2>6. CASE OpenReceipt \/ FillReceipt \/ Publish
    BY <1>0, <2>1, <2>2, <2>6 DEF OpenReceipt, FillReceipt, Publish, Publishing, files
  <2>7. CASE PublishFails \/ Abort \/ AbortLeaves
    BY <1>0, <2>1, <2>2, <2>7 DEF PublishFails, Abort, AbortLeaves, Publishing, files, TypeOK
  <2>8. CASE ExitProcess
    BY <1>0, <2>1, <2>2, <2>8 DEF ExitProcess, files
  <2>9. QED
    BY <1>3, <2>3, <2>4, <2>5, <2>6, <2>7, <2>8 DEF MainStep
<1>4. QED
  BY <1>1, <1>2, <1>3, NextIs

LEMMA ReceiptStep == PlanInv /\ [Next]_vars => ReceiptStands'
<1> SUFFICES ASSUME PlanInv, [Next]_vars PROVE ReceiptStands'
  OBVIOUS
<1>0. TypeOK /\ Conclusion /\ ReceiptComesLast /\ FailureHasNoReceipt
  BY DEF PlanInv, ReceiptStands
<1> USE DEF ReceiptStands, ReceiptComesLast, FailureHasNoReceipt
<1>1. ASSUME NEW t \in Tasks, TaskStep(t) PROVE ReceiptStands'
  <2>1. main' = main /\ main \in {"work", "sweep"}
        /\ UNCHANGED <<manifest, receipt, leftover, exit, result, code>>
    BY <1>1, WorkerFrame DEF files, outcome
  <2>2. receipt = "absent"
    BY <1>0, <2>1 DEF Conclusion
  <2>3. QED
    BY <2>1, <2>2
<1>2. ASSUME Outside PROVE ReceiptStands'
  BY <1>0, <1>2, OutsideFrame DEF AllDone, database, work, files, outcome
<1>3. ASSUME MainStep PROVE ReceiptStands'
  <2>1. /\ step' = step /\ deliveryFailed' = deliveryFailed
        /\ (main \notin {"boot", "sweep"} => run' = run)
    BY <1>0, <1>3, MainFrame
  <2>2. AllDone' <=> AllDone
    BY <2>1 DEF AllDone
  <2>3. CASE Boot \/ BootFails \/ AllSettled \/ FinishRun \/ FinishFails
    <3>1. receipt' = receipt /\ receipt = "absent"
      BY <1>0, <2>3 DEF Boot, BootFails, AllSettled, FinishRun, FinishFails, files, Conclusion
    <3>2. QED
      BY <3>1
  <2>4. CASE WriteRunReports \/ NotDelivered \/ WriteManifest
    <3>1. receipt' = receipt /\ receipt = "absent"
      BY <1>0, <2>4 DEF WriteRunReports, NotDelivered, WriteManifest, Publishing, files, Conclusion
    <3>2. QED
      BY <3>1
  <2>5. CASE OpenReceipt \/ FillReceipt \/ Publish
    BY <1>0, <2>1, <2>2, <2>5 DEF OpenReceipt, FillReceipt, Publish, Publishing, files, Conclusion,
                                  Concluding
  <2>6. CASE PublishFails \/ Abort \/ AbortLeaves
    BY <1>0, <2>1, <2>2, <2>6 DEF PublishFails, Abort, AbortLeaves, Withdrawn, Publishing, files,
                                  Conclusion, Concluding
  <2>7. CASE ExitProcess
    BY <1>0, <2>1, <2>2, <2>7 DEF ExitProcess, files
  <2>8. QED
    BY <1>3, <2>3, <2>4, <2>5, <2>6, <2>7 DEF MainStep
<1>4. QED
  BY <1>1, <1>2, <1>3, NextIs

LEMMA PassStep == PlanInv /\ [Next]_vars => PassIsEarned'
<1> SUFFICES ASSUME PlanInv, [Next]_vars PROVE PassIsEarned'
  OBVIOUS
<1>0. TypeOK /\ Charged /\ Conclusion /\ PassIsBacked /\ PassingExit
  BY DEF PlanInv, PassIsEarned
<1> USE DEF PassIsEarned
<1>1. ASSUME NEW t \in Tasks, TaskStep(t) PROVE PassIsEarned'
  <2>1. main' = main /\ main \in {"work", "sweep"} /\ exit' = exit
    BY <1>1, WorkerFrame DEF files, outcome
  <2>2. exit' = 2
    BY <1>0, <2>1 DEF Conclusion
  <2>3. QED
    BY <2>1, <2>2 DEF PassIsBacked, PassingExit
<1>2. ASSUME Outside PROVE PassIsEarned'
  <2>1. PassIsBacked'
    BY <1>0, <1>2, OutsideFrame DEF PassIsBacked, database, work, outcome
  <2>2. PassingExit'
    BY <1>0, <1>2, OutsideFrame DEF PassingExit, Over, files, outcome
  <2>3. QED
    BY <2>1, <2>2
<1>3. ASSUME MainStep PROVE PassIsEarned'
  <2>1. /\ UNCHANGED <<stop, gate, task>>
        /\ (main \notin {"boot", "sweep"} => run' = run)
    BY <1>0, <1>3, MainFrame
  <2>2. PassIsBacked'
    <3>1. CASE FinishRun
      <4>1. SUFFICES ASSUME exit' # 2
                     PROVE  /\ run'[TheRun] = "completed"
                            /\ \A t \in Tasks : task[t] = "completed" /\ gate[t] # 2
        BY <2>1, <4>1 DEF PassIsBacked
      <4>2. ~Incomplete /\ Unfinished = {} /\ Db!FinishRun(TheRun, "completed")
        BY <3>1, <4>1 DEF FinishRun, ExitCode
      <4>3. run'[TheRun] = "completed"
        BY <1>0, <4>2, RunRow, StatusesAre DEF Statuses
      <4>4. \A t \in Tasks : gate[t] # 2 /\ step[t] = "done"
        BY <4>2 DEF Incomplete, Unfinished
      <4>5. QED
        BY <1>0, <4>3, <4>4 DEF Charged
    <3>2. CASE main = "boot" \/ FinishFails \/ AllSettled
      <4>1. exit' = 2
        BY <1>0, <1>3, <3>2 DEF MainStep, Boot, BootFails, AllSettled, FinishRun, FinishFails,
             outcome, WriteRunReports, NotDelivered, WriteManifest, OpenReceipt, FillReceipt,
             Publish, PublishFails, Abort, AbortLeaves, ExitProcess, Publishing, Conclusion
      <4>2. QED
        BY <4>1 DEF PassIsBacked
    <3>3. CASE main \notin {"boot", "sweep"}
      <4>1. exit' = exit
        BY <1>3, <3>3 DEF MainStep, Boot, BootFails, AllSettled, FinishRun, FinishFails,
             outcome, WriteRunReports, NotDelivered, WriteManifest, OpenReceipt, FillReceipt,
             Publish, PublishFails, Abort, AbortLeaves, ExitProcess, Publishing
      <4>2. QED
        BY <1>0, <2>1, <3>3, <4>1 DEF PassIsBacked
    <3>4. main = "sweep" => FinishRun \/ FinishFails
      BY <1>3 DEF MainStep, Boot, BootFails, AllSettled, WriteRunReports, NotDelivered,
           WriteManifest, OpenReceipt, FillReceipt,
           Publish, PublishFails, Abort, AbortLeaves, ExitProcess, Publishing
    <3>5. QED
      BY <3>1, <3>2, <3>3, <3>4
  <2>3. PassingExit'
    <3>1. CASE ExitProcess
      <4>1. /\ main = "returned" /\ code' = ProcessCode
            /\ UNCHANGED <<cancelled, exit, result, receipt>>
        BY <3>1 DEF ExitProcess, stop, files
      <4>2. result \in {"published", "failed"}
        BY <1>0, <4>1 DEF Conclusion, TypeOK, Results
      <4>3. QED
        BY <1>0, <4>1, <4>2 DEF PassingExit, ProcessCode, Conclusion
    <3>2. CASE ~ExitProcess
      <4>1. main' # "exited"
        BY <1>3, <3>2 DEF MainStep, Boot, BootFails, AllSettled, FinishRun, FinishFails,
             WriteRunReports, NotDelivered, WriteManifest, OpenReceipt, FillReceipt,
             Publish, PublishFails, Abort, AbortLeaves, Publishing
      <4>2. QED
        BY <4>1 DEF PassingExit
    <3>3. QED
      BY <3>1, <3>2
  <2>4. QED
    BY <2>2, <2>3
<1>4. QED
  BY <1>1, <1>2, <1>3, NextIs

LEMMA PlanStep == PlanInv /\ [Next]_vars => PlanInv'
<1> SUFFICES ASSUME PlanInv, [Next]_vars PROVE PlanInv'
  OBVIOUS
<1>1. TypeOK /\ Pool /\ StartedOnce /\ Charged
  BY DEF PlanInv
<1>2. TypeOK' /\ Pool' /\ StartedOnce' /\ Charged'
  BY <1>1, TypeStep, PoolStep, StartedStep, ChargedStep
<1>3. Conclusion' /\ ReceiptStands' /\ PassIsEarned'
  BY ConclusionStep, ReceiptStep, PassStep
<1>4. QED
  BY <1>2, <1>3 DEF PlanInv

LEMMA PlanHolds == Spec => []PlanInv
BY PlanInit, PlanStep, PTL DEF Spec

-----------------------------------------------------------------------------
(* The theorems.                                                           *)

\* The controller's state keeps its types; the pool never counts more idle
\* workers than it has.
THEOREM TypeCorrect == Spec => []TypeOK
<1>1. PlanInv => TypeOK
  BY DEF PlanInv
<1>2. QED
  BY <1>1, PlanHolds, PTL

\* A receipt on disk, even an opened one, binds what was there before it, and a
\* failed run leaves none unless unlinking it failed, whatever was killed,
\* cancelled or failed on the way.
THEOREM ReceiptAlwaysStands == Spec => []ReceiptStands
<1>1. PlanInv => ReceiptStands
  BY DEF PlanInv
<1>2. QED
  BY <1>1, PlanHolds, PTL

\* A passing code was earned: by every task's completed row when the run is
\* concluded, and by a whole, published receipt and no cancellation when the
\* process exits.
THEOREM PassIsAlwaysEarned == Spec => []PassIsEarned
<1>1. PlanInv => PassIsEarned
  BY DEF PlanInv
<1>2. QED
  BY <1>1, PlanHolds, PTL

\* The conclusion of a run finds every task reported or charged, no engine was
\* started twice and the pool never outgrows the owner's concurrency.
THEOREM TasksAreAlwaysAccounted == Spec => []TasksAreAccounted
<1>1. ASSUME PlanInv PROVE TasksAreAccounted
  <2>1. NoTaskUnaccounted
    <3>1. SUFFICES ASSUME \/ main = "sweep" /\ Unfinished = {}
                          \/ main \in {"publish", "manifest", "receipt", "fill", "confirm"},
                          NEW t \in Tasks
                   PROVE  step[t] = "done" /\ (gate[t] = 2 \/ task[t] = "completed")
      BY <3>1 DEF NoTaskUnaccounted
    <3>2. step[t] = "done"
      BY <1>1, <3>1 DEF PlanInv, Conclusion, Concluding, AllDone, Unfinished
    <3>3. QED
      BY <1>1, <3>2 DEF PlanInv, Charged
  <2>2. PoolIsSound
    <3>1. Cardinality(BusyTasks) <= Concurrency
      <4>1. Cardinality(BusyTasks) <= Workers /\ Cardinality(BusyTasks) \in Nat
        BY <1>1, BusyCount DEF PlanInv, Pool
      <4>2. QED
        BY <4>1, PoolSize
    <3>2. QED
      BY <1>1, <3>1 DEF PoolIsSound, BusyTasks, PlanInv, StartedOnce
  <2>3. QED
    BY <2>1, <2>2 DEF TasksAreAccounted
<1>2. QED
  BY <1>1, PlanHolds, PTL

-----------------------------------------------------------------------------
(* The controller and the run database together.                           *)

\* What a step does to the database, if anything.
LEMMA TaskCalls ==
    ASSUME NEW t \in Tasks, TaskStep(t)
    PROVE  \/ UNCHANGED database \/ Db!CreateTask(t, TheRun) \/ Db!StartTask(t)
           \/ \E status \in Db!TaskClosings : Db!CompleteTask(t, status)
<1>1. \/ UNCHANGED database \/ Db!CreateTask(t, TheRun) \/ Db!StartTask(t)
      \/ Db!CompleteTask(t, Concluded(t)) \/ Db!CompleteTask(t, "error")
  BY DEF TaskStep, Take, Executed, WorkerDies, Register, Start, Record, StoreFails,
         CloseCreate, CloseStart, CloseEnd, CloseFails, Report, ReportFails, Sweep
<1>2. Concluded(t) \in Db!TaskClosings /\ "error" \in Db!TaskClosings
  BY StatusesAre DEF Statuses
<1>3. QED
  BY <1>1, <1>2

LEMMA MainCalls ==
    ASSUME MainStep
    PROVE  \/ UNCHANGED database \/ Db!CreateRun(TheRun)
           \/ \E status \in Db!Closings : Db!FinishRun(TheRun, status)
<1>1. \/ UNCHANGED database \/ Db!CreateRun(TheRun)
      \/ Db!FinishRun(TheRun, "partial") \/ Db!FinishRun(TheRun, "completed")
  BY DEF MainStep, Boot, BootFails, AllSettled, FinishRun, FinishFails, WriteRunReports,
         NotDelivered, WriteManifest, OpenReceipt, FillReceipt, Publish, PublishFails, Abort,
         AbortLeaves, ExitProcess, Publishing
<1>2. "partial" \in Db!Closings /\ "completed" \in Db!Closings
  BY DEF Db!Closings
<1>3. QED
  BY <1>1, <1>2

\* The controller uses the run database only as that allows: each step of it is
\* one transaction of the database or leaves it alone.  What RunLifecycle
\* promises, and RunStore implements, therefore holds of every run of a plan.
THEOREM LifecycleIsUsed == Spec => Db!Spec
<1>1. Init => Db!Init
  BY DEF Init
<1>2. ASSUME [Next]_vars PROVE [Db!Next]_(Db!vars)
  <2>1. ASSUME UNCHANGED database PROVE [Db!Next]_(Db!vars)
    BY <2>1 DEF database, Db!vars
  <2>2. ASSUME NEW t \in Tasks, TaskStep(t) PROVE [Db!Next]_(Db!vars)
    BY <2>1, <2>2, TaskCalls DEF Db!Next
  <2>3. ASSUME MainStep PROVE [Db!Next]_(Db!vars)
    BY <2>1, <2>3, MainCalls DEF Db!Next
  <2>4. ASSUME Outside PROVE UNCHANGED database
    BY <2>4 DEF Outside, Cancel, Expire, TimerFires, Kill, vars
  <2>5. QED
    BY <1>2, <2>1, <2>2, <2>3, <2>4, NextIs
<1>3. QED
  BY <1>1, <1>2, PTL DEF Spec, Db!Spec

\* Where a task's row stands, from where its actor does.
RowStands(t) ==
    /\ home[t] = IF task[t] = "absent" THEN {} ELSE {TheRun}
    /\ step[t] \in {"waiting", "executing", "register"} => task[t] = "absent"
    /\ step[t] = "start"  => task[t] = "queued"
    /\ step[t] = "record" => task[t] = "running"

\* Tasks from next on have not been taken; the run's row is there while there
\* are workers or a sweep.
Rows ==
    /\ main \in {"boot", "work"} => \A t \in Tasks : next <= t => step[t] = "waiting"
    /\ main = "boot" => run[TheRun] = "absent"
    /\ main \in {"work", "sweep"} => run[TheRun] = "running"
    /\ \A t \in Tasks : RowStands(t)

LEMMA RowsInit == Init => Rows
BY DEF Init, Db!Init, Rows, RowStands

\* The row of the task an actor moves.
LEMMA RowMoves ==
    ASSUME TypeOK, Rows, NEW t \in Tasks, TaskStep(t)
    PROVE  RowStands(t)'
<1>0. /\ RowStands(t) /\ task \in [Tasks -> Db!TaskStatuses] /\ home \in [Tasks -> SUBSET {TheRun}]
      /\ step \in [Tasks -> TaskSteps] /\ next \in 1..TaskCount + 1
  BY DEF Rows, TypeOK
<1>1. home'[t] = IF task'[t] = "absent" THEN {} ELSE {TheRun}
  <2>1. CASE UNCHANGED database
    BY <1>0, <2>1 DEF database, RowStands
  <2>2. CASE Db!CreateTask(t, TheRun)
    BY <1>0, <2>2 DEF Db!CreateTask
  <2>3. CASE Db!StartTask(t)
    BY <1>0, <2>3 DEF Db!StartTask, RowStands
  <2>4. ASSUME NEW status \in Db!TaskClosings, Db!CompleteTask(t, status)
        PROVE  home'[t] = IF task'[t] = "absent" THEN {} ELSE {TheRun}
    BY <1>0, <2>4 DEF Db!CompleteTask, RowStands, Db!TaskClosings, Db!Closings
  <2>5. QED
    BY <2>1, <2>2, <2>3, <2>4, TaskCalls
<1>2. CASE Take(t)
  <2>1. UNCHANGED database /\ main = "work" /\ t = next /\ step'[t] = "executing"
    BY <1>0, <1>2 DEF Take, Taken, Goto
  <2>2. step[t] = "waiting"
    BY <1>0, <2>1 DEF Rows
  <2>3. task'[t] = "absent"
    BY <1>0, <2>1, <2>2 DEF RowStands, database
  <2>4. QED
    BY <1>1, <2>1, <2>3 DEF RowStands
<1>3. ASSUME NEW observed \in BOOLEAN, Executed(t, observed) PROVE RowStands(t)'
  <2>1. UNCHANGED database /\ step[t] = "executing" /\ step'[t] = "register"
    BY <1>0, <1>3 DEF Executed, At, Goto
  <2>2. task'[t] = "absent"
    BY <1>0, <2>1 DEF RowStands, database
  <2>3. QED
    BY <1>1, <2>1, <2>2 DEF RowStands
<1>4. CASE Register(t)
  <2>1. task'[t] = "queued" /\ step'[t] = "start"
    BY <1>0, <1>4 DEF Register, Db!CreateTask, Goto
  <2>2. QED
    BY <1>1, <2>1 DEF RowStands
<1>5. CASE Start(t)
  <2>1. task'[t] = "running" /\ step'[t] = "record"
    BY <1>0, <1>5 DEF Start, Db!StartTask, Goto
  <2>2. QED
    BY <1>1, <2>1 DEF RowStands
<1>6. CASE \/ WorkerDies(t) \/ Record(t) \/ StoreFails(t) \/ Report(t) \/ ReportFails(t)
           \/ CloseCreate(t) \/ CloseStart(t) \/ CloseEnd(t) \/ CloseFails(t) \/ Sweep(t)
  <2>1. \E s \in {"lost", "report", "done"} \cup Closing : Goto(t, s)
    BY <1>6 DEF WorkerDies, Record, StoreFails, Report, ReportFails, CloseCreate, CloseStart,
                CloseEnd, CloseFails, Sweep, Leave, Closing
  <2>2. step'[t] \in {"lost", "report", "done", "close", "closeStart", "closeEnd"}
    BY <1>0, <2>1 DEF Goto, Closing
  <2>3. QED
    BY <1>1, <2>2 DEF RowStands
<1>7. QED
  BY <1>2, <1>3, <1>4, <1>5, <1>6 DEF TaskStep

LEMMA RowsStep == TypeOK /\ Rows /\ [Next]_vars => Rows'
<1> SUFFICES ASSUME TypeOK, Rows, [Next]_vars PROVE Rows'
  OBVIOUS
<1>1. ASSUME NEW t \in Tasks, TaskStep(t) PROVE Rows'
  <2>1. main \in {"work", "sweep"} /\ main' = main /\ run' = run
    BY <1>1, WorkerFrame, TaskRowsStep
  <2>2. ASSUME NEW u \in Tasks, u # t
        PROVE  task'[u] = task[u] /\ home'[u] = home[u] /\ step'[u] = step[u]
    <3>1. task'[u] = task[u]
      BY <1>1, <2>2, TaskRowsStep
    <3>2. home'[u] = home[u]
      <4>1. /\ \/ UNCHANGED database \/ Db!CreateTask(t, TheRun) \/ Db!StartTask(t)
               \/ \E status \in Db!TaskClosings : Db!CompleteTask(t, status)
            /\ home \in [Tasks -> SUBSET {TheRun}]
        BY <1>1, TaskCalls DEF TypeOK
      <4>2. QED
        BY <2>2, <4>1 DEF database, Db!CreateTask, Db!StartTask, Db!CompleteTask
    <3>3. step'[u] = step[u]
      BY <1>1, <2>2, WorkerFrame DEF Goto, TypeOK
    <3>4. QED
      BY <3>1, <3>2, <3>3
  <2>3. \A u \in Tasks : RowStands(u)'
    <3>1. ASSUME NEW u \in Tasks, u # t PROVE RowStands(u)'
      BY <2>2, <3>1 DEF Rows, RowStands
    <3>2. QED
      BY <1>1, <3>1, RowMoves
  <2>4. ASSUME main = "work", NEW u \in Tasks, next' <= u PROVE step'[u] = "waiting"
    <3>1. next \in 1..TaskCount + 1 /\ Tasks = 1..TaskCount
      BY DEF TypeOK, Tasks
    <3>2. CASE Take(t)
      <4>1. t = next /\ next' = t + 1
        BY <3>2 DEF Take, Taken
      <4>2. next <= u /\ u # t
        BY <2>4, <3>1, <4>1
      <4>3. QED
        BY <2>2, <2>4, <4>2 DEF Rows
    <3>3. CASE ~Take(t)
      <4>1. next' = next /\ step[t] # "waiting"
        BY <1>1, <2>4, <3>3 DEF TaskStep, WorkerDies, Executed, Register, Start, Record,
           StoreFails, CloseCreate, CloseStart, CloseEnd, CloseFails, Report, ReportFails,
           Sweep, At
      <4>2. u # t
        BY <2>4, <4>1 DEF Rows
      <4>3. QED
        BY <2>2, <2>4, <4>1, <4>2 DEF Rows
    <3>4. QED
      BY <3>2, <3>3
  <2>5. QED
    BY <2>1, <2>3, <2>4 DEF Rows
<1>2. ASSUME MainStep PROVE Rows'
  <2>1. /\ UNCHANGED <<next, step, task, home>>
        /\ main \notin {"boot", "sweep"} => run' = run
        /\ main' \in MainSteps \ {"killed", "boot"}
        /\ main' = "sweep" => main = "work"
        /\ main' = "work" => main = "boot"
    BY <1>2, MainFrame
  <2>2. main' = "work" => run'[TheRun] = "running"
    <3>1. ASSUME main' = "work" PROVE Boot
      BY <1>2, <3>1 DEF MainStep, Boot, BootFails, AllSettled, FinishRun, FinishFails,
         WriteRunReports, NotDelivered, WriteManifest, OpenReceipt, FillReceipt, Publish,
         PublishFails, Abort, AbortLeaves, ExitProcess, Publishing
    <3>2. Boot => run'[TheRun] = "running"
      BY DEF Boot, Db!CreateRun, TypeOK
    <3>3. QED
      BY <3>1, <3>2
  <2>3. main' = "sweep" => run'[TheRun] = "running"
    BY <2>1 DEF Rows
  <2>4. QED
    BY <2>1, <2>2, <2>3 DEF Rows, RowStands
<1>3. ASSUME Outside PROVE Rows'
  BY <1>3, OutsideFrame DEF Rows, RowStands, database, work
<1>4. QED
  BY <1>1, <1>2, <1>3, NextIs

LEMMA RowsHold == Spec => []Rows
<1>1. TypeOK /\ Rows /\ [Next]_vars => Rows'
  BY RowsStep
<1>2. QED
  BY <1>1, RowsInit, TypeCorrect, PTL DEF Spec

\* However many tasks and workers there are, however they interleave and
\* whatever failed before, the database refuses none of createRun, createTask,
\* startTask, completeTask and finishRun for the state of its rows: only the
\* file system can make them fail.
THEOREM DatabaseNeverRefuses == Spec => []NeverRefused
<1>1. ASSUME PlanInv, Rows PROVE NeverRefused
  <2>1. ASSUME NEW t \in Tasks, main \in {"work", "sweep"}, task[t] # "absent"
        PROVE  Db!InRunning(t)
    BY <1>1, <2>1 DEF Rows, RowStands, Db!InRunning
  <2>2. ASSUME NEW t \in Tasks
        PROVE  /\ At(t, "register") => task[t] = "absent" /\ run[TheRun] = "running"
               /\ At(t, "start")    => task[t] = "queued" /\ Db!InRunning(t)
               /\ At(t, "record")   => task[t] = "running" /\ Db!InRunning(t)
    BY <1>1, <2>1 DEF At, Rows, RowStands
  <2>3. ASSUME main = "sweep", Unfinished = {}, ~Incomplete
        PROVE  /\ Db!TasksOf(TheRun) # {}
               /\ \A t \in Db!TasksOf(TheRun) : task[t] = "completed"
    <3>1. ASSUME NEW t \in Tasks PROVE task[t] = "completed"
      <4>1. step[t] = "done" /\ gate[t] # 2
        BY <2>3 DEF Unfinished, Incomplete
      <4>2. QED
        BY <1>1, <4>1 DEF PlanInv, Charged
    <3>2. 1 \in Tasks
      BY DEF Tasks
    <3>3. home[1] = {TheRun}
      BY <1>1, <3>1, <3>2 DEF Rows, RowStands
    <3>4. QED
      BY <3>1, <3>2, <3>3 DEF Db!TasksOf
  <2>4. QED
    BY <1>1, <2>2, <2>3 DEF NeverRefused, Rows
<1>2. QED
  BY <1>1, RowsHold, PlanHolds, PTL
-----------------------------------------------------------------------------
(* The end of a run.                                                       *)

\* How many moves a task has left at most, before the sweep and in it.
Early == main \in {"boot", "work"}

MovesFrom(s, early) ==
    CASE s = "waiting"    -> 13
      [] s = "executing"  -> 12
      [] s = "register"   -> 11
      [] s = "start"      -> 10
      [] s = "record"     -> 9
      [] s = "close"      -> IF early THEN 8 ELSE 3
      [] s = "closeStart" -> IF early THEN 7 ELSE 2
      [] s = "closeEnd"   -> IF early THEN 6 ELSE 1
      [] s = "report"     -> 5
      [] s = "lost"       -> 4
      [] s = "done"       -> 0

TaskMoves(t) == MovesFrom(step[t], Early)

\* How many the controller has left, and the cancellation with the deadline and
\* its timers, each of which comes once.
MainMoves ==
    CASE main = "boot"                -> 10
      [] main = "work"                -> 9
      [] main = "sweep"               -> 8
      [] main = "publish"             -> 7
      [] main = "manifest"            -> 6
      [] main = "receipt"             -> 5
      [] main = "fill"                -> 4
      [] main = "confirm"             -> 3
      [] main = "abort"               -> 2
      [] main = "returned"            -> 1
      [] main \in {"exited", "killed"} -> 0

Once(happens) == IF happens THEN 0 ELSE 1
Alarms == Once(cancelled) + Once(expired) + Once(fired)

\* None of them ever grows, and every step takes one away.
Bounded  == MainMoves \in 0..10 /\ Alarms \in 0..3 /\ \A t \in Tasks : TaskMoves(t) \in 0..13
Advances ==
    /\ MainMoves' <= MainMoves /\ Alarms' <= Alarms
    /\ \A t \in Tasks : TaskMoves(t)' <= TaskMoves(t)
    /\ \/ MainMoves' < MainMoves \/ Alarms' < Alarms
       \/ \E t \in Tasks : TaskMoves(t)' < TaskMoves(t)

LEMMA MovesAre ==
    ASSUME NEW s \in TaskSteps, NEW early
    PROVE  MovesFrom(s, early) \in 0..13
<1>1. s \in {"waiting", "executing", "register", "start", "record"} => MovesFrom(s, early) \in 9..13
  BY DEF MovesFrom
<1>2. s \in Closing => MovesFrom(s, early) \in 1..8
  BY DEF MovesFrom, Closing
<1>3. s \in {"report", "lost", "done"} => MovesFrom(s, early) \in 0..5
  BY DEF MovesFrom
<1>4. QED
  BY <1>1, <1>2, <1>3 DEF TaskSteps, Busy, Closing

LEMMA LaterIsShorter ==
    ASSUME NEW s \in TaskSteps, NEW early, NEW later, later => early
    PROVE  MovesFrom(s, later) <= MovesFrom(s, early)
<1>1. CASE s \in Closing
  BY <1>1 DEF MovesFrom, Closing
<1>2. CASE s \notin Closing
  <2>1. MovesFrom(s, later) = MovesFrom(s, early)
    BY <1>2 DEF MovesFrom, TaskSteps, Busy, Closing
  <2>2. QED
    BY <2>1, MovesAre
<1>3. QED
  BY <1>1, <1>2

LEMMA MovesBounded == TypeOK => Bounded
<1> SUFFICES ASSUME TypeOK PROVE Bounded
  OBVIOUS
<1>1. MainMoves \in 0..10
  <2>1. main \in {"boot", "work", "sweep", "publish"} => MainMoves \in 7..10
    BY DEF MainMoves
  <2>2. main \in {"manifest", "receipt", "fill", "confirm"} => MainMoves \in 3..6
    BY DEF MainMoves
  <2>3. main \in {"abort", "returned", "exited", "killed"} => MainMoves \in 0..2
    BY DEF MainMoves
  <2>4. main \in MainSteps
    BY DEF TypeOK
  <2>5. QED
    BY <2>1, <2>2, <2>3, <2>4 DEF MainSteps
<1>2. Alarms \in 0..3
  BY DEF Alarms, Once
<1>3. ASSUME NEW t \in Tasks PROVE TaskMoves(t) \in 0..13
  BY MovesAre DEF TaskMoves, TypeOK
<1>4. QED
  BY <1>1, <1>2, <1>3 DEF Bounded

\* A task moves forward only.  What a worker lost, or left in the middle, the
\* sweep takes up on a shorter path, which has no report.
LEMMA TaskAdvances ==
    ASSUME TypeOK, Rows, NEW t \in Tasks, TaskStep(t)
    PROVE  \E s : Goto(t, s) /\ MovesFrom(s, Early) < MovesFrom(step[t], Early)
<1>1. Early <=> main \in {"boot", "work"}
  BY DEF Early
<1>2. CASE Take(t)
  <2>1. Goto(t, "executing") /\ step[t] = "waiting"
    BY <1>2 DEF Take, Taken, Rows, TypeOK, Tasks
  <2>2. MovesFrom("executing", Early) = 12 /\ MovesFrom("waiting", Early) = 13
    BY DEF MovesFrom
  <2>3. QED
    BY <2>1, <2>2
<1>3. CASE \/ \E observed \in BOOLEAN : Executed(t, observed)
           \/ Register(t) \/ Start(t) \/ Record(t) \/ StoreFails(t)
  <2>1. /\ step[t] \in {"executing", "register", "start", "record"}
        /\ \/ step[t] = "executing" /\ Goto(t, "register")
           \/ step[t] = "register" /\ Goto(t, "start")
           \/ step[t] = "start" /\ Goto(t, "record")
           \/ step[t] = "record" /\ Goto(t, "report")
           \/ step[t] # "executing" /\ Goto(t, "close")
    BY <1>3 DEF Executed, Register, Start, Record, StoreFails, At
  <2>2. /\ MovesFrom("executing", Early) = 12 /\ MovesFrom("register", Early) = 11
        /\ MovesFrom("start", Early) = 10 /\ MovesFrom("record", Early) = 9
        /\ MovesFrom("close", Early) \in 3..8 /\ MovesFrom("report", Early) = 5
    BY DEF MovesFrom
  <2>3. QED
    BY <2>1, <2>2
<1>4. CASE CloseCreate(t) \/ CloseStart(t) \/ CloseEnd(t) \/ CloseFails(t)
  <2>1. /\ main \in {"work", "sweep"}
        /\ \/ step[t] = "close" /\ Goto(t, "closeStart")
           \/ step[t] = "closeStart" /\ Goto(t, "closeEnd")
           \/ step[t] \in {"close", "closeEnd"} /\ main = "work" /\ Goto(t, "report")
           \/ step[t] \in {"close", "closeEnd"} /\ Goto(t, "done")
    BY <1>4 DEF CloseCreate, CloseStart, CloseEnd, CloseFails, Leave, At
  <2>2. /\ MovesFrom("close", Early) = MovesFrom("closeStart", Early) + 1
        /\ MovesFrom("closeStart", Early) = MovesFrom("closeEnd", Early) + 1
        /\ MovesFrom("closeEnd", Early) = IF Early THEN 6 ELSE 1
        /\ MovesFrom("report", Early) = 5 /\ MovesFrom("done", Early) = 0
    BY DEF MovesFrom
  <2>3. main = "work" => Early
    BY <1>1
  <2>4. QED
    BY <2>1, <2>2, <2>3
<1>5. CASE WorkerDies(t) \/ Report(t) \/ ReportFails(t)
  <2>1. \/ step[t] \in {"executing", "report"} /\ Goto(t, "lost")
        \/ step[t] = "report" /\ Goto(t, "done")
    BY <1>5 DEF WorkerDies, Report, ReportFails, At
  <2>2. /\ MovesFrom("executing", Early) = 12 /\ MovesFrom("report", Early) = 5
        /\ MovesFrom("lost", Early) = 4 /\ MovesFrom("done", Early) = 0
    BY DEF MovesFrom
  <2>3. QED
    BY <2>1, <2>2
<1>6. CASE Sweep(t)
  <2>1. /\ Goto(t, "close") /\ main = "sweep" /\ step[t] \in TaskSteps \ {"done"}
        /\ step[t] \notin Closing
    BY <1>6 DEF Sweep, Unfinished, TypeOK
  <2>2. MovesFrom("close", Early) = 3
    BY <1>1, <2>1 DEF MovesFrom
  <2>3. \A s \in TaskSteps \ ({"done"} \cup Closing) : MovesFrom(s, Early) \in 4..13
    BY DEF MovesFrom, TaskSteps, Busy, Closing
  <2>4. QED
    BY <2>1, <2>2, <2>3
<1>7. QED
  BY <1>2, <1>3, <1>4, <1>5, <1>6 DEF TaskStep

\* So does the controller, and the sweep begins when no task is half stored.
LEMMA MainAdvances ==
    ASSUME TypeOK, MainStep \/ Kill
    PROVE  MainMoves' < MainMoves /\ Alarms' = Alarms /\ step' = step /\ (Early' => Early)
<1>1. UNCHANGED <<stop, step>> /\ main' \in MainSteps /\ main \notin {"exited", "killed"}
  BY MainFrame DEF Kill, work, MainSteps, Over
<1>2. Alarms' = Alarms
  BY <1>1 DEF Alarms, stop
<1>3. \/ main = "boot" /\ main' \in {"work", "abort"}
      \/ main = "work" /\ main' = "sweep"
      \/ main = "sweep" /\ main' \in {"publish", "abort"}
      \/ main = "publish" /\ main' \in {"manifest", "returned", "abort"}
      \/ main = "manifest" /\ main' \in {"receipt", "abort"}
      \/ main = "receipt" /\ main' \in {"fill", "abort"}
      \/ main = "fill" /\ main' \in {"confirm", "abort"}
      \/ main = "confirm" /\ main' \in {"returned", "abort"}
      \/ main = "abort" /\ main' = "returned"
      \/ main = "returned" /\ main' = "exited"
      \/ main' = "killed"
  <2>1. CASE Boot \/ BootFails \/ AllSettled \/ FinishRun \/ FinishFails \/ ExitProcess \/ Kill
    BY <2>1 DEF Boot, BootFails, AllSettled, FinishRun, FinishFails, ExitProcess, Kill
  <2>2. CASE \/ WriteRunReports \/ NotDelivered \/ WriteManifest \/ OpenReceipt \/ FillReceipt
             \/ Publish \/ PublishFails \/ Abort \/ AbortLeaves
    BY <2>2 DEF WriteRunReports, NotDelivered, WriteManifest, OpenReceipt, FillReceipt, Publish,
                PublishFails, Abort, AbortLeaves, Publishing
  <2>3. QED
    BY <2>1, <2>2 DEF MainStep
<1>4. Early' => Early
  BY <1>3 DEF Early
<1>5. MainMoves' < MainMoves
  <2>1. CASE main' = "killed"
    <3>1. MainMoves' = 0
      BY <2>1 DEF MainMoves
    <3>2. main \in MainSteps \ {"exited", "killed"}
      BY <1>1 DEF TypeOK
    <3>3. main \in {"boot", "work", "sweep", "publish", "manifest"} => MainMoves \in 6..10
      BY DEF MainMoves
    <3>4. main \in {"receipt", "fill", "confirm", "abort", "returned"} => MainMoves \in 1..5
      BY DEF MainMoves
    <3>5. QED
      BY <3>1, <3>2, <3>3, <3>4 DEF MainSteps
  <2>2. CASE main \in {"boot", "work", "sweep"} /\ main' # "killed"
    BY <1>3, <2>2 DEF MainMoves
  <2>3. CASE main \in {"publish", "manifest", "receipt"} /\ main' # "killed"
    BY <1>3, <2>3 DEF MainMoves
  <2>4. CASE main \in {"fill", "confirm", "abort", "returned"} /\ main' # "killed"
    BY <1>3, <2>4 DEF MainMoves
  <2>5. QED
    BY <1>3, <2>1, <2>2, <2>3, <2>4
<1>6. QED
  BY <1>1, <1>2, <1>4, <1>5

\* Whatever fails, dies or is cancelled, a run goes forward: a task, the
\* controller or one of its alarms makes a move with every step and nothing ever
\* takes one back.  So a run has 13 steps a task and 13 of its own at most, and
\* neither the pool nor the sweep can go on for ever.
THEOREM RunsAreFinite == Spec => []Bounded /\ [][Advances]_vars
<1>1. ASSUME TypeOK, Rows, Bounded, Bounded', [Next]_vars PROVE [Advances]_vars
  <2>0. /\ MainMoves \in 0..10 /\ MainMoves' \in 0..10 /\ Alarms \in 0..3 /\ Alarms' \in 0..3
        /\ \A t \in Tasks : TaskMoves(t) \in 0..13 /\ TaskMoves(t)' \in 0..13
    BY <1>1 DEF Bounded
  <2>1. ASSUME NEW t \in Tasks, TaskStep(t) PROVE Advances
    <3>1. main' = main /\ UNCHANGED stop
      BY <2>1, WorkerFrame
    <3>2. MainMoves' = MainMoves /\ Alarms' = Alarms /\ Early' = Early
      BY <3>1 DEF MainMoves, Alarms, Early, stop
    <3>3. PICK s : Goto(t, s) /\ MovesFrom(s, Early) < MovesFrom(step[t], Early)
      BY <1>1, <2>1, TaskAdvances
    <3>4. \A u \in Tasks : step'[u] = IF u = t THEN s ELSE step[u]
      BY <1>1, <3>3 DEF Goto, TypeOK
    <3>5. TaskMoves(t)' < TaskMoves(t)
      <4>1. TaskMoves(t) = MovesFrom(step[t], Early) /\ TaskMoves(t)' = MovesFrom(s, Early)
        BY <3>2, <3>4 DEF TaskMoves
      <4>2. QED
        BY <3>3, <4>1
    <3>6. \A u \in Tasks : u # t => TaskMoves(u)' = TaskMoves(u)
      BY <3>2, <3>4 DEF TaskMoves
    <3>7. \A u \in Tasks : TaskMoves(u)' <= TaskMoves(u)
      BY <2>0, <3>5, <3>6
    <3>8. MainMoves' <= MainMoves /\ Alarms' <= Alarms
      BY <2>0, <3>2
    <3>9. QED
      BY <3>5, <3>7, <3>8 DEF Advances
  <2>2. ASSUME MainStep \/ Kill PROVE Advances
    <3>1. MainMoves' < MainMoves /\ Alarms' = Alarms /\ step' = step /\ (Early' => Early)
      BY <1>1, <2>2, MainAdvances
    <3>2. ASSUME NEW t \in Tasks PROVE TaskMoves(t)' <= TaskMoves(t)
      <4>1. TaskMoves(t)' = MovesFrom(step[t], Early') /\ step[t] \in TaskSteps
        BY <1>1, <3>1 DEF TaskMoves, TypeOK
      <4>2. MovesFrom(step[t], Early') <= MovesFrom(step[t], Early)
        BY <3>1, <4>1, LaterIsShorter
      <4>3. QED
        BY <4>1, <4>2 DEF TaskMoves
    <3>3. MainMoves' <= MainMoves /\ Alarms' <= Alarms
      BY <2>0, <3>1
    <3>4. QED
      BY <3>1, <3>2, <3>3 DEF Advances
  <2>3. ASSUME Cancel \/ Expire \/ TimerFires PROVE Advances
    <3>1. step' = step /\ main' = main
      BY <2>3 DEF Cancel, Expire, TimerFires, work
    <3>2. MainMoves' = MainMoves /\ \A t \in Tasks : TaskMoves(t)' = TaskMoves(t)
      BY <3>1 DEF MainMoves, TaskMoves, Early
    <3>3. Alarms' < Alarms
      BY <2>3 DEF Cancel, Expire, TimerFires, Alarms, Once
    <3>4. /\ MainMoves' <= MainMoves /\ Alarms' <= Alarms
          /\ \A t \in Tasks : TaskMoves(t)' <= TaskMoves(t)
      BY <2>0, <3>2, <3>3
    <3>5. QED
      BY <3>3, <3>4 DEF Advances
  <2>4. QED
    BY <1>1, <2>1, <2>2, <2>3 DEF Next, Progress
<1>2. Spec => []Bounded
  BY MovesBounded, TypeCorrect, PTL
<1>3. QED
  BY <1>1, <1>2, RowsHold, TypeCorrect, PTL DEF Spec
=============================================================================
