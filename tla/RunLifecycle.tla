---------------------------- MODULE RunLifecycle ----------------------------
(***************************************************************************)
(* What a run database promises about runs and tasks, with no surfaces,    *)
(* evidence or ledgers: tasks and runs only move forward, everything ends  *)
(* with the run, and a run is "completed" only over completed tasks.       *)
(* RunStore implements it and PlanRun is built on it.                      *)
(***************************************************************************)
EXTENDS Naturals

CONSTANTS
    Runs,
    Tasks

VARIABLES
    run,        \* run[r]: "absent" until created, then its status
    task,       \* task[t]: "absent" until created, then its status
    home        \* home[t]: the runs task t belongs to, none or one

vars == <<run, task, home>>

Closings    == {"completed", "partial", "error"}
TaskClosings == Closings \cup {"skipped"}

RunStatuses  == {"absent", "running"} \cup Closings
TaskStatuses == {"absent", "queued", "running"} \cup TaskClosings

Init ==
    /\ run = [r \in Runs |-> "absent"]
    /\ task = [t \in Tasks |-> "absent"]
    /\ home = [t \in Tasks |-> {}]

InRunning(t) == \E r \in home[t] : run[r] = "running"

CreateRun(r) ==
    /\ run[r] = "absent"
    /\ run' = [run EXCEPT ![r] = "running"]
    /\ UNCHANGED <<task, home>>

CreateTask(t, r) ==
    /\ task[t] = "absent" /\ run[r] = "running"
    /\ task' = [task EXCEPT ![t] = "queued"]
    /\ home' = [home EXCEPT ![t] = {r}]
    /\ UNCHANGED run

StartTask(t) ==
    /\ task[t] = "queued" /\ InRunning(t)
    /\ task' = [task EXCEPT ![t] = "running"]
    /\ UNCHANGED <<run, home>>

CompleteTask(t, status) ==
    /\ task[t] = "running" /\ InRunning(t)
    /\ task' = [task EXCEPT ![t] = status]
    /\ UNCHANGED <<run, home>>

TasksOf(r) == {t \in Tasks : r \in home[t]}

FinishRun(r, status) ==
    /\ run[r] = "running"
    /\ status = "completed" =>
         /\ TasksOf(r) # {}
         /\ \A t \in TasksOf(r) : task[t] = "completed"
    /\ run' = [run EXCEPT ![r] = status]
    /\ UNCHANGED <<task, home>>

Next ==
    \/ \E r \in Runs : \/ CreateRun(r)
                       \/ \E status \in Closings : FinishRun(r, status)
    \/ \E t \in Tasks : \/ \E r \in Runs : CreateTask(t, r)
                        \/ StartTask(t)
                        \/ \E status \in TaskClosings : CompleteTask(t, status)

Spec == Init /\ [][Next]_vars
=============================================================================
