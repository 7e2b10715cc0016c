\* Three calls of two tasks share a budget of two; one interval is 2 2/3 ms.
SPECIFICATION FairSpec
CONSTANTS
    Tasks <- MCTasks
    Requests <- MCRequests
    MaxRequests = 2
    Interval = 8
    Grain = 3
    DeadlineAt = 3
    TimerSlack = 1
    Horizon = 3
    ByteSizes = {1}
    SafeBytes = 1
\* The run is over when every reservation has settled.
CHECK_DEADLOCK FALSE
INVARIANTS
    TypeOK
    AccountsReconcile
    StoppedIsSettled
    AdmittedInTurn
    PacedApart
PROPERTIES
    ClosedAccountsFrozen
    KeepsPromise
    AllSettle
