\* Three tasks, two workers: one task waits, or is never taken.
SPECIFICATION FairSpec
CONSTANTS
    TaskCount = 3
    Concurrency = 2
\* The process has exited or was killed.
CHECK_DEADLOCK FALSE
INVARIANTS
    TypeOK
    ReceiptStands
    PassIsEarned
    TasksAreAccounted
    NeverRefused
PROPERTIES
    RunEnds
