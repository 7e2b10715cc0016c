\* rate: 150 per second, the largest the command line accepts: 6 2/3 ms.
SPECIFICATION Spec
CONSTANTS
    Tasks <- BurstTasks
    Requests <- BurstRequests
    MaxRequests = 3
    Interval = 20
    Grain = 3
    DeadlineAt = 14
    TimerSlack = 0
    Horizon = 14
    ByteSizes = {}
    SafeBytes = 1
CHECK_DEADLOCK FALSE
INVARIANT
    RateHonoured
