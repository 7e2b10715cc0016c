\* A policy of each kind; the longest plan has a step for every request allowed, so
\* that a failover leaves it one short.
SPECIFICATION Spec
CONSTANTS
    Policies <- SmallPolicies
    Anonymous = "anonymous"
    MaxRequests = 8
    Addresses = 2
    SurpriseBound = 2
\* The run has ended.
CHECK_DEADLOCK FALSE
INVARIANTS
    TypeOK
    LedgerIsSane
    PassIsEvidenced
    FindingsAreTrue
