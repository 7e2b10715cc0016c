\* Two generated calls and a control share the caps of an authenticated run.
SPECIFICATION FairSpec
CONSTANTS
    Calls = {g1, g2, k1}
    Controls = {k1}
    Others = {}
    RunBudget = 3
    MaxRequests = 2
    GeneratedMax = 1
    MaxSingle = 1
    MaxTotal = 2
    ChunkSizes = {1}
    ChunkBound = 1
    Authenticated = TRUE
\* The engine makes no more calls and the gate is closed.
CHECK_DEADLOCK FALSE
INVARIANTS
    TypeOK
    OpensAreBounded
PROPERTIES
    CloseReturns
