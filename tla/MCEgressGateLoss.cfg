\* An authenticated call waits for its permit while another is lost.
SPECIFICATION Spec
CONSTANTS
    Calls = {g1, g2}
    Controls = {}
    Others = {}
    RunBudget = 2
    MaxRequests = 2
    GeneratedMax = 2
    MaxSingle = 1
    MaxTotal = 2
    ChunkSizes = {1}
    ChunkBound = 1
    Authenticated = TRUE
\* The engine makes no more calls and the gate is closed.
CHECK_DEADLOCK FALSE
PROPERTIES
    LossEndsAuthentication
