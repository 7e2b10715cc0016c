\* Three calls against a cap of two, with another task on the same budget.
SPECIFICATION Spec
CONSTANTS
    Calls = {c1, c2, c3}
    Controls = {}
    Others = {o}
    RunBudget = 3
    MaxRequests = 2
    GeneratedMax = 0
    MaxSingle = 2
    MaxTotal = 2
    ChunkSizes = {1}
    ChunkBound = 3
    Authenticated = FALSE
\* The engine makes no more calls and the gate is closed.
CHECK_DEADLOCK FALSE
SYMMETRY CallSymmetry
INVARIANTS
    ChargesAreTrue
    RefusalsAreTold
