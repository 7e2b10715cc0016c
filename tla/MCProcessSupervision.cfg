\* The three lanes; two chunks of two fit, the third does not, and a smaller one
\* fits after a chunk that did not.
SPECIFICATION Spec
CONSTANTS
    Lanes = {"plain", "agent", "strict"}
    Cap = 4
    Sizes = {2, 3}
    ChunkBound = 4
\* The call has ended.
CHECK_DEADLOCK FALSE
INVARIANTS
    TypeOK
    ResultIsTrue
    ResultIsSilent
PROPERTIES
    Resolves
