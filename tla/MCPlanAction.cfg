\* The CLI, an engine in a group of its own and a helper in the engine's.
SPECIFICATION Spec
CONSTANTS
    Cli = "cli"
    Procs <- MCProcs
    Above <- MCAbove
    Group <- MCGroup
\* main has ended.
CHECK_DEADLOCK FALSE
INVARIANTS
    TypeOK
    ReportIsTrue
PROPERTIES
    ActionEnds
