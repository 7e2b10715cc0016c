\* One run, two tasks, two checks of one surface: plans, coverage, repeated
\* observations with verdicts in between, and completion.
SPECIFICATION Spec
CONSTANTS
    Runs = {r1}
    Tasks = {t1, t2}
    Surfaces = {s1}
    Checks = {group, detail}
    Places = {p1}
    NormalPlace <- OwnPlace
    Rules = {rule}
    FindingIds = {f1, f2}
    Severities = {1, 2}
    MaxRunItems = 2
    MaxFindingIds = 1
    MaxTaskObservations = 2
    Claims <- SmallClaims
    Reported = {"executed", "skipped"}
SYMMETRY IdSymmetry
\* A database is used until its runs have finished.
CHECK_DEADLOCK FALSE
INVARIANTS
    TypeOK
    FindingsFollowEvidence
    ConclusionsStand
PROPERTIES
    RecordsStand
    KeepsLifecycle
