\* Two runs in one database with shared ids, over surfaces whose places may collapse.
SPECIFICATION Spec
CONSTANTS
    Runs = {r1, r2}
    Tasks = {t1, t2}
    Surfaces = {s1, s2}
    Checks = {group}
    Places <- UserPlaces
    NormalPlace <- Collapsed
    Rules = {rule}
    FindingIds = {f1, f2}
    Severities = {1}
    MaxRunItems = 2
    MaxFindingIds = 2
    MaxTaskObservations = 2
    Claims <- SmallClaims
    Reported = {"executed"}
SYMMETRY IdSymmetry
\* A database is used until its runs have finished.
CHECK_DEADLOCK FALSE
INVARIANTS
    SharingKeepsApart
