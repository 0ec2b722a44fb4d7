\* No symmetry: a liveness property is checked.
SPECIFICATION FairSpec
CONSTANTS
    Procs = {p1, p2}
    Ids = {a, b}
    MaxVersion = 2
    MirrorFails = TRUE
    Bypass = TRUE
INVARIANTS TypeOK DriftExplained
PROPERTIES HealedByNextWrite DriftHeals
CHECK_DEADLOCK FALSE
