\* No symmetry: a liveness property is checked.
CONSTANTS
    Procs = {p1, p2}
    Ids = {a}
    TTL = 2
    Deadline = 1
    MaxVersion = 2
    RedisFails = TRUE
    OthersWrite = TRUE
    Transactions = TRUE
SPECIFICATION FairSpec
INVARIANTS TypeOK BoundedStaleness StalenessExplained
PROPERTY StaleEntriesDie
