SPECIFICATION Spec
CONSTANTS
    Adapters = {"sql", "mysql", "sqlite", "mongo", "supabase", "redis", "elastic", "surreal", "cassandra"}
    AProcs = {p1, p2}
    AKeys = {k1, k2}
    MaxRecs = 2
    MaxOps = 2
    DefaultLimit = 1
    AFaults = TRUE
    Backends = {"memory", "fs", "s3"}
    BProcs = {b1, b2}
    Stems = 2
    MaxUploads = 3
    MaxBlobOps = 3
    PageSize = 1
    BlobFaults = TRUE
    Names = {n1, n2}
    MaxNamed = 2
    MaxComps = 3
    EUsers = {u1}
INVARIANTS
    AdaptersKeepRecords
    BlobsAreKept
PROPERTIES
    WalksEnd
    EntitiesAgree
\* The operations of a behaviour are bounded.
CHECK_DEADLOCK FALSE
