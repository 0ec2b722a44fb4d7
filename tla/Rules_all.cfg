SPECIFICATION Spec
CONSTANTS
    Tenants = {"acme", "system"}
    Roles = {"god", "user"}
    TKeys = {k1}
    Nonces = {n1, n2}
    MaxTime = 7
    MaxRequests = 2
    WindowTicks = 2
    Unit = 2
    Rate = 1
    MaxTokens = 2
    Expiry = 2
    CleanupEvery = 2
    IntMax = 15
    DefaultLimit = 4
    MaxLine = 5
    MaxRequest = 20
    BufferSize = 4
    MaxHeaders = 3
    MaxLines = 3
    MaxId = 3
    MaxArguments = 4
    MaxParams = 2
    SizeMax = 15
    MaxBytes = 4
    Columns = {"id", "createdAt", "a", "b"}
    CredNames = {"alice", "bob"}
    Mails = {"bob"}
    CPasswords = {"p1", "p2"}
    CTenants = {"acme"}
    MaxCredWrites = 2
    Texts = {"x", "y"}
    EnvKeys = {"k1", "k2"}
    MaxSecrets = 2
    UserNames = {"ann", "ben"}
    UserTenants = {"t1", "t2"}
    MaxSlots = 2
    MaxAccounts = 2
    MaxRpcs = 3
    MaxConns = 1
    MaxBulks = 2
    BulkIds = {1, 2}
    MaxPlain = 2
INVARIANTS
    GateFollowsTheRules
    QueriesAnswerTheRequest
    ValuesSurvive
    ScriptsAreUnderstood
    ComesUpAsConfigured
    RequestsReachTheirRows
    BulkAsTold
PROPERTIES
    LimitsHold
    AccountsAreKept
\* Requests and the clock are bounded, so behaviours end.
CHECK_DEADLOCK FALSE
