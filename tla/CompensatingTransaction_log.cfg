SPECIFICATION Spec
CONSTANTS
    Ids = {a, b}
    Fields = {f}
    MaxValue = 1
    MaxLog = 3
    RedisFails = TRUE
    Throws = TRUE
    OthersWrite = TRUE
INVARIANTS TypeOK LogInverts
