\* Nothing fails but one operation of the batch; nobody else writes.
SPECIFICATION Spec
CONSTANTS
    Ids = {a}
    Fields = {f}
    MaxValue = 2
    MaxLog = 3
    RedisFails = FALSE
    Throws = FALSE
    OthersWrite = FALSE
INVARIANTS RollbackRestores
