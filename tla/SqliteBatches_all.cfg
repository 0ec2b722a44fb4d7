\* Three threads: a batch that ends, one that begins late, and a bystander.
SPECIFICATION Spec
CONSTANTS
    Procs = {p1, p2, p3}
    Ids = {a, b}
    MaxVersion = 3
    CommitFails = TRUE
    Throws = TRUE
    Crashes = TRUE
SYMMETRY Symmetric
INVARIANTS TypeOK OneBatchAtATime AcknowledgedIsDurable WedgeExplained FailedBatchIsNeverCommitted
CHECK_DEADLOCK FALSE
