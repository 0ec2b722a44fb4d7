CONSTANTS
    Procs = {p1, p2}
    Codes = {c}
    Offline = {c}
    MaxTokens = 2
    FamilyLimit = 10
    Fails = TRUE
    Expires = TRUE
SPECIFICATION Spec
SYMMETRY Symmetric
INVARIANTS TypeOK SingleUsePerThread LiveTokensAreLeaves KilledFamilyExplained
