SPECIFICATION Spec
CONSTANTS
    Seeders = {s1, s2}
    MaxSeedings = 3
    MaxMeddling = 2
    SeedFails = TRUE
    SqlBackends = {"sql", "sqlite"}
    MaxStarts = 3
    StatementsFail = TRUE
    Migrations = {m1, m2}
    RegistryProcs = {p1, p2}
    MaxSchemaRequests = 4
INVARIANTS
    SchemasAreApplied
PROPERTIES
    OperatorsAreRespected
\* Seedings, starts and requests are bounded, so behaviours end.
CHECK_DEADLOCK FALSE
