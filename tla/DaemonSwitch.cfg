SPECIFICATION SpecRequests
CONSTANTS
    RProcs = {p1}
    RTenants = {t1}
    RUsers = {u1}
    Databases = {"a", "b"}
    MaxRequests2 = 2
    MaxClients = 2
    ClientFails = FALSE
    Switching = TRUE
INVARIANTS
    RequestsUseALiveClient
\* The requests of a behaviour are bounded.
CHECK_DEADLOCK FALSE
