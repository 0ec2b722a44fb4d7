SPECIFICATION Spec
CONSTANTS
    RProcs = {p1, p2}
    RTenants = {t1, t2}
    RUsers = {u1, u2}
    Databases = {"a", "b"}
    MaxRequests2 = 2
    MaxClients = 2
    ClientFails = TRUE
    Switching = TRUE
    WProcs = {w1, w2}
    Flows = {"f1"}
    WTenants = {"a", "b"}
    FileEvents = {"b"}
    MaxT = 4
    TTL = 2
    MaxAsk = 1
    MaxPosts = 2
    MaxEdits = 1
    MaxNodes = 3
    WFails = TRUE
PROPERTIES
    RequestsAreSafe
    RunsAreSound
    RequestsAndRunsEnd
\* Requests, posts and the clock are bounded, so behaviours end.
CHECK_DEADLOCK FALSE
