SPECIFICATION Spec
CONSTANTS
    Tabs = {t1, t2}
    AuthRequests = {q1, q2}
    Accounts = {u1}
    MaxTokensLogin = 4
    SessionIds = {s1}
    LoginFails = TRUE
    LoginExpires = TRUE
    LoginRestarts = TRUE
    SsoProcs = {p1, p2}
    MaxSsoRows = 2
    SamlIds = {x1}
    SsoFails = TRUE
    SsoExpires = TRUE
    Peers = {c1, c2, c3}
    MaxConnections = 2
INVARIANT
    ServerKeepsCount
PROPERTIES
    HandlesAreOneTime
    SignInsAndStopsEnd
