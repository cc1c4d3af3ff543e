SPECIFICATION Spec
CONSTANTS
    h1 = h1
    h2 = h2
    c1 = c1
    c2 = c2
    u1 = u1
    u2 = u2
    s1 = s1
    s2 = s2
    p1 = p1
    q1 = q1
    q2 = q2
    None = None
    NoQuery = NoQuery
    AuthStores <- MCStores
    Handlers <- MCHandlers
    Usernames <- MCUsernames
    OdbcClients <- MCClients
    Statements <- MCStatements
    Portals <- MCPortals
    Queries <- MCQueries
    Fronts <- MCFronts
    MaxActors = 2
    MaxSecrets = 2
    MaxCalls = 4
    MaxMessages = 5
    MaxStarts = 2
INVARIANT AccountsUsable
INVARIANT RunsWhatWasBound
INVARIANT CleanEnd
PROPERTY ShutdownEnds
CHECK_DEADLOCK FALSE
