CONSTANTS
    s1 = s1
    s2 = s2
    r1 = r1
    r2 = r2
    r3 = r3
    a1 = a1
    a2 = a2
    q1 = q1
    q2 = q2
    q3 = q3
    Scopes = {s1, s2}
    Runs = {r1, r2, r3}
    Actors = {a1, a2}
    ScopeOf <- MCScopeOf
    LegacyRuns = {r2}
    RetireModes = {TRUE}
    TableLock = TableLock
    NoRequest = NoRequest
    MaxActivations = 3
    Clients = {q1, q2, q3}
    Routes = {"health", "series", "stores"}
    Permits = 2
    PoolSize = 3
SPECIFICATION ServiceSpec
CHECK_DEADLOCK FALSE
INVARIANTS
    SingleAuthority
    LinearHistory
    
PROPERTIES
    NoServingGap
    ImplementsAuthority
    CallsEnd
    RetryAppendsNothing
    
