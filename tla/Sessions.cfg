CONSTANTS
    w1 = w1
    w2 = w2
    w3 = w3
    s1 = s1
    NoRow = NoRow
    Workers = {w1, w2, w3}
    Ids = {s1}
    Policies <- MCPolicies
    MaxInt = 4
    MaxTime = 4
    MaxRestarts = 1
SPECIFICATION Spec
INVARIANT TypeOK
INVARIANT HonouredInsideLifetime
INVARIANT CookieCoveredByRow
INVARIANT RevocationDeniesLaterRequests
PROPERTY OnlyRacedReapsLoseSessions
PROPERTY ImplementsRegistry
SYMMETRY Symmetry
CHECK_DEADLOCK FALSE
