CONSTANTS
    w1 = w1
    w2 = w2
    w3 = w3
    k1 = k1
    k2 = k2
    k3 = k3
    NoBucket = NoBucket
    Workers = {w1, w2, w3}
    Keys = {k1, k2, k3}
    Watched = k1
    Limit = 2
    Window = 4
    MaxKeys = 2
    TicksPerSecond = 2
    MaxStall = 1
    MaxTime = 6
SPECIFICATION Spec
SYMMETRY Symmetry
INVARIANT TypeOK
INVARIANT BoundedAccounting
INVARIANT AtMostTwoBudgets
PROPERTY BudgetsRunTheirWindow
PROPERTY RetryAfterIsEnough
