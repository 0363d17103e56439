CONSTANTS
    inner = inner
    outer = outer
    u1 = u1
    u2 = u2
    r1 = r1
    r2 = r2
    Forms <- MCForms
    Inside <- MCInside
    Off <- MCOff
    Subs = {u1, u2}
    Refreshes = {r1, r2}
SPECIFICATION Spec
INVARIANT PendingWhileInFlight
INVARIANT ControlsRestored
PROPERTY SuccessIsShown
PROPERTY EveryFormSettles
CHECK_DEADLOCK FALSE
