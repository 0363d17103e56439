CONSTANTS
    l1 = l1
    l2 = l2
    Garbled = Garbled
    Nothing = Nothing
    Broken = "x"
    Lists <- MCLists
    Listeners = {l1, l2}
    Corrector = l1
    Unwanted <- MCUnwanted
    Correction <- MCCorrection
SPECIFICATION ListSpec
INVARIANT ListsAreWhole
PROPERTY ItemsKeepTheirNodes
INVARIANT ExpressionIsCurrent
INVARIANT ListenersAreCurrent
