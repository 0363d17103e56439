CONSTANTS
    Kinds = {"action", "route"}
    posts = posts
    audit = audit
    g1 = g1
    g2 = g2
    NoPage = NoPage
    ReturnPage = ReturnPage
    Collections = {posts, audit}
    Guards = {g1, g2}
    MaxSteps = 2
SYMMETRY Symmetry
SPECIFICATION Spec
INVARIANT LimitedReadsNothing
CHECK_DEADLOCK FALSE
