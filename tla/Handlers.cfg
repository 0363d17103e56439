CONSTANTS
    Kinds = {"action", "route"}
    posts = posts
    audit = audit
    g1 = g1
    g2 = g2
    NoPage = NoPage
    ReturnPage = ReturnPage
    Collections = {posts, audit}
    Guards = {g1, g2}
    MaxSteps = 3
SYMMETRY Symmetry
SPECIFICATION Spec
INVARIANT TypeOK
INVARIANT AnswerTellsEveryEffect
INVARIANT GuardsComeFirst
INVARIANT PoliciesReachAnswers
INVARIANT CompiledDoesAsPreviewed
CHECK_DEADLOCK FALSE
