SPECIFICATION Spec
CONSTANTS
    t1 = t1
    t2 = t2
    s1 = s1
    s2 = s2
    n1 = n1
    n2 = n2
    Nobody = Nobody
    Keep = Keep
    Tabs = {t1, t2}
    Ids = {s1, s2}
    Nonces = {n1, n2}
    TTL = 1
    MaxTime = 1
    MaxKey = 1
SYMMETRY Symmetry
PROPERTY ActsOnlyWithProof
PROPERTY ProofsWork
