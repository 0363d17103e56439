CONSTANTS
    m1 = m1
    m2 = m2
    NoRow = NoRow
    Nobody = Nobody
    Migrators = {m1, m2}
    Drivers = {"sqlite"}
    Parts = {1, 2, 3, 4}
    Versions = {1, 2}
    Checksums = {"a", "b"}
    Library <- EndLibrary
    Batches <- EndBatches
SPECIFICATION Spec
SYMMETRY Symmetry
INVARIANT FailedChangesNothing
