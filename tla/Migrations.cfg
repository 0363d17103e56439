CONSTANTS
    m1 = m1
    m2 = m2
    NoRow = NoRow
    Nobody = Nobody
    Migrators = {m1, m2}
    Drivers = {"sqlite", "postgres"}
    Parts = {1, 2, 3, 4}
    Versions = {1, 2, 3}
    Checksums = {"a", "b"}
    Library <- MCLibrary
    Batches <- MCBatches
SPECIFICATION Spec
SYMMETRY Symmetry
INVARIANT TypeOK
INVARIANT FailedChangesNothing
PROPERTY ImplementsLedger
