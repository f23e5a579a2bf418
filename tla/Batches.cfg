SPECIFICATION Spec
CONSTANTS
    None = None
    n1 = n1
    n2 = n2
    k1 = k1
    k2 = k2
    Node = {n1, n2}
    Check = {k1, k2}
    Layouts <- MCLayouts
    Batch = {b1, b2, b3}
    MaxPolls = 2
INVARIANTS
    TypeOK
    PreparationCounts
    ReturnsUsableBatch
    ReturnedBatchesAreReused
PROPERTY
    EveryCallEnds
