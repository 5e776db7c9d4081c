\* Two commands, one after the other or at once, on two objects.
CONSTANTS
    Null = Null
    BucketIds = {b1, b2}
    Names = {n1, n2}
    ObjectIds = {o1, o2}
    Chunks = {c1}
    Commands = {k1, k2}
    Padded = {FALSE}
    MaxBytes = 1
SPECIFICATION Spec
SYMMETRY Symmetry
INVARIANTS
    CommandTypeOK
    Constraints
    TruthfulUnlessRaced
PROPERTIES
    ReportMatchesView
    PruneKeepsViews
    RemovedForGood
    StatusAddsUp
