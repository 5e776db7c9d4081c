\* Every part has a fresh id: three uploads, removals, prune and one fault.
CONSTANTS
    Null = Null
    BucketIds = {b1}
    Names = {n1}
    ObjectIds = {o1, o2, o3}
    Chunks = {c1}
    Uploads = {u1, u2, u3}
    Readers = {r1}
    RequestIds = {}
    Exclusive = TRUE
    Pruning = TRUE
    MaxBytes = 1
    MaxFaults = 1
SPECIFICATION Spec
SYMMETRY Symmetry
INVARIANTS
    TypeOK
    FreshInv
    HashMatchesContents
    ContentOnDisk
    ServedIsAsked
    AnswerLeavesNoPart
PROPERTIES
    ObjectsNeverChange
    ImplementsBucketStore
