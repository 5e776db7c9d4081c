\* Two uploads name the same part at the same time.
CONSTANTS
    Null = Null
    BucketIds = {b1}
    Names = {n1}
    ObjectIds = {o1, o2}
    Chunks = {c1}
    Uploads = {u1, u2}
    Readers = {}
    RequestIds = {o1}
    Exclusive = FALSE
    Pruning = FALSE
    MaxBytes = 2
    MaxFaults = 0
SPECIFICATION Spec
INVARIANT HashMatchesContents
