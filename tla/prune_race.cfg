\* An upload of known contents is answered while prune deletes them.
CONSTANTS
    Null = Null
    BucketIds = {b1}
    Names = {n1}
    ObjectIds = {o1, o2}
    Chunks = {c1}
    Uploads = {u1, u2}
    Readers = {}
    RequestIds = {}
    Exclusive = TRUE
    Pruning = TRUE
    MaxBytes = 1
    MaxFaults = 0
SPECIFICATION Spec
PROPERTY PruneSparesReferenced
