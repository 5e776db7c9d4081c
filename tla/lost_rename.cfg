\* Contents are uploaded again after a crash kept their part from being renamed.
CONSTANTS
    Null = Null
    BucketIds = {b1}
    Names = {n1}
    ObjectIds = {o1, o2}
    Chunks = {c1}
    Uploads = {u1, u2}
    Readers = {}
    RequestIds = {}
    Exclusive = TRUE
    Pruning = FALSE
    MaxBytes = 1
    MaxFaults = 1
SPECIFICATION Spec
PROPERTY UploadedPreviously
