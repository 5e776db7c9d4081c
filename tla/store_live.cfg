\* Nothing fails; clients may stop sending, share a part, remove
\* and prune at any time.
CONSTANTS
    Null = Null
    BucketIds = {b1}
    Names = {n1}
    ObjectIds = {o1, o2}
    Chunks = {c1}
    Uploads = {u1, u2}
    Readers = {r1}
    RequestIds = {o1}
    Exclusive = FALSE
    Pruning = TRUE
    MaxBytes = 1
    MaxFaults = 0
SPECIFICATION FairSpec
PROPERTIES
    UploadAnswered
    AnsweredIsServed
    PruneEnds
