\* A client resumes part o1 after failures, one upload at a time.
CONSTANTS
    Null = Null
    BucketIds = {b1}
    Names = {n1}
    ObjectIds = {o1, o2, o3}
    Chunks = {c1}
    Uploads = {u1, u2, u3}
    Readers = {r1}
    RequestIds = {o1}
    Exclusive = TRUE
    Pruning = FALSE
    MaxBytes = 2
    MaxFaults = 2
SPECIFICATION Spec
SYMMETRY Symmetry
INVARIANTS
    HashMatchesContents
    ResumeInv
    AnswerNamesContent
PROPERTY ObjectsNeverChange
