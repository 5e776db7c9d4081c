\* A bucket is added, then renamed; names may be typed with whitespace.
CONSTANTS
    Null = Null
    BucketIds = {b1}
    Names = {n1, n2}
    ObjectIds = {o1}
    Chunks = {c1}
    Commands = {k1, k2}
    Padded = {TRUE, FALSE}
    MaxBytes = 0
SPECIFICATION Spec
INVARIANT TrimmedNamesAccepted
