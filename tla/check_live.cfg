\* Two objects in two batches: the fewest that check and prune can deadlock over.
CONSTANTS
    ObjectIds = {o1, o2}
    BatchSize = 1
    Quiet = FALSE
    Pruning = TRUE
    MaxAdded = 2
SPECIFICATION FairSpec
CHECK_DEADLOCK FALSE
INVARIANTS
    LastLineIsFinal
PROPERTIES
    CheckEnds
    PruneEnds
