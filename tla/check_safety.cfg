\* Batches of two, so that the next one is fetched while a verdict of the last is
\* still to come.  Four objects end evenly, three with a short batch; one may be
\* added meanwhile.
CONSTANTS
    ObjectIds = {o1, o2, o3, o4}
    BatchSize = 2
    Quiet = TRUE
    Pruning = TRUE
    MaxAdded = 1
SPECIFICATION Spec
SYMMETRY Symmetry
CHECK_DEADLOCK FALSE
INVARIANTS
    CheckTypeOK
    EachOnce
    NothingLeft
    ErrorsHaveObjects
    InFlightBounded
