\* Three objects, two archives over each other, a restore and two failures.
CONSTANTS
    ObjectIds = {o1, o2, o3}
    NoDump = NoDump
    Pruning = TRUE
    MaxArchives = 2
    MaxFaults = 2
SPECIFICATION Spec
SYMMETRY Symmetry
CHECK_DEADLOCK FALSE
INVARIANTS
    BackupTypeOK
    ArchiveComplete
    RestoreComplete
