\* A zipline and an HTTP session share one connection to the database.
CONSTANTS
    Null = Null
    Handlers = {z, h}
    Http = {h}
    Connections = {c}
    MaxCalls = 2
    MaxSize = 1
    MaxFaults = 1
SPECIFICATION FairSpec
CHECK_DEADLOCK FALSE
INVARIANTS
    ServerTypeOK
    PoolSound
    InStep
    AnswerFitsCall
    StoreOutlivesHandlers
PROPERTIES
    CallEnds
    StopsAtSignal
