CONSTANTS
    Items = {1, 2}
    Workers = {w1, w2}
    WorkerId <- OwnIds
    NoWorker = NoWorker
    Limit = 2
    MaxFaults = 3
SPECIFICATION FairSpec
INVARIANTS
    DuplicatesNeedFaults
PROPERTIES
    LeaseIsRespected
    ImplementsAtLeastOnce
    EventuallyPublished
CHECK_DEADLOCK FALSE
