CONSTANTS
    Artifacts = {1, 2}
    Workers = {w1, w2}
    WorkerId <- OwnIds
    NoWorker = NoWorker
    Limit = 2
    MaxFaults = 2
SPECIFICATION FairSpec
INVARIANTS
    VerdictIsOfLatestClaim
    UnavailableHasReason
PROPERTIES
    VerdictIsFinal
    EventuallySettled
CHECK_DEADLOCK FALSE
