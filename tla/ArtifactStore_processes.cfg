CONSTANTS
    Publishers = {1, 2, 3}
    Pids = {1, 2, 3}
    Pid <- OwnPid
    Inodes = {i1, i2, i3, i4}
    Nothing = Nothing
    MaxCrashes = 1
SPECIFICATION StoreFairSpec
INVARIANTS
    TargetIsWhole
PROPERTIES
    EventuallyPublished
CHECK_DEADLOCK FALSE
