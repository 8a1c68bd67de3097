CONSTANTS
    Publishers = {1, 2}
    Pids = {1}
    Pid <- OnePid
    Inodes = {i1, i2, i3}
    Nothing = Nothing
    MaxCrashes = 0
SPECIFICATION StoreSpec
INVARIANTS
    TargetIsWhole
CHECK_DEADLOCK FALSE
