CONSTANTS
    Hosts = {h1, h2}
    Runs = {"run1"}
    Calls <- Competing
    MaxToolCalls = 2
    Nothing = Nothing
    MaxFaults = 1
SPECIFICATION Spec
INVARIANTS
    UsedOncePerLife
    RecordsAgree
    OneCallIsRecorded
CHECK_DEADLOCK FALSE
