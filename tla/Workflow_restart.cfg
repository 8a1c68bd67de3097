CONSTANTS
    Hosts = {h1}
    Runs = {"run1"}
    Calls <- Single
    MaxToolCalls = 2
    Nothing = Nothing
    MaxFaults = 1
SPECIFICATION Spec
INVARIANTS
    SingleConsumption
CHECK_DEADLOCK FALSE
