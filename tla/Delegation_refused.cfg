CONSTANTS
    Callers = {c1, c2}
    Runs = {"run1", "run2"}
    ScopeOf <- MCScopeOf
    Roots = {"root", "forged", "abroad"}
    RootRow <- MCRootRow
    Requests <- Refused
    Nothing = Nothing
    MaxFaults = 1
    MaxTime = 1
SPECIFICATION FairSpec
PROPERTIES
    EveryCallIsAnswered
CHECK_DEADLOCK FALSE
