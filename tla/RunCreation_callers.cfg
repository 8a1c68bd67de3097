CONSTANTS
    Callers = {c1, c2, c3}
    Requests = {"a", "b", "c", "d"}
    Keys = {"key1", "key2"}
    Runs = {"run1", "run2", "run3"}
    KeyOf <- MCKeyOf
    RunOf <- MCRunOf
    Nothing = Nothing
    MaxFaults = 2
SPECIFICATION FairSpec
INVARIANTS
    AllOrNothing
    NoCallerIsStuck
PROPERTIES
    IsIdempotent
    EveryCallIsAnswered
CHECK_DEADLOCK FALSE
