CONSTANTS
    Callers = {c1, c2, c3}
    Runs = {"run1", "run2"}
    ScopeOf <- MCScopeOf
    Nothing = Nothing
    Requests <- Everything
    MaxFaults = 1
SPECIFICATION FairSpec
INVARIANTS
    ReconstructionSucceeds
    BatchesAreWhole
    EffectsAreBound
    AnnouncedOnce
PROPERTIES
    ExactReplaysAreAccepted
    EveryCallIsAnswered
CHECK_DEADLOCK FALSE
