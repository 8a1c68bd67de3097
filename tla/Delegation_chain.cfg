CONSTANTS
    Callers = {c1, c2, c3}
    Runs = {"run1"}
    ScopeOf <- MCScopeOf
    Roots = {"root"}
    RootRow <- MCRootRow
    Requests <- Chain
    Nothing = Nothing
    MaxFaults = 1
    MaxTime = 1
SPECIFICATION Spec
INVARIANTS
    AuthorityShrinks
    JournalIsChained
    ChainIsUncontended
    RecordedOnce
    AnswersAreTrue
PROPERTIES
    NoGrantUnderRevoked
    RetriesAreHonoured
CHECK_DEADLOCK FALSE
