CONSTANTS
    Commits <- MCCommits
    Ancestors <- MCAncestors
    Tree <- MCTree
    MainHistory <- MCMainHistory
    BranchHistory <- MCBranchHistory
    Pushable <- MCPushable
    NoTag = NoTag
    MaxReruns = 1
    Invocations <- MCInvocations
    Heads = {"r1", "m2"}
    Selections <- MCSelections
    Nothing = Nothing
    Partial = Partial
    MinReleases = 2
    MaxDownloads = 2
    MaxFaults = 1
SPECIFICATION Spec
INVARIANTS
    LinesComeOutInOrder
    ReleasedFromProtected
    PassingReportIsSound
PROPERTIES
    LatestNeverGoesBack
CHECK_DEADLOCK FALSE
