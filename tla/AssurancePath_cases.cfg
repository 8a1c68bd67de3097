CONSTANTS
    None = None
    Contexts <- MCContexts
    Drafts <- MCDrafts
    CallerBundles <- MCCallerBundles
    People <- MCPeople
    Uses <- MCUses
    Rationales <- MCRationales
    Disclosures <- MCDisclosures
    Alterations <- MCAlterations
    TrustBundles <- MCTrustBundles
    Times = {0, 1}
    CaseFold <- MCCaseFold
    Visible <- MCVisible
    SigningKey = "dev"
    ExecEvents <- MCExecEvents
    TelemetryEvents <- MCTelemetryEvents
    AdapterScope = "tenant/case"
    AdapterLevel = 1
    MaxEvents = 3
    MaxCalls = 6
    MaxEdits = 1
SPECIFICATION Spec
INVARIANTS
    AcceptedPacketsReplay
    AuthorizationIsEarned
    PackedIsAccepted
    SignedIsAuthentic
    CoverageIsHonest
CHECK_DEADLOCK FALSE
