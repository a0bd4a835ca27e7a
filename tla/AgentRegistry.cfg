SPECIFICATION FairSpec
CONSTANTS
    Agents = {a1, a2}
    Timeout = 6
    CheckPeriod = 3
    MaxCrashes = 1
    MaxFailures = 7
INVARIANTS
    OnlineIsRecent
    OfflineIsSilent
    EntryMatchesClient
PROPERTIES
    SilentAgentDetected
    OnlineAgainUnlessCrashed
