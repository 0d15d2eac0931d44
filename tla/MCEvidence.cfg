SPECIFICATION FairEvidenceSpec
CONSTANTS
    Statements = {"income", "cashflow"}
    Fetches = {one}
    Lookups = {two}
    Slots = 1
    MaxRetries = 1
    Limit = 3
    Shapes <- MCShapes
    Histories <- MCHistories
    Profiles <- MCProfiles
    MaxChanges = 1
    MaxFaults = 1
    Sinks = {east}
    Script = script
    Threads = 2
    MaxTaken = 3
    MaxCaptures = 1
    Retention = 1
    PruneInterval = 1
    LastTick = 2
    MaxMishaps = 1
    Requests = {r1, r2}
    Nobody = Nobody
    MaxCalls = 2
    MaxLeavers = 1
    MaxOddities = 1
INVARIANTS
    FetchKeepsUp
    UnflaggedIsNewest
    OnlyRetiredAreGone
    PruneLeavesTheCap
    CountersMakeUpTheDirectory
    CallsAreReportedOnce
    SharersAgree
CHECK_DEADLOCK FALSE
PROPERTIES
    EveryFetchEnds
