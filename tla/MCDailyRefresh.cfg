SPECIFICATION Spec
CONSTANTS
    Tickers = {acme, bolt}
    Invocations = {first, second}
    MaxFiling = 1
    Day = 2
    StartTime = 0
    MaxTime = 2
    Concurrency = 1
    MaxFaults = 1
    MaxCrashes = 1
SYMMETRY Symmetry
INVARIANTS
    OneCyclePerDate
    SucceededClaimIsVerified
    SucceededRunIsComplete
    CountersReconcile
    RunningHeadIsOwed
PROPERTIES
    CycleSpec
    DecidedClaimsAreFinal
CHECK_DEADLOCK FALSE
