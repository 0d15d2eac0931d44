SPECIFICATION FairSpec
CONSTANTS
    Tickers = {acme, bolt}
    Invocations = {first, second}
    MaxFiling = 1
    Day = 2
    StartTime = 1
    MaxTime = 3
    Concurrency = 1
    MaxFaults = 0
    MaxCrashes = 0
PROPERTIES
    EveryRunIsReconciled
CHECK_DEADLOCK FALSE
