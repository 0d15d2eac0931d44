SPECIFICATION FairSpec
CONSTANTS
    Tickers = {acme}
    Instances = {east, west}
    MaxFiling = 1
    Day = 3
    StartTime = 2
    MaxTime = 2
    Ttl = 2
    NegTtl = 2
    MaxStale = 3
    Free = Free
    Orphan = Orphan
    Hazards = {"redis", "store", "poll", "lease", "crash", "evict", "provider", "corrupt"}
INVARIANTS
    CachesAreCommitted
    LocksAreLetGo
PROPERTIES
    LockIsNotStolen
    EveryLoadEnds
CHECK_DEADLOCK FALSE
