SPECIFICATION Spec
CONSTANTS
    Tickers = {acme}
    Instances = {east, west}
    MaxFiling = 1
    Day = 3
    StartTime = 2
    MaxTime = 5
    Ttl = 2
    NegTtl = 2
    MaxStale = 3
    Free = Free
    Orphan = Orphan
    Hazards = {"provider", "store"}
SYMMETRY Symmetry
INVARIANTS
    BootstrapIsSingle
    StoredTickerIsNotRefetched
PROPERTIES
    PromiseSpec
    RejectionsExpire
    UnwarnedAnswersAreCurrent
CHECK_DEADLOCK FALSE
