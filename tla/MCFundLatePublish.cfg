SPECIFICATION Spec
CONSTANTS
    Tickers = {acme}
    Instances = {east, west}
    MaxFiling = 1
    Day = 3
    StartTime = 2
    MaxTime = 3
    Ttl = 2
    NegTtl = 2
    MaxStale = 3
    Free = Free
    Orphan = Orphan
    Hazards = {}
SYMMETRY Symmetry
INVARIANTS
    CurrentCopiesAreVerified
CHECK_DEADLOCK FALSE
