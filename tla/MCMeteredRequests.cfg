SPECIFICATION Spec
CONSTANTS
    Users = {ann}
    Keys = {red, green}
    Calls = {first, second}
    None = None
    MaxKeys = 1
    MaxFaults = 1
    Requests = {north, south}
    Quota = 1
    MaxDay = 1
SYMMETRY Symmetry
INVARIANTS
    AdmittedWithinQuota
    LedgerMatchesCounter
    ServedIsBilled
    LedgerTellsTheOutcome
    BarredKeysStayOut
CHECK_DEADLOCK FALSE
