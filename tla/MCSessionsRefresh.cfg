SPECIFICATION SessionsSpec
CONSTANTS
    Visits = {one, two}
    MaxGrants = 3
    MaxFlows = 1
    MaxLapses = 0
SYMMETRY Symmetry
INVARIANTS
    RefreshedIsReturned
CHECK_DEADLOCK FALSE
