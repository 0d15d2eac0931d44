SPECIFICATION AccountsSpec
CONSTANTS
    Users = {ann}
    Keys = {red, green, blue}
    Calls = {first, second}
    None = None
    MaxKeys = 1
    MaxFaults = 0
SYMMETRY Symmetry
INVARIANTS
    ActiveKeysWithinLimit
CHECK_DEADLOCK FALSE
