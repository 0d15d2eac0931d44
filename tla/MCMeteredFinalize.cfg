SPECIFICATION Spec
CONSTANTS
    Users = {ann}
    Keys = {red}
    Calls = {first}
    None = None
    MaxKeys = 1
    MaxFaults = 1
    Requests = {north}
    Quota = 1
    MaxDay = 0
INVARIANTS
    BuiltResponseStands
CHECK_DEADLOCK FALSE
