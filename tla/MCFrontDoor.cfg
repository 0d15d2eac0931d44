SPECIFICATION Spec
CONSTANTS
    Day = 2
    MaxTime = 2
    MaxOutages = 1
    Instances = {ann, ben}
    Identities = {home}
    Attempts = {one, two, three}
    Limit = 1
    Nobody = Nobody
    MaxRestarts = 1
    Pollers = {first, second}
    CacheSeconds = 2
    Visits = {one, two, three}
    MaxGrants = 3
    MaxFlows = 1
    MaxLapses = 1
    Users = {ann, ben}
    Keys = {one, two, three}
    Calls = {first, second}
    None = None
    MaxKeys = 1
    MaxFaults = 1
SYMMETRY Symmetry
INVARIANTS
    LimitIsKept
    ProbesApart
    EndedSessionsAreNotServed
    SignedOutForCause
    AuditAgreesWithKeys
    LimitHoldsButForOverlaps
PROPERTIES
    RevokedKeysAreFrozen
    OnlyOwnersChangeKeys
CHECK_DEADLOCK FALSE
