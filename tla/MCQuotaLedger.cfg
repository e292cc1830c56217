SPECIFICATION Spec
CONSTANTS
    r1 = r1
    r2 = r2
    r3 = r3
    key = key
    NoKey = NoKey
    AccessKeys = {key}
    Requests = {r1, r2, r3}
    KeyOf <- TwoShareKey
    KeyLimit = 1
    KeyPeriod = 2
    Policies <- ChangingPolicies
    TTL = 2
    Horizon = 3
SYMMETRY KeyHoldersAlike
CHECK_DEADLOCK FALSE
INVARIANTS
    TypeOK
    WindowConserved
    RequestLimitHeld
    KeyAllowanceHeld
    RefreshedStreamsKeepLease
PROPERTIES
    RefusalsAreJustified
