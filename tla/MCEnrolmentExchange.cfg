SPECIFICATION ExchangeSpec
CONSTANTS
    Clients = {c1, c2, c3}
    Admins = {a1, a2}
    NoOne = NoOne
    Lifetime = 2
    Horizon = 2
CHECK_DEADLOCK FALSE
INVARIANTS
    ExchangeTypeOK
PROPERTIES
    GrantSpec
