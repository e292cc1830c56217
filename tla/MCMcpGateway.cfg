SPECIFICATION MCSpec
CONSTANTS
    q1 = q1
    q2 = q2
    c1 = c1
    c2 = c2
    b1 = b1
    b2 = b2
    v1 = v1
    s1 = s1
    Slots = {q1, q2}
    Credentials = {c1, c2}
    Capabilities = {c1}
    Backends = {b1, b2}
    Corpora = {v1}
    Sessions = {s1}
    Nothing = Nothing
    ChangeLimit = 1
CHECK_DEADLOCK FALSE
INVARIANTS
    TypeOK
    RevokedSessionsAreLate
PROPERTIES
    SessionsStayPut
    RevokedFallsSilent
