SPECIFICATION Spec
CONSTANTS
    q1 = q1
    q2 = q2
    q3 = q3
    b1 = b1
    b2 = b2
    p1 = p1
    s1 = s1
    s2 = s2
    v1 = v1
    v2 = v2
    Requests = {q1, q2, q3}
    Backends = {b1, b2}
    Places = {p1}
    Secrets = {s1, s2}
    Corpora = {v1, v2}
    LabBackend = b1
    LabRoute = LabRoute
    NoRow = NoRow
SYMMETRY RequestSymmetry
CHECK_DEADLOCK FALSE
INVARIANTS
    TypeOK
    ReadyWasProbed
    ActiveWasProbed
    VersionNamesState
