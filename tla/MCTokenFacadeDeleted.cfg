SPECIFICATION Spec
CONSTANTS
    p1 = p1
    p2 = p2
    q1 = q1
    q2 = q2
    q3 = q3
    Null = Null
    Principals = {p1, p2}
    First = p1
    Names = {a, b}
    IdemKeys = {i1}
    Requests = {q1, q2, q3}
    Operations <- Console
SYMMETRY RequestSymmetry
CHECK_DEADLOCK FALSE
INVARIANT DeletedStaysDisabled
