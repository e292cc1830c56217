SPECIFICATION MCSpec
CONSTANTS
    t = t
    g = g
    a = a
    b = b
    ra = ra
    mb = mb
    rb = rb
    x = x
    k = k
    y = y
    na = na
    q1 = q1
    q2 = q2
    nb = nb
    nc = nc
    None = None
    Unset = Unset
    Ids <- MCIds
    Subjects = {na, nc}
    Titles = {nb}
    PolicyNames = {tool}
    tool = tool
    Keys = {k}
    Requests = {q1, q2}
    Start <- MCStart
    Bootstrap = {nc}
    MaxVersion = 3
    MaxArrivals = 3
CHECK_DEADLOCK FALSE
SYMMETRY Symmetry
INVARIANTS TypeOK RetriesCreateOnce
PROPERTIES EditsReplaceSeen LastAdministratorStays
