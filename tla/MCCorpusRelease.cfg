SPECIFICATION Spec
CONSTANTS
    w1 = w1
    w2 = w2
    m1 = m1
    m2 = m2
    p = p
    q = q
    Workers = {w1, w2}
    Manifests = {m1, m2}
    Papers = {p, q}
    Versions = {m1, m2}
    Rows <- MCRows
    Version <- MCVersion
    Derived = {"graph"}
    MaxCommands = 4
    MaxRevision = 2
SYMMETRY WorkerSymmetry
INVARIANTS
    TypeOK
    SealedBuildIsWhole
    ServedIsWhole
PROPERTIES
    SealedForGood
    CutoverReplacesSeen
