SPECIFICATION Spec
CONSTANTS
    None = None
    Threads = {"h1", "h2", "h3"}
    Operations = {"hybrid_passages", "graph_stats", "auto_notes"}
    Snapshots = {"s1", "s2"}
    Build <- MCBuild
    Limit <- MCLimit
    MaxInflight = 2
    MaxConnections = 1
INVARIANTS TypeOK PermitsAddUp AnswersArePinned
PROPERTIES EveryCallEnds
