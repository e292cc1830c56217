SPECIFICATION Spec
CONSTANTS
    None = None
    Broken = Broken
    Papers <- MCPapers
    TextTables <- MCTextTables
    Procs = {"p1", "p2"}
    Commands <- MCCommands
    Texts = {t1, t2, blank}
    Content <- MCContent
    Blank = blank
    DbFails = TRUE
    MaxWrites = 4
SYMMETRY MCSymmetry
CHECK_DEADLOCK FALSE
INVARIANTS TypeOK GraphIsOfItsFiles SyncRefreshes FullSyncMirrors
