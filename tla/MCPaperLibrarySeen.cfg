SPECIFICATION Spec
CONSTANTS
    None = None
    Broken = Broken
    Papers <- MCPapers
    TextTables <- MCTextTables
    Procs = {"p1", "p2"}
    Commands <- MCFew
    Texts = {t1, t2, blank}
    Content <- MCContent
    Blank = blank
    DbFails = FALSE
    MaxWrites = 4
CHECK_DEADLOCK FALSE
INVARIANTS SeenIsMirrored
