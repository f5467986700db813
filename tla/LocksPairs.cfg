\* Every filesystem outcome; two processes, every command, ^C at any time.
SPECIFICATION FairSpec
CONSTANTS
    p1 = p1
    p2 = p2
    Procs = {p1, p2}
    NoProc = NoProc
    Paths <- MCPaths
    Programs <- AllPrograms
    Outcomes = {"nodir", "denied", "noflock"}
    InterruptDetach = TRUE
INVARIANTS MutualExclusion RecordsTrue SomebodyWins
PROPERTIES CommandsEnd
CHECK_DEADLOCK FALSE
