\* Somebody kills proot with -9 at any time: its guests are orphans.
SPECIFICATION FairSpec
CONSTANTS
    p1 = p1
    p2 = p2
    p3 = p3
    s1 = s1
    Pids = {p1, p2, p3}
    Sessions = {s1}
    None = None
    Targets = {s1}
    Signals = {"TERM", "KILL", "STOP"}
    FdsReadable = {TRUE, FALSE}
    Meanwhile = {"kill9"}
PROPERTIES TeardownEnds
CHECK_DEADLOCK FALSE
