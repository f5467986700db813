\* Processes of two sessions start and fork while the command reads /proc.
SPECIFICATION Spec
CONSTANTS
    p1 = p1
    p2 = p2
    p3 = p3
    p4 = p4
    s1 = s1
    s2 = s2
    Pids = {p1, p2, p3, p4}
    Sessions = {s1, s2}
    None = None
    Targets = {s1}
    Signals = {"TERM", "STOP"}
    FdsReadable = {TRUE, FALSE}
    Meanwhile = {"start"}
SYMMETRY Symmetric
INVARIANTS TerminatedIsGone
PROPERTIES SignalsOnlyMembers
CHECK_DEADLOCK FALSE
