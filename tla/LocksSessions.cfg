\* Four processes: sessions, their daemons and guests, and the commands they exclude.
SPECIFICATION Spec
CONSTANTS
    p1 = p1
    p2 = p2
    p3 = p3
    p4 = p4
    Procs = {p1, p2, p3, p4}
    NoProc = NoProc
    Paths <- ContainerOne
    Programs <- SessionPrograms
    Outcomes = {"denied"}
    InterruptDetach = FALSE
SYMMETRY Symmetric
INVARIANTS SessionKeepsLock
PROPERTIES ImplementsReadersWriter
CHECK_DEADLOCK FALSE
