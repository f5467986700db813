\* Two PIDs, three sessions, two listings; a PID is not recycled over an entry in use.
SPECIFICATION Spec
CONSTANTS
    p1 = p1
    p2 = p2
    s1 = s1
    s2 = s2
    s3 = s3
    k1 = k1
    k2 = k2
    Pids = {p1, p2}
    Sessions = {s1, s2, s3}
    None = None
    Scanners = {k1, k2}
    Reuse = {}
SYMMETRY Symmetric
INVARIANTS RunningSessionsRegistered ScanMissesNothing ScanPrunesStale
 
CHECK_DEADLOCK FALSE
