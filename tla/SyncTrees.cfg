\* Every kind of entry over every other one, one change of the source, one fault.
SPECIFICATION Spec
CONSTANTS
    None = None
    Names <- MCNames
    Temp <- MCTemp
    Paths <- MCPaths
    Data = {1, 2}
    Targets <- MCTargets
    SrcTrees <- MCSrcTrees
    DstTrees <- MCDstTrees
    Arrivals <- MCArrivals
    Options <- MCOptions
    Faults = {"read", "write", "unlink", "stop"}
    MaxFaults = 1
    MaxChanges = 1
INVARIANTS  Consistent
PROPERTIES PrunesOnlyOrphans LinkedInodesKept
CHECK_DEADLOCK FALSE
