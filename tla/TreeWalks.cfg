\* Every command on every tree, one change by others and one failure.
SPECIFICATION FairSpec
CONSTANTS
    None = None
    Names <- MCNames
    Nodes <- MCNodes
    Base <- MCBase
    Outside <- MCOutside
    Budget = 2
    Trees <- MCTrees
    Jobs <- MCJobs
    Faults = {"look", "open", "write", "unlink"}
    MaxFaults = 1
    MaxChanges = 1
INVARIANTS BoundedDescriptors Footing MoveLosesNothing 
PROPERTIES CommandsEnd
CHECK_DEADLOCK FALSE
