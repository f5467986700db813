SPECIFICATION Spec
CONSTANTS
    p1 = p1
    p2 = p2
    Procs = {p1, p2}
    Blobs = {"b1", "b2", "b3"}
    Images = {"base", "app", "web"}
    None = None
    Remote <- MCRemote
    Commands <- AllCommands
    Outputs <- MCOutputs
    Overlap = {}
INVARIANTS  RemoteComplete IndexKeepsRecords
 
SYMMETRY Symmetric
