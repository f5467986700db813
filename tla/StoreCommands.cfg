\* Two commands on two names, over four starting points, with every failure.
SPECIFICATION Spec
CONSTANTS
    Procs = {p1, p2}
    p1 = p1
    p2 = p2
    None = None
    Names = {"box", "web"}
    Images = {"base", "app", "tarball"}
    Oci = {"base", "app"}
    Size = 2
    Programs <- AllPrograms
    Stores <- MCStores
    Faults = {"fail", "die", "stuck", "shrink"}
SYMMETRY Symmetric
INVARIANTS BackupFaithful Consistent
PROPERTIES EndsAsAsked NothingLost
CHECK_DEADLOCK FALSE
