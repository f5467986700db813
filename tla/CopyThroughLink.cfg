\* A COPY into a directory that is a link in the image.
SPECIFICATION Spec
CONSTANTS
    None = None
    LinkBudget = 2
    Depth = 6
    Names = {"base", "app", "web", "one", "two", "out"}
    Registry <- MCRegistry
    Context <- MCContext
    Archives <- MCArchives
    Builds <- LinkBuilds
    MaxBuilds = 2
    Run <- MCRun
    Faults = {}
INVARIANTS LayersRebuildRootfs
CHECK_DEADLOCK FALSE
