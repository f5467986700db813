\* Two builds in a row, every pair of instructions, stages and targets.
SPECIFICATION FairSpec
CONSTANTS
    None = None
    LinkBudget = 2
    Depth = 6
    Names = {"base", "app", "web", "one", "two", "out"}
    Registry <- MCRegistry
    Context <- MCContext
    Archives <- MCArchives
    Builds <- MCBuilds
    MaxBuilds = 2
    Run <- MCRun
    Faults = {"fail", "lose"}
INVARIANTS  Consistent
PROPERTIES  StoresTheTarget 
CHECK_DEADLOCK FALSE
