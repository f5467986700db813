\* Two commands after one blob, over registries that do and do not behave.
SPECIFICATION FairSpec
CONSTANTS
    Procs = {p1, p2}
    p1 = p1
    p2 = p2
    None = None
    Blob <- FiveBytes
    Sizes <- TwoManifests
    Threshold = 3
    Chunks = 2
    ChunkTries = 2
    BlobTries = 2
    Served <- TwoRegistries
INVARIANTS AppliedWhole Consistent 
PROPERTIES PublishedIsFinal DownloadsEnd
CHECK_DEADLOCK FALSE
