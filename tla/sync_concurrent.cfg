SPECIFICATION Spec
CONSTANTS
    j1 = j1
    j2 = j2
    r1 = r1
    r2 = r2
    r3 = r3
    Jobs <- TwoJobs
    Ids <- ThreeRows
    Modes <- OnlyIncremental
    SourceKinds = {"resource", "table"}
    Incremental = TRUE
    Listing = "asc"
    PageSize = 1
    MaxSyncRetry = 2
    Stores = {"sql", "memory"}
    MaxTs = 2
    MaxFaults = 1
SYMMETRY Symmetry
INVARIANT CursorCovered
