SPECIFICATION FairSpec
CONSTANTS
    j1 = j1
    j2 = j2
    r1 = r1
    r2 = r2
    r3 = r3
    Jobs <- OneJob
    Ids <- ThreeRows
    Modes <- BothModes
    SourceKinds = {"resource"}
    Incremental = TRUE
    Listing = "desc"
    PageSize = 1
    MaxSyncRetry = 3
    Stores = {"sql"}
    MaxTs = 3
    MaxFaults = 1
INVARIANT RowsFresh
PROPERTY Converges
