SPECIFICATION FairSpec
CONSTANTS
    q1 = q1
    q2 = q2
    orders = orders
    customers = customers
    join = join
    Stages <- JoinStages
    Scans <- JoinScans
    Result = join
    Volatile <- OneScan
    Runs <- OneRun
    Parallelism = 1
    RetryLimit = 2
    MaxVersion = 2
    MaxFaults = 2
    MaxCrashes = 1
INVARIANT FreshResult
PROPERTY QueriesEnd
