SPECIFICATION Spec
CONSTANTS
    q1 = q1
    q2 = q2
    orders = orders
    customers = customers
    join = join
    Stages <- JoinStages
    Scans <- JoinScans
    Result = join
    Volatile <- NoScan
    Runs <- TwoRuns
    Parallelism = 2
    RetryLimit = 1
    MaxVersion = 2
    MaxFaults = 2
    MaxCrashes = 1
SYMMETRY JoinSymmetry
INVARIANT LabelSound
INVARIANT InputsPresent
