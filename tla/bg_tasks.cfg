SPECIFICATION FairSpec
CONSTANTS
    sync = sync
    refresh = refresh
    e1 = e1
    e2 = e2
    e3 = e3
    Nothing = Nothing
    Tasks <- TwoTasks
    Scheduled <- OnlySync
    OnStartup <- TwoTasks
    Execs <- ThreeExecs
    MaxStops = 2
INVARIANT ExclusivePerLock
PROPERTY StartAndStopEnd
