SPECIFICATION MetadataSpec
CONSTANTS
    w1 = w1
    w2 = w2
    n1 = n1
    n2 = n2
    k1 = k1
    k2 = k2
    None = None
    Workers <- TwoWorkers
    Names <- TwoNames
    Keys <- TwoKeys
    MaxIds = 2
    MaxConns = 2
    MaxCalls = 5
    key = key
    Unset = Unset
    Configs <- SomeConfigs
    Urls = {1, 2}
    ConnNames = {"a", "b"}
    DataNames = {"x", "y"}
    ModelNames = {"m"}
    SourceKeys = {key}
    Alias <- SameAliases
    CanSync = {"a"}
    MaxChanges = 8
SYMMETRY Symmetric
CHECK_DEADLOCK FALSE
INVARIANT KeysUnique
INVARIANT ConnectorsAgree
INVARIANT FileOfSource
INVARIANT Restartable
PROPERTY StartKeeps
