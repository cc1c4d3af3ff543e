SPECIFICATION Spec
CONSTANTS
    r1 = r1
    r2 = r2
    s1 = s1
    Scheduled = {r1}
    Direct = {r2}
    Searches = {s1}
    Configs = {0, 1, 2}
    Periodic = {2}
    Stores = {"memory", "sql"}
    MaxGen = 2
    MaxEvents = 2
INVARIANT ReadyIsComplete
PROPERTY HitsTrue
PROPERTY StaysFresh
