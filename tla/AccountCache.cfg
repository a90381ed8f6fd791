CONSTANTS
    Users = {u1, u2}
    Values = {v1, v2}
    None = None
    TTL = 3
    Interval = 1
    Delay = 1
    MaxTime = 7
SPECIFICATION Spec
INVARIANTS
    IdleEntriesGo
PROPERTIES
    CacheIsLossyMap
