CONSTANTS
    Threads = {t1, t2, t3}
    PoolSize = 2
    MaxCalls = 2
    None = None
SPECIFICATION FairSpec
INVARIANTS
    PoolAccounted
    NoLostWakeup
PROPERTIES
    CallsReturn
