\* Two I/O threads.
CONSTANTS
    Threads = {t1, t2}
    MaxPackets = 3
SPECIFICATION Spec
INVARIANTS
    SingleReadChain
    CloseRunsOnce
    ThrowsOnlyClosed
CHECK_DEADLOCK FALSE
