\* One I/O thread: close() against a completed write whose handler is still queued.
CONSTANTS
    Threads = {t1}
    MaxPackets = 2
SPECIFICATION Spec
INVARIANT WriteQueueSafe
CHECK_DEADLOCK FALSE
