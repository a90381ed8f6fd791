\* One I/O thread.
CONSTANTS
    Threads = {t1}
    MaxPackets = 4
SPECIFICATION FairSpec
INVARIANTS
    WriterAwake
    NoUncaughtException
PROPERTIES
    OrderedReplies
    RepliesDelivered
    ClosedIsReleased
CHECK_DEADLOCK FALSE
