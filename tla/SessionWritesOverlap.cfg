\* Two I/O threads: two do_send_packet() calls at once.
CONSTANTS
    Threads = {t1, t2}
    MaxPackets = 2
SPECIFICATION Spec
INVARIANT SocketWritesGuarded
CHECK_DEADLOCK FALSE
