CONSTANTS
    Threads = {t1, t2}
    Clients = {c1, c2}
    None = None
SPECIFICATION FairSpec
INVARIANTS
    RegistryExact
    SingleAcceptChain
    NoSelfDeadlock
    StopClosesAllButOne
PROPERTIES
    StopCompletes
