SPECIFICATION FairSpec
CONSTANTS
    MaxPackets = 5
    MaxConnections = 3
    None = None
INVARIANTS
    TypeOK
    StagesInOrder
    FormatsAgree
    NoSecondLogon
PROPERTY
    LogonFinishes
