SPECIFICATION FairSpec
CONSTANTS
    Stdin = TRUE
    MaxPackets = 2
    MaxTroubles = 1
    MaxFailures = 1
INVARIANT TypeOK  NeverGivesUp 
PROPERTY SettlesUnlessWriteFails PacketsSent
