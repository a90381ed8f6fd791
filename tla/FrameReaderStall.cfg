CONSTANTS
    InitialSize = 8
    MinFree = 2
    MaxPayload = 4
    AuthHeader = 3
    WorkHeader = 4
    Payloads = {0, 1}
    MaxFrames = 2
SPECIFICATION FairReaderSpec
PROPERTIES
    BufferedIsHandled
CHECK_DEADLOCK FALSE
