SPECIFICATION MCSpec
CONSTANTS
    KeyBytes = 2
    HashBytes = 2
    N = 619
    g = 7
    SHA1 <- MCHash
    Names <- MCNames
    Salts <- MCSalts
    Exponents <- MCExponents
    NoAccount = NoAccount
    Samples <- MCSamples
    NoSample = NoSample
    MaxField = 4
    Numbers <- MCNumbers
    Widths = {1, 2}
    Tails <- MCTails
    InitialSize = 8
    MinFree = 2
    MaxPayload = 4
    AuthHeader = 3
    WorkHeader = 4
    Payloads = {0, 1, 4, 5}
    MaxFrames = 3
INVARIANT Utf8Exact
