SPECIFICATION FairSpec
CONSTANTS
    Clients = {c1, c2}
    Newline = Newline
    Other = Other
    Packets <- MCPackets
    HeaderLen = 2
    Chunk = 4
    MaxSize = 16
    Sgx = TRUE
    MinLength = 2
    Mixtures = {}
    MaxCalls = 1
    MaxConnections = 2
    MaxFaults = 0
PROPERTY CallsReturn
CHECK_DEADLOCK FALSE
