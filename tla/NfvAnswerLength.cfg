SPECIFICATION Spec
CONSTANTS
    Clients = {c1}
    Newline = Newline
    Other = Other
    Packets <- MCPackets
    HeaderLen = 2
    Chunk = 4
    MaxSize = 16
    Sgx = FALSE
    MinLength = 2
    Mixtures = {}
    MaxCalls = 2
    MaxConnections = 2
    MaxFaults = 2
INVARIANT AnswersAmountSent
CHECK_DEADLOCK FALSE
