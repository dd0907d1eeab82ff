SPECIFICATION FairSpec
CONSTANTS
    Clients = {c1, c2}
    Newline = Newline
    Other = Other
    Packets <- MCCallPackets
    HeaderLen = 2
    Chunk = 3
    MaxSize = 9
    Sgx = FALSE
    MinLength = 2
    Mixtures = {9}
    MaxCalls = 2
    MaxConnections = 3
    MaxFaults = 1
INVARIANTS TypeOK ProcessesInside FullPartsIntact AnswersOnlyComplete NoneForgotten NoMutualWait
PROPERTIES ServesInOrder CallsReturn AllDecided
CHECK_DEADLOCK FALSE
