SPECIFICATION Spec
CONSTANTS
    SeqDiv = 2
    Bytes = {0, 1}
    MaxLen = 3
    MaxInt = 7
PROPERTY EveryPacketAnswered
CHECK_DEADLOCK FALSE
