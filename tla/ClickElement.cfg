SPECIFICATION ClickSpec
CONSTANTS
    SeqDiv = 2
    Bytes = {0, 1}
    MaxLen = 4
    MaxInt = 5
    Elements = {e1, e2, e3}
    Hashing = {e3}
    Enclaved = {e1, e3}
    None = None
    Leftovers = {0, 7}
    MaxPackets = 2
INVARIANT ClickTypeOK
PROPERTIES CountsUntilLost PacketsPass
CHECK_DEADLOCK FALSE
