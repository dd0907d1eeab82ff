SPECIFICATION Spec
CONSTANTS
    SeqDiv = 2
    Bytes = {0, 1}
    MaxLen = 9
    MaxInt = 15
INVARIANTS TypeOK GreedyOptimal
PROPERTY CountsPrefixes
CHECK_DEADLOCK FALSE
