SPECIFICATION Spec
CONSTANTS
    Processes = {p1, p2, p3}
    MaxStarts = 4
    MaxFaults = 2
INVARIANTS TypeOK GoodTokenSaved
PROPERTIES RepairsToken SavedTokenStays
CHECK_DEADLOCK FALSE
