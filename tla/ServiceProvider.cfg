SPECIFICATION FairSpec
CONSTANTS
    Clients = {c1, c2}
    Foreign = {c2}
    NoKey = NoKey
    MaxAttempts = 2
    MaxFaults = 3
INVARIANTS TypeOK KeysAgeInOrder ResultBoundToSession SupportedAskedFirst LastExchangeSucceeds
PROPERTIES UndisturbedSucceeds UndisturbedNeverFails AttestsInTurn
CHECK_DEADLOCK FALSE
