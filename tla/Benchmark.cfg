SPECIFICATION Spec
CONSTANT Rounds = 12
INVARIANTS TypeOK MeasuresUnlessLost
PROPERTY Ends
CHECK_DEADLOCK FALSE
