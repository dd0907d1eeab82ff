SPECIFICATION Spec
CONSTANT Rounds = 12
INVARIANT MeasuresWhole
CHECK_DEADLOCK FALSE
