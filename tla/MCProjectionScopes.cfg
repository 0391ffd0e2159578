SPECIFICATION ScopedSpec
CONSTANTS
    w1 = w1
    w2 = w2
    operator = operator
    NoOne = NoOne
    Workers <- TwoWorkers
    Rebuilders <- OneRebuilder
    MaxRevisions = 3
    MaxFaults = 2
    MaxDuplicates = 0
    MaxRebuilds = 1
    MayDelete = TRUE
    KeysChange = FALSE
SYMMETRY Interchangeable
CHECK_DEADLOCK FALSE
INVARIANTS SearchConverges SerialProjectionsConverge SerialDeletedLeavesNothing
PROPERTY SearchMovesForward
