SPECIFICATION Spec
CONSTANTS
    w1 = w1
    w2 = w2
    operator = operator
    NoOne = NoOne
    Workers <- TwoWorkers
    Rebuilders <- NoRebuilder
    MaxRevisions = 2
    MaxFaults = 0
    MaxDuplicates = 0
    MaxRebuilds = 0
    MayDelete = FALSE
    KeysChange = FALSE
SYMMETRY Interchangeable
CHECK_DEADLOCK FALSE
INVARIANT OldResultsAreOverwritten
