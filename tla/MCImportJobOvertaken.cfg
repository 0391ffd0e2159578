SPECIFICATION Spec
CONSTANTS
    w1 = w1
    w2 = w2
    none = none
    Workers <- TwoWorkers
    Inputs <- TwoInputs
    FirstInput = 1
    GivenSources <- SourceKinds
    NoPlan = none
    MaxRequests = 2
    MaxTroubles = 0
CHECK_DEADLOCK FALSE
PROPERTY OvertakenDecideNothing
INVARIANT FullAccessIsApplied
