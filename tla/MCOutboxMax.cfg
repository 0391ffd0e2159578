SPECIFICATION Spec
CONSTANTS
    w1 = w1
    w2 = w2
    NumEvents = 1
    Consumers <- TwoWorkers
    BatchSize = 2
    LeaseDuration = 1
    MaxAttempts = 2
    BackoffBase = 1
    BackoffCap = 1
    BatchRouted <- NoEvents
    HandlersRenew = FALSE
    AttemptBound = 8
    MaxFaults = 1
    MaxReplays = 0
SYMMETRY Workers
CHECK_DEADLOCK FALSE
INVARIANT AttemptsWithinMax
PROPERTY OnlyTheHolderSettles
