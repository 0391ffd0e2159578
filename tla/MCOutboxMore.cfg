SPECIFICATION Spec
CONSTANTS
    w1 = w1
    w2 = w2
    NumEvents = 1
    Consumers <- TwoWorkers
    BatchSize = 2
    LeaseDuration = 1
    MaxAttempts = 2
    BackoffBase = 2
    BackoffCap = 3
    BatchRouted <- NoEvents
    HandlersRenew = TRUE
    AttemptBound = 8
    MaxFaults = 1
    MaxReplays = 1
CHECK_DEADLOCK FALSE
PROPERTIES DoneIsFinal RetriesBackOff
