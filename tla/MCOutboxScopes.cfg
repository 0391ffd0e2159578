SPECIFICATION ScopedSpec
CONSTANTS
    w1 = w1
    w2 = w2
    NumEvents = 2
    Consumers <- TwoWorkers
    BatchSize = 2
    LeaseDuration = 1
    MaxAttempts = 2
    BackoffBase = 2
    BackoffCap = 3
    BatchRouted <- OneEvent
    HandlersRenew = TRUE
    AttemptBound = 8
    MaxFaults = 1
    MaxReplays = 1
CHECK_DEADLOCK FALSE
PROPERTIES ImplementsDelivery EventuallySettled DeadLeavesOnlyByReplay
INVARIANTS DoneMeansHandled ClaimsAreExclusive AttemptBudget
