SPECIFICATION FairSpec
CONSTANTS
    w1 = w1
    w2 = w2
    none = none
    Workers <- TwoWorkers
    Inputs <- TwoInputs
    FirstInput = 1
    GivenSources <- SourceKinds
    NoPlan = none
    MaxRequests = 3
    MaxTroubles = 1
CHECK_DEADLOCK FALSE
INVARIANTS RunningJobHasItsRun GatesHold SucceededIsSubmitted
PROPERTIES OnePlanPerProposal JobSettles
