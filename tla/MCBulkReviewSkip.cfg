SPECIFICATION Spec
CONSTANTS
    r1 = r1
    r2 = r2
    Total = 3
    Creates <- FirstItem
    Exposed <- NoItem
    Runners <- OneRunner
    WaveSize = 2
    SamplePercent = 50
    MaxTroubles = 0
CHECK_DEADLOCK FALSE
PROPERTY IdentityConflictIsTerminal
