SPECIFICATION BoundedSpec
CONSTANTS
    r1 = r1
    r2 = r2
    Total = 3
    Creates <- FirstItem
    Exposed <- FirstItem
    Runners <- TwoRunners
    WaveSize = 2
    SamplePercent = 50
    MaxTroubles = 1
CHECK_DEADLOCK FALSE
PROPERTIES AppliedStaysRecorded SettlingIsEnough
