SPECIFICATION Spec
CONSTANTS
    w1 = w1
    w2 = w2
    operator = operator
    NoOne = NoOne
    Workers <- OneWorker
    Rebuilders <- OneRebuilder
    MaxRevisions = 2
    MaxFaults = 1
    MaxDuplicates = 0
    MaxRebuilds = 1
    MayDelete = TRUE
    KeysChange = TRUE
CHECK_DEADLOCK FALSE
PROPERTIES RebuildWritesCurrent StaleEventsAreDone SearchWritesCurrent
