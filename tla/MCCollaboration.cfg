SPECIFICATION Spec
CONSTANTS
    c1 = c1
    c2 = c2
    Clients <- TwoClients
    SnapshotInterval = 2
    Buffer = 1
    MaxUpdates = 2
    MaxRare = 1
SYMMETRY Interchangeable
CHECK_DEADLOCK FALSE
INVARIANTS CursorIsComplete NothingIsLost QuietMeansSynced PublishedIsExact
