\* Each invariant is violated by itself: check one of them at a time.
SPECIFICATION Spec
CONSTANTS
    c1 = c1
    c2 = c2
    Clients <- TwoClients
    SnapshotInterval = 2
    Buffer = 1
    MaxUpdates = 3
    MaxRare = 1
SYMMETRY Interchangeable
CHECK_DEADLOCK FALSE
INVARIANTS CursorsAreContiguous GapsReconnect DuplicatesAreIdempotent MergeBaseIsDurable
