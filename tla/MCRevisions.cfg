SPECIFICATION Spec
CONSTANTS
    p1 = p1
    p2 = p2
    c1 = c1
    c2 = c2
    w1 = w1
    w2 = w2
    a1 = a1
    a2 = a2
    NoOne = NoOne
    Pages <- TwoPages
    Contents <- TwoContents
    Writers <- TwoWriters
    Archivers <- TwoArchivers
    MaxRevisions = 4
    MaxCrashes = 1
SYMMETRY Interchangeable
CHECK_DEADLOCK FALSE
INVARIANTS CurrentIsHot HistoryReadable NoLostUpdate
PROPERTY ImplementsHistory
