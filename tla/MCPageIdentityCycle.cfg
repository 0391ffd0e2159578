SPECIFICATION NamesSpec
CONSTANTS
    p1 = p1
    p2 = p2
    p3 = p3
    t1 = t1
    t2 = t2
    t3 = t3
    w1 = w1
    w2 = w2
    NoTitle = NoTitle
    Elsewhere = Elsewhere
    NoOne = NoOne
    Pages <- ThreePages
    Titles <- ThreeTitles
    Writers <- TwoWriters
    Operations <- RedirectOperations
    TargetKinds <- PageTargets
    MaxBatches = 0
SYMMETRY Interchangeable
INVARIANT PageRedirectsAcyclic
