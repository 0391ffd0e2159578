SPECIFICATION BoundedSpec
CONSTANTS
    p1 = p1
    p2 = p2
    b1 = b1
    b2 = b2
    v1 = v1
    v2 = v2
    s1 = s1
    s2 = s2
    Absent = Absent
    Untargeted = Untargeted
    NoHash = NoHash
    Editor = Editor
    Ids <- OneProposal
    Blocks <- TwoBlocks
    Values <- TwoValues
    Sessions <- TwoSessions
    MaxRevisions = 4
    MaxConflicts = 2
CHECK_DEADLOCK FALSE
SYMMETRY Interchangeable
INVARIANTS OverwritesAreChosen AppliedOnce OpenConflictsBlock
