SPECIFICATION ScopedSpec
CONSTANTS
    e1 = e1
    e2 = e2
    e3 = e3
    w1 = w1
    w2 = w2
    one = one
    many = many
    l1 = l1
    None = None
    Entities <- ThreeEntities
    Properties <- TwoProperties
    SingleValued <- OneProperty
    Created <- LastOfThree
    Labels <- OneLabel
    Writers <- TwoWriters
    Claims = {1, 2, 3, 4}
    Merges = {1, 2, 3}
SYMMETRY Interchangeable
CHECK_DEADLOCK FALSE
INVARIANTS LedgerAgrees SingleValueHolds NoMergeCycle OneVersion SerialClaimsAreLive
