SPECIFICATION Spec
CONSTANTS
    e1 = e1
    e2 = e2
    e3 = e3
    w1 = w1
    w2 = w2
    one = one
    many = many
    l1 = l1
    None = None
    Entities <- ThreeEntities
    Properties <- OneProperty
    SingleValued <- OneProperty
    Created <- LastOfThree
    Labels <- OneLabel
    Writers <- TwoWriters
    Claims = {1}
    Merges = {1, 2}
CHECK_DEADLOCK FALSE
PROPERTIES RollbackKeepsLabels
