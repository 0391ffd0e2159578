---------------------------- MODULE MCEntityMerge ----------------------------
(* Small instances of EntityMerge for TLC.                                 *)
EXTENDS EntityMerge, TLC

CONSTANTS e1, e2, e3, w1, w2, one, many, l1

ThreeEntities == {e1, e2, e3}
OneProperty == {one}
LastOfThree == {e3}
OneLabel == {l1}
NoLabel == {}
TwoWriters == {w1, w2}
TwoProperties == {one, many}
Interchangeable == Permutations({e1, e2}) \cup Permutations({w1, w2})
=============================================================================
