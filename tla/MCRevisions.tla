----------------------------- MODULE MCRevisions -----------------------------
(* Small instances of Revisions for TLC.                                   *)
EXTENDS Revisions, TLC

CONSTANTS p1, p2, c1, c2, w1, w2, a1, a2

OnePage == {p1}
TwoPages == {p1, p2}
OneContent == {c1}
TwoContents == {c1, c2}
TwoWriters == {w1, w2}
OneArchiver == {a1}
TwoArchivers == {a1, a2}
Interchangeable == Permutations(TwoWriters) \cup Permutations(TwoArchivers)
=============================================================================
