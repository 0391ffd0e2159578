---------------------------- MODULE MCProjection ----------------------------
(* Small instances of Projection for TLC.                                  *)
EXTENDS Projection, TLC

CONSTANTS w1, w2, operator

OneWorker == {w1}
TwoWorkers == {w1, w2}
NoRebuilder == {}
OneRebuilder == {operator}
Interchangeable == Permutations(TwoWorkers)
=============================================================================
