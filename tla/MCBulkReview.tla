---------------------------- MODULE MCBulkReview ----------------------------
(* Small instances of BulkReview for TLC.                                  *)
EXTENDS BulkReview, TLC

CONSTANTS r1, r2

LastItem == {3}
FirstItem == {1}
NoItem == {}
OneRunner == {r1}
TwoRunners == {r1, r2}
Interchangeable == Permutations(TwoRunners)

(* One risk that is high has the effect of any number of them, and the       *)
(* hashes that order the items put two of the three in the sample.         *)
BoundedInit == Init /\ \A i \in Items : proposal[i].high => i = 1
OneSample == batch.sampled \in {{}, {1, 3}, Items}

BoundedSpec == BoundedInit /\ [][Next /\ OneSample']_vars /\ Fairness
=============================================================================
