---------------------------- MODULE MCImportJob -----------------------------
(* Small instances of ImportJob for TLC.                                   *)
EXTENDS ImportJob, TLC

CONSTANTS w1, w2, none

TwoWorkers == {w1, w2}
TwoInputs == {1, 2}
SourceKinds ==
    {[only |-> TRUE, threat |-> "none", good |-> {}],
     [only |-> FALSE, threat |-> "none", good |-> {1, 2}],
     [only |-> FALSE, threat |-> "suspected", good |-> {1}],
     [only |-> FALSE, threat |-> "suspected", good |-> {2}],
     [only |-> FALSE, threat |-> "direct", good |-> {1, 2}]}
Interchangeable == Permutations(TwoWorkers)
=============================================================================
