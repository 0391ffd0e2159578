----------------------------- MODULE MCProposals -----------------------------
(* Small instances of Proposals for TLC.                                   *)
EXTENDS Proposals, TLC

CONSTANTS p1, p2, b1, b2, v1, v2, s1, s2

TwoProposals == {p1, p2}
OneProposal == {p1}
TwoBlocks == {b1, b2}
OneBlock == {b1}
TwoValues == {v1, v2}
TwoSessions == {s1, s2}
Interchangeable ==
    Permutations(TwoProposals) \cup Permutations(TwoBlocks)
        \cup Permutations(TwoValues) \cup Permutations(TwoSessions)

(* A proposal of one operation with four revisions, of two with three; a    *)
(* proposal of three has only its base and one edit or its own revision.    *)
Bounds == \A p \in Ids : Cardinality(DOMAIN Operations(p)) + Last <= MaxRevisions + 1

BoundedSpec == Init /\ [][Next /\ Bounds']_vars
=============================================================================
