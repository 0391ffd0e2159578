--------------------------- MODULE MCCollaboration ---------------------------
(* Small instances of Collaboration for TLC.                               *)
EXTENDS Collaboration, TLC

CONSTANTS c1, c2

OneClient == {c1}
TwoClients == {c1, c2}
Interchangeable == Permutations(TwoClients)
=============================================================================
