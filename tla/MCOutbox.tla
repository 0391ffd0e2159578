------------------------------ MODULE MCOutbox ------------------------------
(* Small instances of Outbox for TLC.                                      *)
EXTENDS Outbox, TLC

CONSTANTS w1, w2

TwoWorkers == {w1, w2}
Workers == Permutations(TwoWorkers)
NoEvents == {}
OneEvent == {1}
=============================================================================
