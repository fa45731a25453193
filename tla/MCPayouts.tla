------------------------------ MODULE MCPayouts ------------------------------
(* Instances of Payouts for TLC.                                           *)
EXTENDS Payouts, TLC

CONSTANTS rider, store, p1, p2, w1, w2

OneRider    == {rider}
NoRider     == {}
OneStore    == {store}
TwoPayouts  == {p1, p2}
OnePayout   == {p1}
TwoHandlers == {w1, w2}
OneOrTwo    == {1, 2}

Symmetry == Permutations(TwoPayouts) \cup Permutations(TwoHandlers)
=============================================================================
