-------------------------- MODULE MCOrderPlacement --------------------------
(* Instances of OrderPlacement for TLC.                                    *)
EXTENDS OrderPlacement

CONSTANTS k1, p1, p2, w1, w2

OneKey      == {k1}
TwoIds      == {1, 2}
TwoProducts == {p1, p2}
OneHandler  == {w1}
TwoHandlers == {w1, w2}

\* The basket wants one unit of each product, and the second product is short.
Basket == [k \in OneKey |-> [p \in TwoProducts |-> 1]]
Shelf  == [p \in TwoProducts |-> IF p = p1 THEN 2 ELSE 1]
=============================================================================
