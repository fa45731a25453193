---------------------------- MODULE MCFulfilment ----------------------------
(* Instances of Fulfilment for TLC.                                        *)
EXTENDS Fulfilment, TLC

CONSTANTS o1, o2, r1, r2, w1, w2

TwoOrders   == {o1, o2}
TwoRiders   == {r1, r2}
TwoHandlers == {w1, w2}

\* Neither orders, riders nor handlers are told apart.
Alike == Permutations(TwoOrders) \cup Permutations(TwoRiders) \cup Permutations(TwoHandlers)

\* After an override, or the loss of an event, one request is served at a time.
CalmOverride == /\ hands > 0 \/ lost => \E w \in Handlers : Free(w)
                /\ ~ (hands > 0 /\ lost)
=============================================================================
