----------------------------- MODULE MCRefunds -----------------------------
(* Instances of Refunds for TLC: two orders of a group, one order on its   *)
(* own and one ride.                                                       *)
EXTENDS Refunds, TLC

CONSTANTS d1, d2, o1, o2, o3, ride, pg, po, pr, w1, w2

TwoDisputes   == {d1, d2}
FourItems     == {o1, o2, o3, ride}
ThreePayments == {pg, po, pr}
TwoHandlers   == {w1, w2}

Paying == [i \in Items |-> CASE i \in {o1, o2} -> pg [] i = o3 -> po [] i = ride -> pr]
Kinds  == [p \in Payments |-> CASE p = pg -> "group" [] p = po -> "order" [] p = pr -> "ride"]

Alike == Permutations(TwoDisputes) \cup Permutations(TwoHandlers) \cup Permutations({o1, o2})

\* Payments do not touch each other: one is at issue in a behaviour, which is
\* followed up to a second refund.
AtIssue == {p \in Payments : \/ sent[p] > 0 \/ p \in astray
                             \/ \E w \in Handlers : Refunding(w, p)
                             \/ \E d \in Disputes : /\ dispute[d].item # None
                                                    /\ PaidBy[dispute[d].item] = p
                             \/ \E w \in Handlers : /\ Doing(w, "open")
                                                    /\ PaidBy[work[w].item] = p
                             \/ entry[p] = Cancellation
                             \/ \E w \in Handlers : /\ Doing(w, "record")
                                                    /\ work[w].payment = p}
OneAtIssue == Cardinality(AtIssue) <= 1 /\ \A p \in Payments : sent[p] <= 1
=============================================================================
