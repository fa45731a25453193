----------------------------- MODULE MCPayments -----------------------------
(* Instances of Payments for TLC.                                          *)
EXTENDS Payments

CONSTANTS o1, b1, w1, w2

OneOrder    == {o1}
NoOrder     == {}
OneRide     == {b1}
OneRef      == {1}
TwoRefs     == {1, 2}
OneHandler  == {w1}
TwoHandlers == {w1, w2}

\* Bills share nothing but the handlers: the runs follow one bill at a time.
OneBill == \A r, s \in Refs :
  payment[r].bill # payment[s].bill => None \in {payment[r].bill, payment[s].bill}

\* A payment is refunded once, one that an administrator forced is not, and a
\* ride is followed to the second credit of its driver; more refunds are the
\* subject of Refunds.
ToSecondCredit ==
  /\ OneBill
  /\ forced # {} => refunded = {}
  /\ \A v, w \in Handlers : Doing(v, "refund") /\ Doing(w, "refund") => v = w
  /\ \A w \in Handlers : Doing(w, "refund") => refunded = {}
  /\ \A b \in Rides : earned[b] < MaxEarnings
=============================================================================
