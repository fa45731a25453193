--------------------------- MODULE MCRideMatching ---------------------------
(* Instances of RideMatching for TLC.                                      *)
EXTENDS RideMatching, TLC

CONSTANTS d1, d2, r1, r2, h1

OneDriver  == {d1}
TwoDrivers == {d1, d2}
OneRide    == {r1}
TwoRides   == {r1, r2}
OneHex     == {h1}

(* Nobody signs off, ride:{id}:pendingDriver outlives the offer, and at    *)
(* most one thing is out of the ordinary: a restart, a call that throws, a *)
(* payment that is answered.  By then both drivers are there, and from    *)
(* then on no row is abandoned, nor stuck if it was a payment; a search    *)
(* that a payment resumed is followed up to the acceptance.  What comes    *)
(* after a job that is run again too late is left to the proofs.           *)
Unusual == crashes + throws + payments

Calm == /\ \A d \in Drivers : status[d] # "OFFLINE"
        /\ \A r \in Trips : notified[r] # {} => pendingDriver[r] # None
        /\ repeated = {}
        /\ Unusual <= 1
        /\ Unusual = 1 => /\ \A d \in Drivers : status[d] # "MISSING"
                          /\ \A r \in Trips : updatedAt[r] # "abandoned"
        /\ payments = 1 => \A r \in Trips : updatedAt[r] = "new"
        /\ \A r \in resumed : \/ ride[r].status \in Matchable
                              \/ \E x \in tasks : x.kind = "trigger"

Symmetry == Permutations(TwoDrivers)
=============================================================================
