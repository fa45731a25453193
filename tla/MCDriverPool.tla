---------------------------- MODULE MCDriverPool ----------------------------
(* The instance of DriverPool for TLC.                                     *)
EXTENDS DriverPool

CONSTANTS d1, t1, t2, h1, h2

OneDriver == {d1}
TwoTrips  == {t1, t2}
TwoHexes  == {h1, h2}
=============================================================================
