------------------------------ MODULE BillBook ------------------------------
(***************************************************************************)
(* What the ledger promises about bills, and nothing else: it is only      *)
(* added to.  A bill is backed once somebody paid it or answers for it;    *)
(* only a backed bill gets a receipt; the store of an order is credited    *)
(* together with the receipt and that once, the driver of a ride with the  *)
(* receipt or after it.  Whatever becomes of the rows of the payments, no  *)
(* receipt and no credit is taken back.  Payments implements it.           *)
(***************************************************************************)
EXTENDS Naturals

CONSTANTS Orders, Rides

VARIABLES backed, \* the bills that somebody paid or answers for
          booked, \* the bills with a receipt
          credit  \* how often the store or the driver of a bill was credited

bookVars == <<backed, booked, credit>>

Bills == Orders \cup Rides

BookInit == /\ backed = {}
            /\ booked = {}
            /\ credit = [b \in Bills |-> 0]

Add(b) == credit' = [credit EXCEPT ![b] = @ + 1]

Back(b) == /\ backed' = backed \cup {b}
           /\ UNCHANGED <<booked, credit>>

\* The receipt of an order comes with the credit of its store.
BookOrder(o) == /\ o \in backed \ booked
                /\ booked' = booked \cup {o}
                /\ Add(o)
                /\ UNCHANGED backed

BookRide(b) == /\ b \in backed \ booked
               /\ booked' = booked \cup {b}
               /\ Add(b) \/ UNCHANGED credit
               /\ UNCHANGED backed

\* Nothing keeps a driver from being credited again.
CreditAgain(b) == /\ b \in booked
                  /\ Add(b)
                  /\ UNCHANGED <<backed, booked>>

BookNext == \/ \E b \in Bills : Back(b)
            \/ \E o \in Orders : BookOrder(o)
            \/ \E b \in Rides : BookRide(b) \/ CreditAgain(b)

BookSpec == BookInit /\ [][BookNext]_bookVars
=============================================================================
