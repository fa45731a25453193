------------------------------ MODULE Payments ------------------------------
(***************************************************************************)
(* Payments of orders and rides through Paystack: the Payment row of a     *)
(* bill, the charge at the gateway, and what a settled payment books: the  *)
(* receipt, the earnings of a store or a driver, the status of the ride.   *)
(* Webhooks, the polling verification, an administrator's override and a   *)
(* retry of the payment by the customer run against each other, the ride   *)
(* moves on meanwhile, and what was paid may be refunded.                  *)
(*                                                                         *)
(* updatePaymentStatus reads the row before its transaction, works inside  *)
(* the transaction, and reads the ride again after it: three steps.  The   *)
(* transaction is one step, since it begins by locking the Payment row.    *)
(* A bill of Orders is an order or an order group; its own status and its  *)
(* stock are the subject of OrderPlacement.  The amount the gateway        *)
(* reports is the amount asked for.                                        *)
(***************************************************************************)
EXTENDS Integers, FiniteSets

CONSTANTS Orders, Rides, \* what is paid for
          Refs,          \* payment references, in the order they are generated
          Handlers,      \* the requests the server works on at once
          None,          \* no reference, no bill, no request
          MaxEarnings    \* the earnings of a ride are counted up to this bound

ASSUME PaymentAssumption ==
  /\ Orders \cap Rides = {}
  /\ Refs \subseteq Nat
  /\ None \notin Orders \cup Rides \cup Refs
  /\ MaxEarnings \in Nat \ {0}

VARIABLES
  payment, \* the Payment row of a reference
  charged, \* the charge at the gateway
  receipt, \* the references with an entry in the ledger: PAYMENT_RECEIVED, or
           \* that of a refund, which a later receipt takes over
  sold,    \* the number of VENDOR_EARNING entries of an order
  earned,  \* the number of RIDER_EARNING entries of a ride
  ride,    \* status of the ride
  driver,  \* whether it has a riderId
  forced,  \* history: the rides an administrator declared paid
  contested, \* history: the rides with a payment two requests worked on at
             \* once, and those an administrator completed
  refunded,  \* the references the gateway gave money back for
  work     \* what each handler has still to do

books == <<receipt, sold, earned>>
trips == <<ride, driver>>
notes == <<forced, contested, refunded>>
vars  == <<payment, charged, books, trips, notes, work>>

Bills       == Orders \cup Rides
Live        == {"PENDING", "COMPLETED", "FAILED", "REFUNDED"}
Cancelled   == {"CANCELLED", "CANCELLED_BY_USER", "CANCELLED_BY_SYSTEM"}
RideStatus  == {"SEARCHING_DRIVER", "DRIVER_ACCEPTED", "PAID", "IN_PROGRESS",
                "COMPLETED"} \cup Cancelled

Task == [op : {"replace"}, bill : Bills, old : Refs]
        \cup [op : {"create"}, bill : Bills]
        \cup [op : {"open"}, ref : Refs]
        \cup [op : {"settle"}, ref : Refs, to : Live]
        \cup [op : {"refund"}, ref : Refs]
        \cup [op : {"after", "match"}, ride : Rides]
        \cup [op : {"book"}, ref : Refs, ride : Rides]
        \cup [op : {"credit"}, ride : Rides]

PaymentTypeOK ==
  /\ payment \in [Refs -> [status : Live \cup {"NONE", "DELETED"},
                           bill : Bills \cup {None}]]
  /\ charged \in [Refs -> {"NONE", "OPEN", "PAID"}]
  /\ receipt \subseteq Refs
  /\ sold \in [Orders -> Nat]
  /\ earned \in [Rides -> 0 .. MaxEarnings]
  /\ ride \in [Rides -> RideStatus]
  /\ driver \in [Rides -> BOOLEAN]
  /\ forced \subseteq Rides /\ contested \subseteq Rides /\ refunded \subseteq Refs
  /\ work \in [Handlers -> Task \cup {None}]

Init == /\ payment = [r \in Refs |-> [status |-> "NONE", bill |-> None]]
        /\ charged = [r \in Refs |-> "NONE"]
        /\ receipt = {}
        /\ sold = [o \in Orders |-> 0]
        /\ earned = [b \in Rides |-> 0]
        /\ ride = [b \in Rides |-> "SEARCHING_DRIVER"]
        /\ driver = [b \in Rides |-> FALSE]
        /\ forced = {} /\ contested = {} /\ refunded = {}
        /\ work = [w \in Handlers |-> None]

Exists(r)    == payment[r].status \in Live
RowOf(b, r)  == Exists(r) /\ payment[r].bill = b
Fresh(r)     == /\ payment[r].status = "NONE"
                /\ \A s \in Refs : s < r => payment[s].status # "NONE"
Unpaid(r)    == payment[r].status \in {"PENDING", "FAILED"}
Free(w)      == work[w] = None
Do(w, x)     == work' = [work EXCEPT ![w] = x]
Return(w)    == Do(w, None)
Doing(w, op) == work[w] # None /\ work[w].op = op

SetStatus(r, st) == payment' = [payment EXCEPT ![r].status = st]
-----------------------------------------------------------------------------
(* PaymentInitService.initiatePayment.                                     *)

Initiate(w, b) ==
  /\ Free(w)
  /\ \/ \E r \in Refs : /\ RowOf(b, r) /\ Unpaid(r)
                        /\ Do(w, [op |-> "replace", bill |-> b, old |-> r])
     \/ /\ \A r \in Refs : ~ RowOf(b, r)
        /\ Do(w, [op |-> "create", bill |-> b])
  /\ UNCHANGED <<payment, charged, books, trips, notes>>

\* Mutant: the receipt of a payment does not keep its row.
DeletableUnrestricted(r) == Exists(r)

\* The row may be gone by now, and the foreign key of a receipt restricts.
Deletable(r) == Exists(r) /\ r \notin receipt

\* Mutant: the receipt is deleted with its row.
DeleteCascading(w) ==
  /\ Doing(w, "replace")
  /\ SetStatus(work[w].old, "DELETED")
  /\ receipt' = receipt \ {work[w].old}
  /\ Do(w, [op |-> "create", bill |-> work[w].bill])
  /\ UNCHANGED <<charged, sold, earned, trips, notes>>

DeletePrevious(w) ==
  /\ Doing(w, "replace")
  /\ IF Deletable(work[w].old)
     THEN /\ SetStatus(work[w].old, "DELETED")
          /\ Do(w, [op |-> "create", bill |-> work[w].bill])
     ELSE UNCHANGED payment /\ Return(w)
  /\ UNCHANGED <<charged, books, trips, notes>>

\* One row to a bill: the constraint refuses the second of two retries.  When
\* the references of the instance are used up the request ends.
CreatePayment(w) ==
  /\ Doing(w, "create")
  /\ LET b == work[w].bill  IN
     \/ /\ \A r \in Refs : ~ RowOf(b, r)
        /\ \E r \in Refs :
             /\ Fresh(r)
             /\ payment' = [payment EXCEPT ![r] = [status |-> "PENDING", bill |-> b]]
             /\ Do(w, [op |-> "open", ref |-> r])
     \/ /\ \/ \E r \in Refs : RowOf(b, r)
           \/ \A r \in Refs : payment[r].status # "NONE"
        /\ UNCHANGED payment
        /\ Return(w)
  /\ UNCHANGED <<charged, books, trips, notes>>

\* The gateway takes a reference once, and the customer is handed its page only
\* if the row could be updated with it.
OpenSession(w) ==
  /\ Doing(w, "open")
  /\ LET r == work[w].ref  IN
     \/ /\ Exists(r) /\ charged[r] = "NONE"
        /\ charged' = [charged EXCEPT ![r] = "OPEN"]
        /\ UNCHANGED payment
     \/ Exists(r) /\ SetStatus(r, "FAILED") /\ UNCHANGED charged
     \/ ~ Exists(r) /\ UNCHANGED <<payment, charged>>
  /\ Return(w)
  /\ UNCHANGED <<books, trips, notes>>

\* The page stays open whatever became of the row.
Pay(r) ==
  /\ charged[r] = "OPEN"
  /\ charged' = [charged EXCEPT ![r] = "PAID"]
  /\ UNCHANGED <<payment, books, trips, notes, work>>
-----------------------------------------------------------------------------
(* PaymentStatusService.updatePaymentStatus and its callers.               *)

\* Mutant: a payment that was settled is settled again.
SettleableAgain(r) == Exists(r)

\* COMPLETED is left alone, a payment that was refunded is not.
Settleable(r) == Exists(r) /\ payment[r].status # "COMPLETED"

Writing(w, r) == (Doing(w, "open") \/ Doing(w, "settle")) /\ work[w].ref = r

\* History: another request is going to write the status of the row.
Overlaps(r) == contested' = IF \E w \in Handlers : Writing(w, r)
                            THEN contested \cup ({payment[r].bill} \cap Rides)
                            ELSE contested

UpdatePaymentStatus(w, r, st) ==
  /\ Free(w)
  /\ Settleable(r)
  /\ Do(w, [op |-> "settle", ref |-> r, to |-> st])
  /\ Overlaps(r)

\* charge.success, delivered again until it is answered.
Webhook(w, r) ==
  /\ charged[r] = "PAID"
  /\ UpdatePaymentStatus(w, r, "COMPLETED")
  /\ UNCHANGED <<payment, charged, books, trips, forced, refunded>>

\* Mutant: a page that is still open is taken for a payment.
AnswersTrusting(c) == CASE c = "PAID" -> {"COMPLETED"}
                        [] c = "OPEN" -> {"FAILED", "PENDING", "COMPLETED"}
                        [] OTHER      -> {}

\* Mutant: the word of the gateway is written as it is.
AnswersRaw(c) == CASE c = "PAID" -> {"COMPLETED"}
                   [] c = "OPEN" -> {"ABANDONED", "PENDING"}
                   [] OTHER      -> {}

\* The gateway calls an unfinished payment abandoned, which counts as failed,
\* or ongoing.
Answers(c) == CASE c = "PAID" -> {"COMPLETED"}
                [] c = "OPEN" -> {"FAILED", "PENDING"}
                [] OTHER      -> {}

\* The answer may be out of date when it is written.  A charge that was
\* refunded may be called reversed, which counts as pending.
VerifyPayment(w, r) ==
  /\ \E st \in Answers(charged[r]) \cup (IF r \in refunded THEN {"PENDING"} ELSE {}) :
       UpdatePaymentStatus(w, r, st)
  /\ UNCHANGED <<payment, charged, books, trips, forced, refunded>>

ForcePayment(w, r) ==
  /\ payment[r].bill \in Rides
  /\ UpdatePaymentStatus(w, r, "COMPLETED")
  /\ forced' = forced \cup {payment[r].bill}
  /\ UNCHANGED <<payment, charged, books, trips, refunded>>

RecordRideEarnings(b) ==
  earned' = IF earned[b] < MaxEarnings THEN [earned EXCEPT ![b] = @ + 1] ELSE earned

\* Mutant: recordOrderCommission without its look for an earlier entry.
CommissionAgain(o) == sold' = [sold EXCEPT ![o] = @ + 1]

RecordOrderCommission(o) ==
  sold' = IF sold[o] = 0 THEN [sold EXCEPT ![o] = 1] ELSE sold

SettleOrder(r) ==
  /\ receipt' = receipt \cup {r}
  /\ RecordOrderCommission(payment[r].bill)
  /\ UNCHANGED <<earned, ride>>

\* A cancellation by the customer leaves the riderId, and its status is not
\* the one the transaction looks for.
SettleRide(r) ==
  LET b == payment[r].bill  IN
  /\ IF /\ ride[b] \notin {"CANCELLED", "DRIVER_ACCEPTED"}
        /\ driver[b]
     THEN receipt' = receipt \cup {r} /\ RecordRideEarnings(b)
     ELSE UNCHANGED <<receipt, earned>>
  /\ ride' = IF ride[b] = "DRIVER_ACCEPTED" THEN [ride EXCEPT ![b] = "PAID"] ELSE ride
  /\ UNCHANGED sold

FailRide(r) == ride' = [b \in Rides |->
  IF b = payment[r].bill /\ ride[b] \notin {"COMPLETED", "IN_PROGRESS"}
  THEN "CANCELLED" ELSE ride[b]]

\* Mutant: a row once FAILED is final.
OverwritableUnlessFailed(r) == payment[r].status \in {"PENDING", "COMPLETED"}

\* The update only needs the row; its status is not looked at again.
Overwritable(r) == Exists(r)

SettlePayment(w) ==
  /\ Doing(w, "settle")
  /\ LET r == work[w].ref
         b == payment[r].bill  IN
     \/ /\ ~ Overwritable(r)
        /\ Return(w)
        /\ UNCHANGED <<payment, books, ride>>
     \/ /\ Overwritable(r) /\ work[w].to = "COMPLETED" /\ b \in Orders
        /\ SetStatus(r, "COMPLETED")
        /\ SettleOrder(r)
        /\ Return(w)
     \/ /\ Overwritable(r) /\ work[w].to = "COMPLETED" /\ b \in Rides
        /\ SetStatus(r, "COMPLETED")
        /\ SettleRide(r)
        /\ Do(w, [op |-> "after", ride |-> b])
     \/ /\ Overwritable(r) /\ work[w].to # "COMPLETED"
        /\ SetStatus(r, work[w].to)
        /\ IF work[w].to = "FAILED" THEN FailRide(r) ELSE UNCHANGED ride
        /\ Return(w)
        /\ UNCHANGED books
  /\ UNCHANGED <<charged, driver, notes>>

\* A ride that is neither finished nor just paid is taken to be unmatched.
LookAgain(w) ==
  /\ Doing(w, "after")
  /\ LET b == work[w].ride  IN
     IF ride[b] \in {"COMPLETED", "PAID"} THEN Return(w)
     ELSE Do(w, [op |-> "match", ride |-> b])
  /\ UNCHANGED <<payment, charged, books, trips, notes>>

StartRideMatching(w) ==
  /\ Doing(w, "match")
  /\ ride' = [ride EXCEPT ![work[w].ride] = "SEARCHING_DRIVER"]
  /\ Return(w)
  /\ UNCHANGED <<payment, charged, books, driver, notes>>
-----------------------------------------------------------------------------
(* The administrator's completeRide: its transaction ends in a log entry   *)
(* of a user that does not exist and is rolled back, but the ledger calls  *)
(* in it open transactions of their own.                                   *)

AdminCompleteRide(w, b, r) ==
  /\ Free(w)
  /\ ride[b] # "COMPLETED" /\ driver[b]
  /\ RowOf(b, r) /\ payment[r].status = "COMPLETED"
  /\ Do(w, [op |-> "book", ref |-> r, ride |-> b])
  /\ contested' = contested \cup {b}
  /\ UNCHANGED <<payment, charged, books, trips, forced, refunded>>

BookReceipt(w) ==
  /\ Doing(w, "book")
  /\ IF Exists(work[w].ref)
     THEN /\ receipt' = receipt \cup {work[w].ref}
          /\ Do(w, [op |-> "credit", ride |-> work[w].ride])
     ELSE UNCHANGED receipt /\ Return(w)
  /\ UNCHANGED <<payment, charged, sold, earned, trips, notes>>

CreditDriver(w) ==
  /\ Doing(w, "credit")
  /\ RecordRideEarnings(work[w].ride)
  /\ Return(w)
  /\ UNCHANGED <<payment, charged, receipt, sold, trips, notes>>
-----------------------------------------------------------------------------
(* Refunds, for a dispute or by an administrator: Refunds has the whole of *)
(* it.  What counts here is the status that is read first and written last *)
(* and the entry of a ride's refund, or of its cancellation by an          *)
(* administrator, in the place of a receipt.                               *)

AskRefund(w, r) ==
  /\ Free(w)
  /\ payment[r].status = "COMPLETED"
  /\ Do(w, [op |-> "refund", ref |-> r])
  /\ UNCHANGED <<payment, charged, books, trips, notes>>

Refund(w) ==
  /\ Doing(w, "refund")
  /\ LET r == work[w].ref  IN
     /\ \/ /\ charged[r] = "PAID"
           /\ refunded' = refunded \cup {r}
           /\ UNCHANGED payment \/ (Exists(r) /\ SetStatus(r, "REFUNDED"))
        \/ UNCHANGED <<payment, refunded>>
     /\ \/ UNCHANGED receipt
        \/ /\ Exists(r) /\ payment[r].bill \in Rides
           /\ receipt' = receipt \cup {r}
  /\ Return(w)
  /\ UNCHANGED <<charged, sold, earned, trips, forced, contested>>
-----------------------------------------------------------------------------
(* The ride meanwhile: RideMatching has the whole of it.                   *)

MoveRide(b, from, to) ==
  /\ ride[b] \in from
  /\ ride' = [ride EXCEPT ![b] = to]
  /\ UNCHANGED <<payment, charged, books, notes, work>>

AcceptRide(b)   == /\ MoveRide(b, {"SEARCHING_DRIVER"}, "DRIVER_ACCEPTED")
                   /\ driver' = [driver EXCEPT ![b] = TRUE]
StartRide(b)    == MoveRide(b, {"DRIVER_ACCEPTED", "PAID"}, "IN_PROGRESS")
                   /\ UNCHANGED driver
CompleteRide(b) == MoveRide(b, {"IN_PROGRESS"}, "COMPLETED") /\ UNCHANGED driver
CancelRide(b)   == MoveRide(b, {"SEARCHING_DRIVER", "DRIVER_ACCEPTED", "PAID"},
                            "CANCELLED_BY_USER")
                   /\ UNCHANGED driver
GiveUp(b)       == MoveRide(b, {"SEARCHING_DRIVER"}, "CANCELLED_BY_SYSTEM") /\ UNCHANGED driver
-----------------------------------------------------------------------------
Crash == /\ work' = [w \in Handlers |-> None]
         /\ UNCHANGED <<payment, charged, books, trips, notes>>

Resume(w) == \/ DeletePrevious(w)
             \/ CreatePayment(w)
             \/ OpenSession(w)
             \/ SettlePayment(w)
             \/ LookAgain(w)
             \/ StartRideMatching(w)
             \/ BookReceipt(w)
             \/ CreditDriver(w)
             \/ Refund(w)

Ask(w) == \/ \E b \in Bills : Initiate(w, b)
          \/ \E r \in Refs : Webhook(w, r) \/ VerifyPayment(w, r) \/ ForcePayment(w, r)
                             \/ AskRefund(w, r)
          \/ \E b \in Rides, r \in Refs : AdminCompleteRide(w, b, r)

Outside == \/ \E r \in Refs : Pay(r)
           \/ \E b \in Rides : \/ AcceptRide(b)
                               \/ StartRide(b)
                               \/ CompleteRide(b)
                               \/ CancelRide(b)
                               \/ GiveUp(b)

Next == (\E w \in Handlers : Resume(w) \/ Ask(w)) \/ Outside \/ Crash

Spec == Init /\ [][Next]_vars

\* The gateway delivers until the server has answered, the server finds time
\* for every delivery, and the restarts come to an end.
Delivered(r) == \E w \in Handlers : Webhook(w, r)

LiveSpec == /\ Spec
            /\ \A r \in Refs : SF_vars(Delivered(r))
            /\ \A w \in Handlers : WF_vars(Resume(w))
            /\ <>[][~ Crash]_vars
-----------------------------------------------------------------------------
(* Properties.                                                             *)

BookedFor(b) == {r \in receipt : payment[r].bill = b}

(* However often a payment is delivered, verified and retried, a bill has  *)
(* at most one receipt in the ledger: a retry can neither delete the row   *)
(* that has one nor put a second row beside it.                            *)
OneReceipt == \A b \in Bills : Cardinality(BookedFor(b)) <= 1

(* A store is credited once for every receipt of its order, and never      *)
(* without one, although a settlement can be written over an earlier one.  *)
StorePaidPerReceipt == \A o \in Orders : sold[o] = Cardinality(BookedFor(o))

(* Nobody is credited without money: behind the earnings of a store or a   *)
(* driver is a charge the customer paid, or an administrator's override.   *)
RevenueBacked ==
  /\ \A o \in Orders : sold[o] > 0 =>
       \E r \in BookedFor(o) : charged[r] = "PAID"
  /\ \A b \in Rides : earned[b] > 0 =>
       b \in forced \/ \E r \in BookedFor(b) : charged[r] = "PAID"

(* Nothing in the ledger keeps a driver from being credited again, so it   *)
(* is the requests that must not: redeliveries, verifications, the retries *)
(* of the customer and restarts credit the driver of a ride once.  It      *)
(* takes two requests that worked on the row at once, a completion by an   *)
(* administrator, or a payment that is verified again after its refund.    *)
DriverPaidOnce == \A b \in Rides :
  earned[b] > 1 => b \in contested \/ \E r \in refunded : payment[r].bill = b

\* The bills with a charge that was paid, whatever became of the row, and those
\* an administrator answers for.
BackedBills == forced \cup {b \in Bills :
  \E r \in Refs : payment[r].bill = b /\ charged[r] = "PAID"}

Book == INSTANCE BillBook
          WITH backed <- BackedBills,
               booked <- {payment[r].bill : r \in receipt},
               credit <- [b \in Bills |-> IF b \in Orders THEN sold[b] ELSE earned[b]]

(* The books are only added to: handlers that race, rows that are deleted  *)
(* and made anew, and a completion by an administrator that is rolled back *)
(* halfway, take no receipt or credit back, none comes before the money,   *)
(* and no crash falls between a store's credit and its receipt.            *)
BooksRefined == Book!BookSpec

(* What the customer has paid is booked, unless the customer's own retry   *)
(* deleted the row first or the money went back: an answer that said the   *)
(* payment was abandoned does not stand in the way of the webhook.         *)
ChargeRecorded == \A r \in Refs :
  charged[r] = "PAID" ~>
    payment[r].status \in {"COMPLETED", "DELETED"} \/ r \in refunded
=============================================================================
