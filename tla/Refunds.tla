------------------------------ MODULE Refunds ------------------------------
(***************************************************************************)
(* Disputes and the refunds they, or an administrator directly, order from *)
(* the gateway.                                                            *)
(*                                                                         *)
(* A refund goes through three phases: the dispute is put to PROCESSING,   *)
(* the gateway is called with no transaction open, and the result is       *)
(* booked in one transaction.  Each phase trusts what the handler read     *)
(* before the first one.  The booking inserts a ledger entry under the id  *)
(* of the payment, which is unique: a payment that has its receipt there   *)
(* refuses it.  Orders and groups always have a receipt (Payments), rides  *)
(* and single deliveries may have none.  For that reason the debit of a    *)
(* store, which is part of the booking and concerns orders only, never     *)
(* commits, and is left out.                                               *)
(***************************************************************************)
EXTENDS Integers, FiniteSets

CONSTANTS Disputes,  \* the ids of disputes
          Items,     \* the orders, rides and deliveries they are about
          Payments,
          PaidBy,    \* the payment of an item; the orders of a group share one
          Kind,      \* what a payment is for: one order, a group, a ride, or a delivery
          Handlers,  \* the requests the server works on at once
          None,
          Receipt,   \* a PAYMENT_RECEIVED entry
          Cancellation, \* the REFUND_ISSUED entry of a ride an administrator cancels
          MaxRefunds \* the gateway accepts so many refunds of a payment

ASSUME RefundAssumption ==
  /\ PaidBy \in [Items -> Payments]
  /\ Kind \in [Payments -> {"order", "group", "ride", "other"}]
  /\ None \notin Disputes /\ Receipt \notin Disputes /\ Receipt # None
  /\ Cancellation \notin Disputes \cup {Receipt, None}
  /\ MaxRefunds \in Nat

RefundOps == {"lock", "check", "refund", "mark", "cancel", "book", "fail"}
Task == [op : {"open"}, item : Items]
        \cup [op : {"close"}, dispute : Disputes, to : {"RESOLVED", "REJECTED"}]
        \cup [op : RefundOps, dispute : Disputes \cup {None}, payment : Payments]
        \cup [op : {"settle"}, payment : Payments, to : {"COMPLETED", "PENDING"}]
        \cup [op : {"record"}, payment : Payments]

ASSUME NoTask == None \notin Task

VARIABLES
  dispute,   \* the row of a dispute
  payment,   \* the status of a payment
  entry,     \* the ledger entry under the id of a payment
  cancelled, \* the payments whose order a refund cancelled
  sent,      \* how many refunds of a payment the gateway made
  work,      \* what each handler has still to do
  refunded,  \* history: the disputes on whose behalf it made one
  astray     \* history: the payments with requests that overlapped, or with
             \* a refund whose outcome an exception or a restart hid

vars == <<dispute, payment, entry, cancelled, sent, work, refunded, astray>>
rows == <<dispute, payment, entry, cancelled>>

RefundTypeOK ==
  /\ dispute \in [Disputes -> [status : {"NONE", "OPEN", "RESOLVED", "REJECTED"},
                               item : Items \cup {None},
                               refund : {"IDLE", "PROCESSING", "COMPLETED", "FAILED"}]]
  /\ payment \in [Payments -> {"PENDING", "COMPLETED", "REFUNDED", "PARTIALLY_REFUNDED"}]
  /\ entry \in [Payments -> Disputes \cup {Receipt, Cancellation, None}]
  /\ cancelled \subseteq Payments
  /\ sent \in [Payments -> 0 .. MaxRefunds]
  /\ work \in [Handlers -> Task \cup {None}]
  /\ refunded \subseteq Disputes
  /\ astray \subseteq Payments

Init ==
  /\ dispute = [d \in Disputes |-> [status |-> "NONE", item |-> None, refund |-> "IDLE"]]
  /\ payment = [p \in Payments |-> "COMPLETED"]
  /\ entry \in [Payments -> {Receipt, None}]
  /\ \A p \in Payments : Kind[p] \in {"order", "group"} => entry[p] = Receipt
  /\ cancelled = {}
  /\ sent = [p \in Payments |-> 0]
  /\ work = [w \in Handlers |-> None]
  /\ refunded = {} /\ astray = {}

Free(w)      == work[w] = None
Do(w, x)     == work' = [work EXCEPT ![w] = x]
Return(w)    == Do(w, None)
Doing(w, op) == work[w] # None /\ work[w].op = op
Then(w, op)  == Do(w, [work[w] EXCEPT !.op = op])

Refunding(w, p) == work[w] # None /\ work[w].op \in RefundOps /\ work[w].payment = p
Hidden(p)       == astray' = astray \cup {p}

SetStatus(d, st) == dispute' = [dispute EXCEPT ![d].status = st]
SetRefund(d, st) == dispute' = [dispute EXCEPT ![d].refund = st]
-----------------------------------------------------------------------------
(* Disputes are opened, and closed without a refund.                       *)

ReadToOpen(w, i) ==
  /\ Free(w)
  /\ ~ \E d \in Disputes : dispute[d].status = "OPEN" /\ dispute[d].item = i
  /\ Do(w, [op |-> "open", item |-> i])
  /\ UNCHANGED <<rows, sent, refunded, astray>>

\* When the ids of the instance are used up the request ends.
Create(w) ==
  /\ Doing(w, "open")
  /\ \/ \E d \in Disputes :
          /\ dispute[d].status = "NONE"
          /\ dispute' = [dispute EXCEPT ![d] = [status |-> "OPEN", item |-> work[w].item,
                                                refund |-> "IDLE"]]
     \/ (\A d \in Disputes : dispute[d].status # "NONE") /\ UNCHANGED dispute
  /\ Return(w)
  /\ UNCHANGED <<payment, entry, cancelled, sent, refunded, astray>>

\* reject looks at the status only, resolve without a refund at both.
ReadToClose(w, d) ==
  /\ Free(w)
  /\ dispute[d].status = "OPEN"
  /\ \/ Do(w, [op |-> "close", dispute |-> d, to |-> "REJECTED"])
     \/ /\ dispute[d].refund # "PROCESSING"
        /\ Do(w, [op |-> "close", dispute |-> d, to |-> "RESOLVED"])
  /\ UNCHANGED <<rows, sent, refunded, astray>>

Close(w) ==
  /\ Doing(w, "close")
  /\ SetStatus(work[w].dispute, work[w].to)
  /\ Return(w)
  /\ UNCHANGED <<payment, entry, cancelled, sent, refunded, astray>>
-----------------------------------------------------------------------------
(* The refund: executeSafeRefundFlow of a dispute around processRefund,    *)
(* which an administrator may also call directly.                          *)

\* History: another refund of the payment is under way.
Overlaps(p) == IF \E w \in Handlers : Refunding(w, p) THEN Hidden(p) ELSE UNCHANGED astray

Resolve(w, d) ==
  /\ Free(w)
  /\ dispute[d].status = "OPEN" /\ dispute[d].refund # "PROCESSING"
  /\ LET p == PaidBy[dispute[d].item] IN
     /\ Do(w, [op |-> "lock", dispute |-> d, payment |-> p])
     /\ Overlaps(p)
  /\ UNCHANGED <<rows, sent, refunded>>

RefundDirectly(w, p) ==
  /\ Free(w)
  /\ Do(w, [op |-> "check", dispute |-> None, payment |-> p])
  /\ Overlaps(p)
  /\ UNCHANGED <<rows, sent, refunded>>

LockIntent(w) ==
  /\ Doing(w, "lock")
  /\ SetRefund(work[w].dispute, "PROCESSING")
  /\ Then(w, "check")
  /\ UNCHANGED <<payment, entry, cancelled, sent, refunded, astray>>

\* processRefund throws.
Throw(w) == IF work[w].dispute = None THEN Return(w) ELSE Then(w, "fail")

\* Mutant: what is left of a payment may be refunded too.
RefundableInPart(p) == payment[p] \in {"COMPLETED", "PARTIALLY_REFUNDED"}

Refundable(p) == payment[p] = "COMPLETED"

CheckPayment(w) ==
  /\ Doing(w, "check")
  /\ IF Refundable(work[w].payment) THEN Then(w, "refund") ELSE Throw(w)
  /\ UNCHANGED <<rows, sent, refunded, astray>>

\* Mutant: what the gateway threw is swallowed.
RefusalIgnored(w) == Then(w, "mark")

Refused(w) == Throw(w)

\* The gateway refuses, or makes the refund, and its answer may be lost.
InitiateRefund(w) ==
  /\ Doing(w, "refund")
  /\ LET p == work[w].payment IN
     \/ Refused(w) /\ UNCHANGED <<sent, refunded, astray>>
     \/ /\ sent[p] < MaxRefunds
        /\ sent' = [sent EXCEPT ![p] = @ + 1]
        /\ refunded' = refunded \cup ({work[w].dispute} \ {None})
        /\ \/ Then(w, "mark") /\ UNCHANGED astray
           \/ Throw(w) /\ Hidden(p)
  /\ UNCHANGED rows

\* How much is refunded is left open, but one order of a group is a part.
Marks(w) == IF Kind[work[w].payment] = "group" /\ work[w].dispute # None
            THEN {"PARTIALLY_REFUNDED"} ELSE {"REFUNDED", "PARTIALLY_REFUNDED"}

MarkPayment(w) ==
  /\ Doing(w, "mark")
  /\ LET p == work[w].payment IN
     \/ /\ \E st \in Marks(w) : payment' = [payment EXCEPT ![p] = st]
        /\ Then(w, "cancel")
        /\ UNCHANGED astray
     \/ UNCHANGED payment /\ Throw(w) /\ Hidden(p)
  /\ UNCHANGED <<dispute, entry, cancelled, sent, refunded>>

\* The update of the order, and the notification, may throw as well.
CancelOrder(w) ==
  /\ Doing(w, "cancel")
  /\ LET p == work[w].payment IN
     /\ \/ cancelled' = IF Kind[p] = "order" THEN cancelled \cup {p} ELSE cancelled
        \/ UNCHANGED cancelled
     /\ \/ /\ Kind[p] = "order" => p \in cancelled'
           /\ IF work[w].dispute = None THEN Return(w) ELSE Then(w, "book")
           /\ UNCHANGED astray
        \/ Throw(w) /\ Hidden(p)
  /\ UNCHANGED <<dispute, payment, entry, sent, refunded>>

RefundFailed(w) ==
  /\ Doing(w, "fail")
  /\ SetRefund(work[w].dispute, "FAILED")
  /\ Return(w)
  /\ UNCHANGED <<payment, entry, cancelled, sent, refunded, astray>>

\* Mutant: a booking that fails is handled like a refund that failed.
UnbookedFails(w) == Then(w, "fail")

Unbooked(w) == Return(w)

\* One transaction; the unique id of the payment refuses a second entry.
FinalizeRefund(w) ==
  /\ Doing(w, "book")
  /\ LET p == work[w].payment
         d == work[w].dispute
     IN \/ /\ entry[p] = None
           /\ entry' = [entry EXCEPT ![p] = d]
           /\ \E st \in Marks(w) : payment' = [payment EXCEPT ![p] = st]
           /\ dispute' = [dispute EXCEPT ![d].status = "RESOLVED", ![d].refund = "COMPLETED"]
           /\ Return(w)
        \/ entry[p] # None /\ Unbooked(w) /\ UNCHANGED <<entry, payment, dispute>>
  /\ UNCHANGED <<cancelled, sent, refunded, astray>>
-----------------------------------------------------------------------------
(* updatePaymentStatus, by a late webhook or another verification: only    *)
(* COMPLETED is left alone, a payment that was refunded is not.            *)

\* Mutant: the word of the gateway is written as it is.
AnswersRaw == {"COMPLETED", "REVERSED"}

\* The gateway calls a refunded charge successful or reversed, which the
\* program does not know and takes for pending.
Answers == {"COMPLETED", "PENDING"}

UpdatePaymentStatus(w, p) ==
  /\ Free(w)
  /\ payment[p] # "COMPLETED"
  /\ \E to \in Answers : Do(w, [op |-> "settle", payment |-> p, to |-> to])
  /\ UNCHANGED <<rows, sent, refunded, astray>>

\* The receipt is an upsert: it takes over the entry of a refund.
SettlePayment(w) ==
  /\ Doing(w, "settle")
  /\ LET p == work[w].payment IN
     /\ payment' = [payment EXCEPT ![p] = work[w].to]
     /\ \/ /\ work[w].to = "COMPLETED"
           /\ IF entry[p] = None THEN entry' \in {entry, [entry EXCEPT ![p] = Receipt]}
                                 ELSE UNCHANGED entry
           /\ cancelled' = cancelled \ {p}
           /\ IF sent[p] > 0 THEN Hidden(p) ELSE UNCHANGED astray
        \/ work[w].to = "PENDING" /\ UNCHANGED <<entry, cancelled, astray>>
  /\ Return(w)
  /\ UNCHANGED <<dispute, sent, refunded>>
-----------------------------------------------------------------------------
(* cancel of an administrator, for a ride whose payment it read as         *)
(* COMPLETED.  Its transaction ends with a log entry under a user that     *)
(* does not exist, and is rolled back; the ledger entry that it makes      *)
(* under way has a transaction of its own, and stays.                      *)

CancelRide(w, p) ==
  /\ Free(w)
  /\ Kind[p] = "ride" /\ payment[p] = "COMPLETED"
  /\ Do(w, [op |-> "record", payment |-> p])
  /\ UNCHANGED <<rows, sent, refunded, astray>>

RecordRefund(w) ==
  /\ Doing(w, "record")
  /\ \/ /\ entry[work[w].payment] = None
        /\ entry' = [entry EXCEPT ![work[w].payment] = Cancellation]
     \/ entry[work[w].payment] # None /\ UNCHANGED entry
  /\ Return(w)
  /\ UNCHANGED <<dispute, payment, cancelled, sent, refunded, astray>>
-----------------------------------------------------------------------------
Crash ==
  /\ work' = [w \in Handlers |-> None]
  /\ astray' = astray \cup {p \in Payments : \E w \in Handlers :
                              Doing(w, "mark") /\ Refunding(w, p)}
  /\ UNCHANGED <<rows, sent, refunded>>
-----------------------------------------------------------------------------
Ask(w) == \/ \E i \in Items : ReadToOpen(w, i)
          \/ \E d \in Disputes : ReadToClose(w, d) \/ Resolve(w, d)
          \/ \E p \in Payments : RefundDirectly(w, p) \/ UpdatePaymentStatus(w, p)
                                 \/ CancelRide(w, p)

Resume(w) == \/ Create(w)
             \/ Close(w)
             \/ LockIntent(w)
             \/ CheckPayment(w)
             \/ InitiateRefund(w)
             \/ MarkPayment(w)
             \/ CancelOrder(w)
             \/ RefundFailed(w)
             \/ FinalizeRefund(w)
             \/ SettlePayment(w)
             \/ RecordRefund(w)

Next == (\E w \in Handlers : Ask(w) \/ Resume(w)) \/ Crash

Spec == Init /\ [][Next]_vars
-----------------------------------------------------------------------------
(* Properties.                                                             *)

(* Customers get their money back once: a second refund of a payment needs *)
(* two requests that overlapped, an outcome that was hidden from the       *)
(* program, or a verification that made a refunded payment COMPLETED again;*)
(* neither a repeated resolution, nor the disputes of the other orders of  *)
(* a group, nor an administrator's own refund, brings it about.            *)
RefundedOnce == \A p \in Payments : p \notin astray => sent[p] <= 1

(* What is not PROCESSING or COMPLETED may be tried again, so no money may *)
(* have gone out for it: a refund that was made but could not be booked    *)
(* keeps its dispute locked.                                               *)
FailureSentNothing ==
  \A d \in refunded : PaidBy[dispute[d].item] \notin astray =>
    dispute[d].refund \in {"PROCESSING", "COMPLETED"}

(* No payment is marked, no order cancelled and no refund booked for a     *)
(* dispute unless the gateway gave money back, and the dispute of a booked *)
(* refund is about that payment and closed, whatever else happened to      *)
(* both.  A dispute whose refund is COMPLETED has, and keeps, the entry of *)
(* its payment.  The one refund that may be in the ledger with no money    *)
(* behind it is the Cancellation of a ride.                                *)
MoneyWentBack ==
  /\ \A p \in Payments :
       /\ payment[p] \in {"REFUNDED", "PARTIALLY_REFUNDED"} \/ p \in cancelled => sent[p] > 0
       /\ entry[p] \in Disputes => /\ sent[p] > 0
                                   /\ PaidBy[dispute[entry[p]].item] = p
                                   /\ dispute[entry[p]].status \in {"RESOLVED", "REJECTED"}
       /\ entry[p] = Cancellation => Kind[p] = "ride"
  /\ \A d \in Disputes : dispute[d].refund = "COMPLETED" => entry[PaidBy[dispute[d].item]] = d

(* disputes.service.spec.ts:75 and 91: a dispute about an order should    *)
(* "successfully fully refund", "Assert Transaction Log Created": the last *)
(* phase enters the refund in the ledger.                                  *)
RefundIsBooked == [][\A w \in Handlers :
  FinalizeRefund(w) /\ Kind[work[w].payment] = "order"
    => entry'[work[w].payment] = work[w].dispute]_vars
=============================================================================
