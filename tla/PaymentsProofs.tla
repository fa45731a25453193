--------------------------- MODULE PaymentsProofs ---------------------------
(***************************************************************************)
(* Proofs about Payments, for any orders, rides, references and handlers.  *)
(***************************************************************************)
EXTENDS Payments, FiniteSetTheorems, TLAPS

Known(r)   == payment[r].status # "NONE"
Backed(r)  == charged[r] = "PAID" \/ payment[r].bill \in forced
Receipted(b) == \E r \in receipt : payment[r].bill = b

(* One row to a bill, and a receipt keeps its row.                         *)
Rows == /\ \A r \in Refs : Known(r) => payment[r].bill \in Bills
        /\ \A r, s \in Refs :
             Exists(r) /\ Exists(s) /\ payment[r].bill = payment[s].bill => r = s
        /\ \A r \in receipt : Exists(r)

(* Money or an administrator is behind what is settled.                    *)
Justified == \A r \in Refs :
  payment[r].status = "COMPLETED" \/ r \in receipt => Backed(r)

(* The same for what a handler is about to settle or to book.              *)
Sound(x) ==
  /\ x.op = "settle" => Known(x.ref) /\ (x.to = "COMPLETED" => Backed(x.ref))
  /\ x.op = "book"   => Known(x.ref) /\ Backed(x.ref) /\ payment[x.ref].bill = x.ride
  /\ x.op = "credit" => Receipted(x.ride)
  /\ x.op = "refund" => Known(x.ref) /\ Backed(x.ref)

BackedAfter(r) == charged'[r] = "PAID" \/ payment'[r].bill \in forced'

SoundAfter(x) ==
  /\ x.op = "settle" => /\ payment'[x.ref].status # "NONE"
                        /\ x.to = "COMPLETED" => BackedAfter(x.ref)
  /\ x.op = "book"   => /\ payment'[x.ref].status # "NONE"
                        /\ BackedAfter(x.ref)
                        /\ payment'[x.ref].bill = x.ride
  /\ x.op = "credit" => \E r \in receipt' : payment'[r].bill = x.ride
  /\ x.op = "refund" => payment'[x.ref].status # "NONE" /\ BackedAfter(x.ref)

Pending == \A w \in Handlers : work[w] # None => Sound(work[w])

Sales == \A o \in Orders : sold[o] = IF Receipted(o) THEN 1 ELSE 0

Trips == \A b \in Rides : earned[b] > 0 => Receipted(b)

IInv == PaymentTypeOK /\ Rows /\ Justified /\ Pending /\ Sales /\ Trips

(* What no step undoes.                                                    *)
Grows == /\ \A r \in Refs : Known(r) => /\ payment'[r].status # "NONE"
                                        /\ payment'[r].bill = payment[r].bill
         /\ \A r \in Refs : charged[r] = "PAID" => charged'[r] = "PAID"
         /\ forced \subseteq forced'
         /\ receipt \subseteq receipt'

USE DEF Bills, Live, Cancelled, RideStatus, notes
-----------------------------------------------------------------------------
(* The tasks of a handler.                                                 *)

LEMMA TaskFields ==
  ASSUME PaymentTypeOK, NEW w \in Handlers, work[w] # None
  PROVE  /\ work[w] \in Task
         /\ work[w].op = "replace" => work[w].bill \in Bills /\ work[w].old \in Refs
         /\ work[w].op = "create" => work[w].bill \in Bills
         /\ work[w].op = "open" => work[w].ref \in Refs
         /\ work[w].op = "settle" => work[w].ref \in Refs /\ work[w].to \in Live
         /\ work[w].op \in {"after", "match"} => work[w].ride \in Rides
         /\ work[w].op = "book" => work[w].ref \in Refs /\ work[w].ride \in Rides
         /\ work[w].op = "credit" => work[w].ride \in Rides
         /\ work[w].op = "refund" => work[w].ref \in Refs
BY DEF PaymentTypeOK, Task

LEMMA Tasks ==
  /\ \A b \in Bills, r \in Refs : [op |-> "replace", bill |-> b, old |-> r] \in Task
  /\ \A b \in Bills : [op |-> "create", bill |-> b] \in Task
  /\ \A r \in Refs : [op |-> "open", ref |-> r] \in Task
  /\ \A r \in Refs, st \in Live : [op |-> "settle", ref |-> r, to |-> st] \in Task
  /\ \A b \in Rides : /\ [op |-> "after", ride |-> b] \in Task
                      /\ [op |-> "match", ride |-> b] \in Task
                      /\ [op |-> "credit", ride |-> b] \in Task
  /\ \A r \in Refs, b \in Rides : [op |-> "book", ref |-> r, ride |-> b] \in Task
  /\ \A r \in Refs : [op |-> "refund", ref |-> r] \in Task
BY DEF Task

(* A task that was sound before a step that undoes nothing is sound after. *)
LEMMA SoundStays ==
  ASSUME IInv, Grows, NEW w \in Handlers, work[w] # None
  PROVE  SoundAfter(work[w])
<1> DEFINE x == work[w]
<1>1. Sound(x)
  BY DEF IInv, Pending
<1>2. /\ x.op = "settle" => x.ref \in Refs
      /\ x.op = "book" => x.ref \in Refs
      /\ x.op = "refund" => x.ref \in Refs
  BY TaskFields DEF IInv
<1>3. receipt \subseteq Refs /\ \A r \in receipt : Known(r)
  BY DEF IInv, PaymentTypeOK, Rows, Exists, Known
<1>4. Receipted(x.ride) => \E r \in receipt' : payment'[r].bill = x.ride
  BY <1>3 DEF Grows, Receipted
<1>5. x.op = "settle" => /\ payment'[x.ref].status # "NONE"
                         /\ x.to = "COMPLETED" => BackedAfter(x.ref)
  BY <1>1, <1>2 DEF Sound, Grows, Backed, BackedAfter, Known
<1>6. x.op = "book" => /\ payment'[x.ref].status # "NONE"
                       /\ BackedAfter(x.ref)
                       /\ payment'[x.ref].bill = x.ride
  BY <1>1, <1>2 DEF Sound, Grows, Backed, BackedAfter, Known
<1>7. x.op = "credit" => \E r \in receipt' : payment'[r].bill = x.ride
  BY <1>1, <1>4 DEF Sound
<1>8. x.op = "refund" => payment'[x.ref].status # "NONE" /\ BackedAfter(x.ref)
  BY <1>1, <1>2 DEF Sound, Grows, Backed, BackedAfter, Known
<1> QED BY <1>5, <1>6, <1>7, <1>8 DEF SoundAfter

LEMMA PendingKept ==
  ASSUME IInv, Grows, NEW w \in Handlers, NEW x, Do(w, x),
         x # None => SoundAfter(x)
  PROVE  Pending'
<1> SUFFICES ASSUME NEW v \in Handlers, work'[v] # None
             PROVE  SoundAfter(work'[v])
  BY DEF Pending, Sound, SoundAfter, BackedAfter, Backed, Receipted, Known
<1>1. CASE v = w
  BY <1>1 DEF Do, IInv, PaymentTypeOK
<1>2. CASE v # w
  <2>1. work'[v] = work[v]
    BY <1>2 DEF Do, IInv, PaymentTypeOK
  <2> QED BY <2>1, SoundStays
<1> QED BY <1>1, <1>2

LEMMA PendingStays ==
  ASSUME IInv, Grows, UNCHANGED work
  PROVE  Pending'
<1> SUFFICES ASSUME NEW v \in Handlers, work'[v] # None
             PROVE  SoundAfter(work'[v])
  BY DEF Pending, Sound, SoundAfter, BackedAfter, Backed, Receipted, Known
<1> QED BY SoundStays

LEMMA HandlerMoves ==
  ASSUME PaymentTypeOK, NEW w \in Handlers, NEW x \in Task \cup {None}, Do(w, x)
  PROVE  work' \in [Handlers -> Task \cup {None}]
BY DEF PaymentTypeOK, Do

(* A step that writes neither rows nor books.                              *)
LEMMA BooksKept ==
  ASSUME IInv, UNCHANGED <<payment, books>>,
         forced \subseteq forced',
         \A r \in Refs : charged[r] = "PAID" => charged'[r] = "PAID"
  PROVE  Grows /\ Rows' /\ Justified' /\ Sales' /\ Trips'
BY DEF IInv, Rows, Justified, Sales, Trips, Grows, books, Exists, Known, Backed, Receipted

(* A step that changes the status of one row that exists and books nothing. *)
LEMMA StatusWritten ==
  ASSUME IInv, UNCHANGED <<charged, books, forced>>,
         NEW r \in Refs, Exists(r), NEW st \in Live \cup {"DELETED"}, SetStatus(r, st),
         st = "COMPLETED" => Backed(r),
         st = "DELETED" => r \notin receipt
  PROVE  /\ payment' \in [Refs -> [status : Live \cup {"NONE", "DELETED"},
                                   bill : Bills \cup {None}]]
         /\ Grows /\ Rows' /\ Justified' /\ Sales' /\ Trips'
<1>1. payment' = [payment EXCEPT ![r].status = st]
  BY DEF SetStatus
<1>2. \A s \in Refs : payment'[s].bill = payment[s].bill
  BY <1>1 DEF IInv, PaymentTypeOK
<1>3. \A s \in Refs : payment'[s].status = IF s = r THEN st ELSE payment[s].status
  BY <1>1 DEF IInv, PaymentTypeOK
<1>4. payment' \in [Refs -> [status : Live \cup {"NONE", "DELETED"}, bill : Bills \cup {None}]]
  BY <1>1 DEF IInv, PaymentTypeOK
<1>5. Grows
  BY <1>2, <1>3 DEF Grows, Known, Exists, books
<1>6. Rows'
  BY <1>2, <1>3 DEF IInv, Rows, Known, Exists, books, PaymentTypeOK
<1>7. Justified'
  BY <1>2, <1>3 DEF IInv, Justified, Backed, books
<1>8. Sales' /\ Trips'
  BY <1>2 DEF IInv, PaymentTypeOK, Sales, Trips, Receipted, books
<1> QED BY <1>4, <1>5, <1>6, <1>7, <1>8

(* A receipt for a row that exists, and the entry of the store or driver.  *)
LEMMA ReceiptWritten ==
  ASSUME IInv, UNCHANGED <<charged, forced>>,
         NEW r \in Refs, Exists(r), Backed(r),
         payment' = payment \/ \E st \in {"COMPLETED", "REFUNDED"} : SetStatus(r, st),
         receipt' = receipt \cup {r},
         \/ payment[r].bill \in Orders /\ RecordOrderCommission(payment[r].bill)
            /\ UNCHANGED earned
         \/ payment[r].bill \in Rides /\ RecordRideEarnings(payment[r].bill)
            /\ UNCHANGED sold
         \/ payment[r].bill \in Rides /\ UNCHANGED <<sold, earned>>
  PROVE  /\ payment' \in [Refs -> [status : Live \cup {"NONE", "DELETED"},
                                   bill : Bills \cup {None}]]
         /\ receipt' \subseteq Refs
         /\ sold' \in [Orders -> Nat]
         /\ earned' \in [Rides -> 0 .. MaxEarnings]
         /\ Grows /\ Rows' /\ Justified' /\ Sales' /\ Trips'
<1> DEFINE c == payment[r].bill
<1>0. PaymentTypeOK /\ Orders \cap Rides = {} /\ MaxEarnings \in Nat \ {0}
  BY PaymentAssumption DEF IInv, PaymentAssumption
<1>1. \A s \in Refs : payment'[s].bill = payment[s].bill
  BY <1>0 DEF PaymentTypeOK, SetStatus
<1>2. \A s \in Refs : /\ payment'[s].status \in {payment[s].status, "COMPLETED", "REFUNDED"}
                      /\ s # r => payment'[s].status = payment[s].status
  BY <1>0 DEF PaymentTypeOK, SetStatus
<1>3. payment' \in [Refs -> [status : Live \cup {"NONE", "DELETED"}, bill : Bills \cup {None}]]
  BY <1>0 DEF PaymentTypeOK, SetStatus
<1>4. receipt' \subseteq Refs
  BY <1>0 DEF PaymentTypeOK
<1>5. Grows
  BY <1>1, <1>2 DEF Grows, Known, Exists
<1>6. Rows'
  <2>1. payment'[r].status \in Live
    BY <1>2 DEF Exists
  <2>2. \A s \in Refs : Exists(s)' <=> Exists(s)
    BY <1>2, <2>1 DEF Exists
  <2>3. \A s \in Refs : Known(s)' <=> Known(s)
    BY <1>2, <2>1 DEF Known, Exists
  <2> QED BY <1>1, <1>4, <2>2, <2>3 DEF IInv, Rows
<1>7. Justified'
  BY <1>1, <1>2 DEF IInv, Justified, Backed
<1>8. \A b \in Bills : Receipted(b)' <=> Receipted(b) \/ b = c
  BY <1>0, <1>1 DEF Receipted, PaymentTypeOK
<1>9. sold' \in [Orders -> Nat] /\ Sales'
  <2>1. CASE c \in Orders /\ RecordOrderCommission(c)
    <3>1. sold' \in [Orders -> Nat]
      BY <1>0, <2>1 DEF PaymentTypeOK, RecordOrderCommission
    <3>2. \A o \in Orders : sold'[o] = IF Receipted(o) \/ o = c THEN 1 ELSE 0
      BY <1>0, <2>1 DEF IInv, Sales, PaymentTypeOK, RecordOrderCommission
    <3> QED BY <1>8, <3>1, <3>2 DEF Sales
  <2>2. CASE c \in Rides /\ UNCHANGED sold
    BY <1>0, <1>8, <2>2 DEF IInv, Sales, PaymentTypeOK
  <2> QED BY <2>1, <2>2
<1>10. earned' \in [Rides -> 0 .. MaxEarnings] /\ Trips'
  <2>1. CASE c \in Rides /\ RecordRideEarnings(c)
    <3>1. earned' \in [Rides -> 0 .. MaxEarnings]
      BY <1>0, <2>1 DEF PaymentTypeOK, RecordRideEarnings
    <3>2. \A b \in Rides : b # c => earned'[b] = earned[b]
      BY <1>0, <2>1 DEF PaymentTypeOK, RecordRideEarnings
    <3> QED BY <1>8, <3>1, <3>2 DEF IInv, Trips
  <2>2. CASE UNCHANGED earned
    BY <1>0, <1>8, <2>2 DEF IInv, Trips, PaymentTypeOK
  <2> QED BY <2>1, <2>2
<1> QED BY <1>3, <1>4, <1>5, <1>6, <1>7, <1>9, <1>10
-----------------------------------------------------------------------------
(* One lemma for the steps of each group of handlers.                      *)

LEMMA InitiateSteps ==
  ASSUME IInv, NEW w \in Handlers,
         \/ \E b \in Bills : Initiate(w, b)
         \/ DeletePrevious(w) \/ CreatePayment(w) \/ OpenSession(w)
  PROVE  IInv'
<1>0. PaymentTypeOK
  BY DEF IInv
<1>1. CASE \E b \in Bills : Initiate(w, b)
  <2>1. UNCHANGED <<payment, charged, books, trips, notes>>
    BY <1>1 DEF Initiate
  <2>2. Grows /\ Rows' /\ Justified' /\ Sales' /\ Trips'
    BY <2>1, BooksKept
  <2>3. PICK b \in Bills : Initiate(w, b)
    BY <1>1
  <2>4. CASE \E r \in Refs : Do(w, [op |-> "replace", bill |-> b, old |-> r])
    <3>1. PICK r \in Refs : Do(w, [op |-> "replace", bill |-> b, old |-> r])
      BY <2>4
    <3> QED BY <1>0, <2>1, <2>2, <3>1, Tasks, HandlerMoves, PendingKept
            DEF SoundAfter, IInv, PaymentTypeOK, books, trips
  <2>5. CASE Do(w, [op |-> "create", bill |-> b])
    BY <1>0, <2>1, <2>2, <2>5, Tasks, HandlerMoves, PendingKept
       DEF SoundAfter, IInv, PaymentTypeOK, books, trips
  <2> QED BY <2>3, <2>4, <2>5 DEF Initiate
<1>2. CASE DeletePrevious(w)
  <2> DEFINE old == work[w].old
  <2>0. work[w] # None /\ work[w].bill \in Bills /\ old \in Refs
    BY <1>0, <1>2, TaskFields DEF DeletePrevious, Doing
  <2>1. UNCHANGED <<charged, books, trips, notes>>
    BY <1>2 DEF DeletePrevious
  <2>2. CASE Deletable(old)
    <3>1. SetStatus(old, "DELETED") /\ Exists(old) /\ old \notin receipt
      BY <1>2, <2>2 DEF DeletePrevious, Deletable
    <3>2. Do(w, [op |-> "create", bill |-> work[w].bill])
      BY <1>2, <2>2 DEF DeletePrevious
    <3>3. /\ payment' \in [Refs -> [status : Live \cup {"NONE", "DELETED"},
                                    bill : Bills \cup {None}]]
          /\ Grows /\ Rows' /\ Justified' /\ Sales' /\ Trips'
      BY <2>0, <2>1, <3>1, StatusWritten
    <3> QED BY <1>0, <2>0, <2>1, <3>2, <3>3, Tasks, HandlerMoves, PendingKept
            DEF SoundAfter, IInv, PaymentTypeOK, books, trips
  <2>3. CASE ~ Deletable(old)
    <3>1. UNCHANGED payment /\ Do(w, None)
      BY <1>2, <2>3 DEF DeletePrevious, Return
    <3>2. Grows /\ Rows' /\ Justified' /\ Sales' /\ Trips'
      BY <2>1, <3>1, BooksKept
    <3> QED BY <1>0, <2>1, <3>1, <3>2, HandlerMoves, PendingKept
            DEF IInv, PaymentTypeOK, books, trips
  <2> QED BY <2>2, <2>3
<1>3. CASE CreatePayment(w)
  <2> DEFINE c == work[w].bill
  <2>0. work[w] # None /\ c \in Bills
    BY <1>0, <1>3, TaskFields DEF CreatePayment, Doing
  <2>1. UNCHANGED <<charged, books, trips, notes>>
    BY <1>3 DEF CreatePayment
  <2>2. ASSUME NEW r \in Refs, \A s \in Refs : ~ RowOf(c, s), payment[r].status = "NONE",
               payment' = [payment EXCEPT ![r] = [status |-> "PENDING", bill |-> c]],
               Do(w, [op |-> "open", ref |-> r])
        PROVE  IInv'
    <3>1. payment' \in [Refs -> [status : Live \cup {"NONE", "DELETED"},
                                bill : Bills \cup {None}]]
      BY <1>0, <2>0, <2>2 DEF PaymentTypeOK
    <3>2. /\ \A s \in Refs \ {r} : payment'[s] = payment[s]
          /\ payment'[r].bill = c /\ payment'[r].status = "PENDING"
      BY <1>0, <2>2 DEF PaymentTypeOK
    <3>3. Grows
      BY <2>1, <2>2, <3>2 DEF Grows, Known, books
    <3>4. r \notin receipt
      BY <2>2 DEF IInv, Rows, Exists
    <3>5. Rows'
      <4>1. \A s \in Refs : Known(s)' => payment'[s].bill \in Bills
        BY <2>0, <3>2 DEF IInv, Rows, Known
      <4>2. \A s, t \in Refs :
              Exists(s)' /\ Exists(t)' /\ payment'[s].bill = payment'[t].bill => s = t
        BY <2>2, <3>2 DEF IInv, Rows, Exists, RowOf
      <4>3. \A s \in receipt' : Exists(s)'
        BY <1>0, <2>1, <3>2, <3>4 DEF IInv, Rows, Exists, books, PaymentTypeOK
      <4> QED BY <4>1, <4>2, <4>3 DEF Rows
    <3>6. Justified'
      BY <2>1, <3>2, <3>4 DEF IInv, Justified, Backed, books
    <3>7. Sales' /\ Trips'
      <4>1. receipt' = receipt /\ \A s \in receipt : payment'[s].bill = payment[s].bill
        BY <1>0, <2>1, <3>2, <3>4 DEF PaymentTypeOK, books
      <4> QED BY <2>1, <4>1 DEF IInv, Sales, Trips, Receipted, books
    <3> QED BY <1>0, <2>1, <2>2, <3>1, <3>3, <3>5, <3>6, <3>7, Tasks, HandlerMoves, PendingKept
            DEF SoundAfter, IInv, PaymentTypeOK, books, trips
  <2>3. CASE UNCHANGED payment /\ Do(w, None)
    <3>1. Grows /\ Rows' /\ Justified' /\ Sales' /\ Trips'
      BY <2>1, <2>3, BooksKept
    <3> QED BY <1>0, <2>1, <2>3, <3>1, HandlerMoves, PendingKept
            DEF IInv, PaymentTypeOK, books, trips
  <2> QED BY <1>3, <2>2, <2>3 DEF CreatePayment, Return, Fresh
<1>4. CASE OpenSession(w)
  <2> DEFINE r == work[w].ref
  <2>0. work[w] # None /\ r \in Refs
    BY <1>0, <1>4, TaskFields DEF OpenSession, Doing
  <2>1. UNCHANGED <<books, trips, notes>> /\ Do(w, None)
    BY <1>4 DEF OpenSession, Return
  <2>2. CASE Exists(r) /\ SetStatus(r, "FAILED") /\ UNCHANGED charged
    <3>1. /\ payment' \in [Refs -> [status : Live \cup {"NONE", "DELETED"},
                                    bill : Bills \cup {None}]]
          /\ Grows /\ Rows' /\ Justified' /\ Sales' /\ Trips'
      BY <2>0, <2>1, <2>2, StatusWritten
    <3> QED BY <1>0, <2>1, <2>2, <3>1, HandlerMoves, PendingKept
            DEF IInv, PaymentTypeOK, books, trips
  <2>3. CASE /\ UNCHANGED payment
             /\ charged[r] = "NONE"
             /\ charged' = [charged EXCEPT ![r] = "OPEN"]
    <3>1. /\ charged' \in [Refs -> {"NONE", "OPEN", "PAID"}]
          /\ \A s \in Refs : charged[s] = "PAID" => charged'[s] = "PAID"
      BY <1>0, <2>0, <2>3 DEF PaymentTypeOK
    <3>2. Grows /\ Rows' /\ Justified' /\ Sales' /\ Trips'
      BY <2>1, <2>3, <3>1, BooksKept
    <3> QED BY <1>0, <2>1, <2>3, <3>1, <3>2, HandlerMoves, PendingKept
            DEF IInv, PaymentTypeOK, books, trips
  <2>4. CASE UNCHANGED <<payment, charged>>
    <3>1. Grows /\ Rows' /\ Justified' /\ Sales' /\ Trips'
      BY <2>1, <2>4, BooksKept
    <3> QED BY <1>0, <2>1, <2>4, <3>1, HandlerMoves, PendingKept
            DEF IInv, PaymentTypeOK, books, trips
  <2> QED BY <1>4, <2>2, <2>3, <2>4 DEF OpenSession
<1> QED BY <1>1, <1>2, <1>3, <1>4

LEMMA AskSteps ==
  ASSUME IInv, NEW w \in Handlers, NEW r \in Refs,
         \/ Webhook(w, r) \/ VerifyPayment(w, r) \/ ForcePayment(w, r)
         \/ AskRefund(w, r)
         \/ \E b \in Rides : AdminCompleteRide(w, b, r)
  PROVE  IInv'
<1>0. PaymentTypeOK
  BY DEF IInv
<1>1. ASSUME NEW st \in Live, UpdatePaymentStatus(w, r, st),
             UNCHANGED <<payment, charged, books, trips, refunded>>,
             forced' \subseteq Rides, forced \subseteq forced',
             st = "COMPLETED" => BackedAfter(r)
      PROVE  IInv'
  <2>1. Grows /\ Rows' /\ Justified' /\ Sales' /\ Trips'
    BY <1>1, BooksKept
  <2>2. payment'[r].status # "NONE" /\ contested' \subseteq Rides
    BY <1>0, <1>1 DEF UpdatePaymentStatus, Settleable, Exists, Overlaps, PaymentTypeOK
  <2> QED BY <1>0, <1>1, <2>1, <2>2, Tasks, HandlerMoves, PendingKept
          DEF UpdatePaymentStatus, SoundAfter, IInv, PaymentTypeOK, books, trips
<1>2. CASE Webhook(w, r)
  BY <1>0, <1>1, <1>2 DEF Webhook, BackedAfter, PaymentTypeOK
<1>3. CASE VerifyPayment(w, r)
  <2>1. PICK st \in Answers(charged[r]) \cup {"PENDING"} : UpdatePaymentStatus(w, r, st)
    BY <1>3 DEF VerifyPayment
  <2>2. st \in Live /\ (st = "COMPLETED" => charged[r] = "PAID")
    BY <1>0, <2>1 DEF Answers, PaymentTypeOK
  <2> QED BY <1>0, <1>1, <1>3, <2>1, <2>2 DEF VerifyPayment, BackedAfter, PaymentTypeOK
<1>4. CASE ForcePayment(w, r)
  BY <1>0, <1>1, <1>4 DEF ForcePayment, BackedAfter, PaymentTypeOK
<1>5. CASE \E b \in Rides : AdminCompleteRide(w, b, r)
  <2>1. PICK b \in Rides : AdminCompleteRide(w, b, r)
    BY <1>5
  <2>2. /\ UNCHANGED <<payment, charged, books, trips, forced, refunded>>
        /\ contested' \subseteq Rides
    BY <1>0, <2>1 DEF AdminCompleteRide, PaymentTypeOK
  <2>3. Grows /\ Rows' /\ Justified' /\ Sales' /\ Trips'
    BY <2>2, BooksKept
  <2>4. SoundAfter([op |-> "book", ref |-> r, ride |-> b])
    BY <2>1, <2>2 DEF AdminCompleteRide, RowOf, Exists, IInv, Justified, Backed, BackedAfter,
                      SoundAfter
  <2>5. Do(w, [op |-> "book", ref |-> r, ride |-> b])
    BY <2>1 DEF AdminCompleteRide
  <2> QED BY <1>0, <2>2, <2>3, <2>4, <2>5, Tasks, HandlerMoves, PendingKept
          DEF IInv, PaymentTypeOK, books, trips
<1>6. CASE AskRefund(w, r)
  <2>1. /\ UNCHANGED <<payment, charged, books, trips, notes>>
        /\ payment[r].status = "COMPLETED" /\ Do(w, [op |-> "refund", ref |-> r])
    BY <1>6 DEF AskRefund
  <2>2. Grows /\ Rows' /\ Justified' /\ Sales' /\ Trips'
    BY <2>1, BooksKept
  <2>3. SoundAfter([op |-> "refund", ref |-> r])
    BY <2>1 DEF IInv, Justified, Backed, BackedAfter, SoundAfter
  <2> QED BY <1>0, <2>1, <2>2, <2>3, Tasks, HandlerMoves, PendingKept
          DEF IInv, PaymentTypeOK, books, trips
<1> QED BY <1>2, <1>3, <1>4, <1>5, <1>6

LEMMA SettleStep ==
  ASSUME IInv, NEW w \in Handlers, SettlePayment(w)
  PROVE  IInv'
<1> DEFINE r == work[w].ref
           b == payment[r].bill
<1>0. PaymentTypeOK /\ Orders \cap Rides = {}
  BY PaymentAssumption DEF IInv, PaymentAssumption
<1>1. work[w] # None /\ r \in Refs /\ work[w].to \in Live /\ Sound(work[w])
      /\ work[w].op = "settle"
  BY <1>0, TaskFields DEF SettlePayment, Doing, IInv, Pending
<1>2. UNCHANGED <<charged, driver, notes>>
  BY DEF SettlePayment
<1>3. CASE ~ Overwritable(r) /\ Return(w) /\ UNCHANGED <<payment, books, ride>>
  <2>1. Grows /\ Rows' /\ Justified' /\ Sales' /\ Trips'
    BY <1>2, <1>3, BooksKept
  <2> QED BY <1>0, <1>2, <1>3, <2>1, HandlerMoves, PendingKept
          DEF Return, IInv, PaymentTypeOK, books
<1>4. CASE /\ Overwritable(r) /\ work[w].to = "COMPLETED" /\ b \in Orders
           /\ SetStatus(r, "COMPLETED") /\ SettleOrder(r) /\ Return(w)
  <2>1. Backed(r) /\ Exists(r)
    BY <1>1, <1>4 DEF Sound, Overwritable
  <2>2. receipt' = receipt \cup {r} /\ RecordOrderCommission(b) /\ UNCHANGED <<earned, ride>>
    BY <1>4 DEF SettleOrder
  <2>3. /\ payment' \in [Refs -> [status : Live \cup {"NONE", "DELETED"},
                                  bill : Bills \cup {None}]]
        /\ receipt' \subseteq Refs
        /\ sold' \in [Orders -> Nat]
        /\ earned' \in [Rides -> 0 .. MaxEarnings]
        /\ Grows /\ Rows' /\ Justified' /\ Sales' /\ Trips'
    BY <1>1, <1>2, <1>4, <2>1, <2>2, ReceiptWritten
  <2> QED BY <1>0, <1>2, <1>4, <2>2, <2>3, HandlerMoves, PendingKept
          DEF Return, IInv, PaymentTypeOK
<1>5. CASE /\ Overwritable(r) /\ work[w].to = "COMPLETED" /\ b \in Rides
           /\ SetStatus(r, "COMPLETED") /\ SettleRide(r)
           /\ Do(w, [op |-> "after", ride |-> b])
  <2>1. Backed(r) /\ Exists(r)
    BY <1>1, <1>5 DEF Sound, Overwritable
  <2>2. ride' \in [Rides -> RideStatus] /\ UNCHANGED sold
    BY <1>0, <1>5 DEF SettleRide, PaymentTypeOK
  <2>3. /\ payment' \in [Refs -> [status : Live \cup {"NONE", "DELETED"},
                                  bill : Bills \cup {None}]]
        /\ receipt' \subseteq Refs
        /\ earned' \in [Rides -> 0 .. MaxEarnings]
        /\ Grows /\ Rows' /\ Justified' /\ Sales' /\ Trips'
    <3>1. CASE receipt' = receipt \cup {r} /\ RecordRideEarnings(b)
      BY <1>1, <1>2, <1>5, <2>1, <2>2, <3>1, ReceiptWritten
    <3>2. CASE UNCHANGED <<receipt, earned>>
      BY <1>0, <1>1, <1>2, <1>5, <2>1, <2>2, <3>2, StatusWritten DEF books, PaymentTypeOK
    <3> QED BY <1>5, <3>1, <3>2 DEF SettleRide
  <2> QED BY <1>0, <1>2, <1>5, <2>2, <2>3, Tasks, HandlerMoves, PendingKept
          DEF SoundAfter, IInv, PaymentTypeOK
<1>6. CASE /\ Overwritable(r) /\ work[w].to # "COMPLETED"
           /\ SetStatus(r, work[w].to)
           /\ (IF work[w].to = "FAILED" THEN FailRide(r) ELSE UNCHANGED ride)
           /\ Return(w) /\ UNCHANGED books
  <2>1. ride' \in [Rides -> RideStatus]
    BY <1>0, <1>6 DEF FailRide, PaymentTypeOK
  <2>2. /\ payment' \in [Refs -> [status : Live \cup {"NONE", "DELETED"},
                                  bill : Bills \cup {None}]]
        /\ Grows /\ Rows' /\ Justified' /\ Sales' /\ Trips'
    BY <1>1, <1>2, <1>6, StatusWritten DEF Overwritable
  <2> QED BY <1>0, <1>2, <1>6, <2>1, <2>2, HandlerMoves, PendingKept
          DEF Return, IInv, PaymentTypeOK, books
<1> QED BY <1>3, <1>4, <1>5, <1>6 DEF SettlePayment

LEMMA AfterSteps ==
  ASSUME IInv, NEW w \in Handlers, LookAgain(w) \/ StartRideMatching(w)
  PROVE  IInv'
<1>0. PaymentTypeOK /\ work[w] # None /\ work[w].ride \in Rides
  BY TaskFields DEF IInv, LookAgain, StartRideMatching, Doing
<1>1. UNCHANGED <<payment, charged, books, driver, notes>> /\ ride' \in [Rides -> RideStatus]
  BY <1>0 DEF LookAgain, StartRideMatching, PaymentTypeOK, trips
<1>2. Grows /\ Rows' /\ Justified' /\ Sales' /\ Trips'
  BY <1>1, BooksKept
<1>3. CASE Do(w, [op |-> "match", ride |-> work[w].ride])
  BY <1>0, <1>1, <1>2, <1>3, Tasks, HandlerMoves, PendingKept
     DEF SoundAfter, IInv, PaymentTypeOK, books
<1>4. CASE Do(w, None)
  BY <1>0, <1>1, <1>2, <1>4, HandlerMoves, PendingKept DEF IInv, PaymentTypeOK, books
<1> QED BY <1>3, <1>4 DEF LookAgain, StartRideMatching, Return

LEMMA BookStep ==
  ASSUME IInv, NEW w \in Handlers, BookReceipt(w)
  PROVE  IInv'
<1> DEFINE r == work[w].ref
           b == work[w].ride
<1>0. PaymentTypeOK
  BY DEF IInv
<1>1. work[w] # None /\ work[w].op = "book" /\ r \in Refs /\ b \in Rides /\ Sound(work[w])
  BY <1>0, TaskFields DEF BookReceipt, Doing, IInv, Pending
<1>2. UNCHANGED <<payment, charged, sold, earned, trips, notes>>
  BY DEF BookReceipt
<1>3. CASE Exists(r)
  <2>1. receipt' = receipt \cup {r} /\ Do(w, [op |-> "credit", ride |-> b])
    BY <1>3 DEF BookReceipt
  <2>2. Backed(r) /\ payment[r].bill = b
    BY <1>1 DEF Sound
  <2>3. /\ receipt' \subseteq Refs
        /\ Grows /\ Rows' /\ Justified' /\ Sales' /\ Trips'
    BY <1>1, <1>2, <1>3, <2>1, <2>2, ReceiptWritten
  <2>4. SoundAfter([op |-> "credit", ride |-> b])
    BY <1>2, <2>1, <2>2 DEF SoundAfter
  <2> QED BY <1>0, <1>1, <1>2, <2>1, <2>3, <2>4, Tasks, HandlerMoves, PendingKept
          DEF IInv, PaymentTypeOK, trips
<1>4. CASE ~ Exists(r)
  <2>1. UNCHANGED receipt /\ Do(w, None)
    BY <1>4 DEF BookReceipt, Return
  <2>2. Grows /\ Rows' /\ Justified' /\ Sales' /\ Trips'
    BY <1>2, <2>1, BooksKept DEF books
  <2> QED BY <1>0, <1>2, <2>1, <2>2, HandlerMoves, PendingKept DEF IInv, PaymentTypeOK, trips
<1> QED BY <1>3, <1>4

LEMMA CreditStep ==
  ASSUME IInv, NEW w \in Handlers, CreditDriver(w)
  PROVE  IInv'
<1> DEFINE b == work[w].ride
<1>0. PaymentTypeOK /\ MaxEarnings \in Nat \ {0}
  BY PaymentAssumption DEF IInv, PaymentAssumption
<1>1. work[w] # None /\ b \in Rides /\ Receipted(b)
  BY <1>0, TaskFields DEF CreditDriver, Doing, IInv, Pending, Sound
<1>2. /\ UNCHANGED <<payment, charged, receipt, sold, trips, notes>>
      /\ RecordRideEarnings(b) /\ Do(w, None)
  BY DEF CreditDriver, Return
<1>3. /\ earned' \in [Rides -> 0 .. MaxEarnings]
      /\ \A c \in Rides : c # b => earned'[c] = earned[c]
  <2> HIDE DEF b
  <2>1. earned' = IF earned[b] < MaxEarnings THEN [earned EXCEPT ![b] = @ + 1] ELSE earned
    BY <1>2 DEF RecordRideEarnings
  <2>2. earned \in [Rides -> 0 .. MaxEarnings] /\ b \in Rides
    BY <1>0, <1>1 DEF PaymentTypeOK
  <2> QED BY <1>0, <2>1, <2>2
<1>4. Trips'
  <2>1. \A c \in Rides : Receipted(c)' <=> Receipted(c)
    BY <1>2 DEF Receipted
  <2>2. \A c \in Rides : earned'[c] > 0 => Receipted(c)
    BY <1>1, <1>3 DEF IInv, Trips
  <2> QED BY <2>1, <2>2 DEF Trips
<1>5. Grows /\ Rows' /\ Justified' /\ Sales'
  BY <1>2 DEF IInv, Grows, Rows, Justified, Sales, Exists, Known, Backed, Receipted
<1> QED BY <1>0, <1>2, <1>3, <1>4, <1>5, HandlerMoves, PendingKept DEF IInv, PaymentTypeOK, trips

LEMMA RefundStep ==
  ASSUME IInv, NEW w \in Handlers, Refund(w)
  PROVE  IInv'
<1> DEFINE r == work[w].ref
<1>0. PaymentTypeOK
  BY DEF IInv
<1>1. work[w] # None /\ work[w].op = "refund" /\ r \in Refs /\ Backed(r)
  BY <1>0, TaskFields DEF Refund, Doing, IInv, Pending, Sound
<1>2. /\ UNCHANGED <<charged, sold, earned, trips, forced, contested>>
      /\ refunded' \subseteq Refs /\ Do(w, None)
  BY <1>0, <1>1 DEF Refund, Return, PaymentTypeOK
<1>3. /\ payment' \in [Refs -> [status : Live \cup {"NONE", "DELETED"}, bill : Bills \cup {None}]]
      /\ receipt' \subseteq Refs
      /\ Grows /\ Rows' /\ Justified' /\ Sales' /\ Trips'
  <2>1. CASE UNCHANGED <<payment, receipt>>
    BY <1>0, <1>2, <2>1, BooksKept DEF books, PaymentTypeOK
  <2>2. CASE Exists(r) /\ SetStatus(r, "REFUNDED") /\ UNCHANGED receipt
    BY <1>0, <1>1, <1>2, <2>2, StatusWritten DEF books, PaymentTypeOK
  <2>3. CASE /\ Exists(r) /\ payment[r].bill \in Rides /\ receipt' = receipt \cup {r}
             /\ UNCHANGED payment \/ SetStatus(r, "REFUNDED")
    BY <1>1, <1>2, <2>3, ReceiptWritten
  <2> QED BY <2>1, <2>2, <2>3 DEF Refund
<1> QED BY <1>0, <1>2, <1>3, HandlerMoves, PendingKept DEF IInv, PaymentTypeOK, trips

LEMMA OutsideSteps ==
  ASSUME IInv, Outside
  PROVE  IInv'
<1>0. PaymentTypeOK
  BY DEF IInv
<1>1. CASE \E r \in Refs : Pay(r)
  <2>1. /\ UNCHANGED <<payment, books, trips, notes, work>>
        /\ charged' \in [Refs -> {"NONE", "OPEN", "PAID"}]
        /\ \A r \in Refs : charged[r] = "PAID" => charged'[r] = "PAID"
    BY <1>0, <1>1 DEF Pay, PaymentTypeOK
  <2>2. Grows /\ Rows' /\ Justified' /\ Sales' /\ Trips'
    BY <2>1, BooksKept
  <2> QED BY <1>0, <2>1, <2>2, PendingStays DEF IInv, PaymentTypeOK, books, trips
<1>2. ASSUME NEW b \in Rides,
             AcceptRide(b) \/ StartRide(b) \/ CompleteRide(b) \/ CancelRide(b) \/ GiveUp(b)
      PROVE  IInv'
  <2>1. /\ UNCHANGED <<payment, charged, books, notes, work>>
        /\ ride' \in [Rides -> RideStatus]
        /\ driver' \in [Rides -> BOOLEAN]
    BY <1>0, <1>2 DEF AcceptRide, StartRide, CompleteRide, CancelRide, GiveUp, MoveRide,
                      PaymentTypeOK
  <2>2. Grows /\ Rows' /\ Justified' /\ Sales' /\ Trips'
    BY <2>1, BooksKept
  <2> QED BY <1>0, <2>1, <2>2, PendingStays DEF IInv, PaymentTypeOK, books
<1> QED BY <1>1, <1>2 DEF Outside

LEMMA CrashStep ==
  ASSUME IInv, Crash
  PROVE  IInv'
BY DEF IInv, PaymentTypeOK, Rows, Justified, Pending, Sales, Trips, Exists, Known, Backed,
   Receipted, Crash, books, trips

LEMMA Quiet ==
  ASSUME IInv, UNCHANGED vars
  PROVE  IInv'
<1>1. Grows /\ Rows' /\ Justified' /\ Sales' /\ Trips'
  BY BooksKept DEF vars
<1>2. PaymentTypeOK'
  BY DEF IInv, PaymentTypeOK, vars, books, trips
<1> QED BY <1>1, <1>2, PendingStays DEF IInv, vars

LEMMA InitHolds == Init => IInv
<1> SUFFICES ASSUME Init PROVE IInv
  OBVIOUS
<1>1. PaymentTypeOK
  BY PaymentAssumption DEF PaymentAssumption, Init, PaymentTypeOK
<1>2. Rows /\ Justified /\ Pending /\ Sales /\ Trips
  BY DEF Init, Rows, Justified, Pending, Sales, Trips, Exists, Known, Receipted
<1> QED BY <1>1, <1>2 DEF IInv

LEMMA Inductive == Spec => []IInv
<1>1. IInv /\ [Next]_vars => IInv'
  <2> SUFFICES ASSUME IInv, [Next]_vars PROVE IInv'
    OBVIOUS
  <2>1. ASSUME NEW w \in Handlers, Resume(w)
        PROVE  IInv'
    BY <2>1, InitiateSteps, SettleStep, AfterSteps, BookStep, CreditStep, RefundStep DEF Resume
  <2>2. ASSUME NEW w \in Handlers, Ask(w)
        PROVE  IInv'
    BY <2>2, InitiateSteps, AskSteps DEF Ask
  <2> QED BY <2>1, <2>2, OutsideSteps, CrashStep, Quiet DEF Next
<1> QED BY <1>1, InitHolds, PTL DEF Spec
-----------------------------------------------------------------------------
(* The receipts of a bill are those of the one row it has.                 *)

LEMMA BookedForCounts ==
  ASSUME IInv, NEW b \in Bills
  PROVE  Cardinality(BookedFor(b)) = IF Receipted(b) THEN 1 ELSE 0
<1>1. CASE Receipted(b)
  <2>1. PICK r \in receipt : payment[r].bill = b
    BY <1>1 DEF Receipted
  <2>2. BookedFor(b) = {r}
    BY <2>1 DEF BookedFor, IInv, Rows, PaymentTypeOK
  <2> QED BY <1>1, <2>2, FS_Singleton
<1>2. CASE ~ Receipted(b)
  <2>1. BookedFor(b) = {}
    BY <1>2 DEF BookedFor, Receipted
  <2> QED BY <1>2, <2>1, FS_EmptySet
<1> QED BY <1>1, <1>2

(* Rows, charges, books and rides keep their types: no answer of the       *)
(* gateway reaches the status column unless it is a status.                *)
THEOREM PaymentTypeCorrect == Spec => []PaymentTypeOK
<1>1. IInv => PaymentTypeOK
  BY DEF IInv
<1> QED BY <1>1, Inductive, PTL

(* No bill has two receipts, whatever webhooks, verifications, overrides   *)
(* and retries there are, in any order.                                    *)
THEOREM ReceiptsUnique == Spec => []OneReceipt
<1>1. IInv => OneReceipt
  BY BookedForCounts DEF OneReceipt
<1> QED BY <1>1, Inductive, PTL

(* A store is credited once for each receipt of an order.                  *)
THEOREM StoresPaidPerReceipt == Spec => []StorePaidPerReceipt
<1>1. IInv => StorePaidPerReceipt
  BY BookedForCounts DEF StorePaidPerReceipt, IInv, Sales
<1> QED BY <1>1, Inductive, PTL

(* Stores and drivers are credited only where a customer has paid or an    *)
(* administrator has declared the ride paid.                               *)
THEOREM CreditsBacked == Spec => []RevenueBacked
<1>1. IInv => RevenueBacked
  <2> SUFFICES ASSUME IInv PROVE RevenueBacked
    OBVIOUS
  <2>1. \A o \in Orders : sold[o] > 0 => \E r \in BookedFor(o) : charged[r] = "PAID"
    BY PaymentAssumption DEF PaymentAssumption, IInv, Sales, Receipted, BookedFor, Justified,
       Backed, PaymentTypeOK
  <2>2. \A b \in Rides : earned[b] > 0 =>
          b \in forced \/ \E r \in BookedFor(b) : charged[r] = "PAID"
    BY DEF IInv, Trips, Receipted, BookedFor, Justified, Backed, PaymentTypeOK
  <2> QED BY <2>1, <2>2 DEF RevenueBacked
<1> QED BY <1>1, Inductive, PTL

-----------------------------------------------------------------------------
(* Payments implements BillBook.                                           *)

(* A reference that was not used yet has no page at the gateway.           *)
Paged == \A r \in Refs : charged[r] # "NONE" => Known(r)

LEMMA PagedKept ==
  ASSUME IInv, Paged, [Next]_vars
  PROVE  Paged'
<1>0. PaymentTypeOK
  BY DEF IInv
<1>1. ASSUME UNCHANGED <<payment, charged>>
      PROVE  Paged'
  BY <1>1 DEF Paged, Known
<1>2. ASSUME NEW r \in Refs, NEW st \in Live \cup {"DELETED"}, SetStatus(r, st),
             UNCHANGED charged
      PROVE  Paged'
  BY <1>0, <1>2 DEF Paged, Known, SetStatus, PaymentTypeOK
<1>3. ASSUME NEW w \in Handlers, Resume(w)
      PROVE  Paged'
  <2>1. CASE DeletePrevious(w)
    BY <1>0, <1>1, <1>2, <2>1, TaskFields DEF DeletePrevious, Doing
  <2>2. CASE CreatePayment(w)
    <3>1. ASSUME NEW r \in Refs,
                 payment' = [payment EXCEPT ![r] = [status |-> "PENDING",
                                                    bill |-> work[w].bill]]
          PROVE  \A s \in Refs : Known(s) => Known(s)'
      BY <1>0, <3>1 DEF Known, PaymentTypeOK
    <3>2. UNCHANGED charged /\ \A s \in Refs : Known(s) => Known(s)'
      BY <2>2, <3>1 DEF CreatePayment, Known
    <3> QED BY <3>2 DEF Paged
  <2>3. CASE OpenSession(w)
    <3>1. work[w].ref \in Refs
      BY <1>0, <2>3, TaskFields DEF OpenSession, Doing
    <3>2. CASE Exists(work[w].ref) /\ charged' = [charged EXCEPT ![work[w].ref] = "OPEN"]
               /\ UNCHANGED payment
      BY <1>0, <3>1, <3>2 DEF Paged, Known, Exists, PaymentTypeOK
    <3> QED BY <1>1, <1>2, <2>3, <3>1, <3>2 DEF OpenSession
  <2>4. CASE SettlePayment(w)
    <3>1. work[w].ref \in Refs /\ work[w].to \in Live /\ UNCHANGED charged
      BY <1>0, <2>4, TaskFields DEF SettlePayment, Doing
    <3> QED BY <1>1, <1>2, <2>4, <3>1 DEF SettlePayment
  <2>5. CASE LookAgain(w) \/ StartRideMatching(w) \/ BookReceipt(w) \/ CreditDriver(w)
    BY <1>1, <2>5 DEF LookAgain, StartRideMatching, BookReceipt, CreditDriver
  <2>6. CASE Refund(w)
    <3>1. work[w].ref \in Refs /\ UNCHANGED charged
      BY <1>0, <2>6, TaskFields DEF Refund, Doing
    <3> QED BY <1>1, <1>2, <2>6, <3>1 DEF Refund
  <2> QED BY <1>3, <2>1, <2>2, <2>3, <2>4, <2>5, <2>6 DEF Resume
<1>4. ASSUME NEW w \in Handlers, Ask(w)
      PROVE  Paged'
  BY <1>1, <1>4 DEF Ask, Initiate, Webhook, VerifyPayment, ForcePayment, AdminCompleteRide, AskRefund
<1>5. ASSUME NEW r \in Refs, Pay(r)
      PROVE  Paged'
  BY <1>0, <1>5 DEF Pay, Paged, Known, PaymentTypeOK
<1>6. ASSUME NEW b \in Rides,
             AcceptRide(b) \/ StartRide(b) \/ CompleteRide(b) \/ CancelRide(b) \/ GiveUp(b)
      PROVE  Paged'
  BY <1>1, <1>6 DEF AcceptRide, StartRide, CompleteRide, CancelRide, GiveUp, MoveRide
<1>7. CASE Crash \/ UNCHANGED vars
  BY <1>1, <1>7 DEF Crash, vars
<1> QED BY <1>3, <1>4, <1>5, <1>6, <1>7 DEF Next, Outside

(* A step that leaves entries and charges alone is none of the books.      *)
LEMMA BooksStand ==
  ASSUME IInv, UNCHANGED <<books, forced>>,
         \A r \in Refs : /\ charged'[r] = "PAID" <=> charged[r] = "PAID"
                         /\ charged[r] # "NONE" \/ r \in receipt =>
                              payment'[r].bill = payment[r].bill
  PROVE  UNCHANGED Book!bookVars
<1>1. receipt \subseteq Refs
  BY DEF IInv, PaymentTypeOK
<1>2. UNCHANGED BackedBills
  BY DEF BackedBills
<1>3. {payment[r].bill : r \in receipt}' = {payment[r].bill : r \in receipt}
  BY <1>1 DEF books
<1>4. UNCHANGED [b \in Bills |-> IF b \in Orders THEN sold[b] ELSE earned[b]]
  BY DEF books
<1> QED BY <1>2, <1>3, <1>4 DEF Book!bookVars, Book!Bills

(* A charge that is paid, and the word of an administrator, back a bill.   *)
LEMMA Backs ==
  ASSUME IInv, UNCHANGED <<payment, books>>, NEW b \in Bills,
         BackedBills' = BackedBills \cup {b}
  PROVE  Book!BookNext
<1>1. {payment[r].bill : r \in receipt}' = {payment[r].bill : r \in receipt}
  BY DEF books
<1>2. UNCHANGED [c \in Bills |-> IF c \in Orders THEN sold[c] ELSE earned[c]]
  BY DEF books
<1>3. Book!Back(b)
  BY <1>1, <1>2 DEF Book!Back, Book!Bills
<1> QED BY <1>3 DEF Book!BookNext, Book!Bills

(* A receipt, new or not, is an entry for its bill or changes nothing.     *)
LEMMA ReceiptBooks ==
  ASSUME IInv, UNCHANGED <<charged, forced>>,
         NEW r \in Refs, Exists(r), Backed(r),
         payment' = payment \/ \E st \in {"COMPLETED", "REFUNDED"} : SetStatus(r, st),
         receipt' = receipt \cup {r},
         \/ payment[r].bill \in Orders /\ RecordOrderCommission(payment[r].bill)
            /\ UNCHANGED earned
         \/ payment[r].bill \in Rides /\ RecordRideEarnings(payment[r].bill)
            /\ UNCHANGED sold
         \/ payment[r].bill \in Rides /\ UNCHANGED <<sold, earned>>
  PROVE  [Book!BookNext]_Book!bookVars
<1> PICK b \in Bills : b = payment[r].bill
  BY DEF IInv, Rows, Exists, Known
<1> DEFINE Booked == {payment[s].bill : s \in receipt}
           Credit == [c \in Bills |-> IF c \in Orders THEN sold[c] ELSE earned[c]]
           Plus == [Credit EXCEPT ![b] = @ + 1]
<1>0. PaymentTypeOK /\ Orders \cap Rides = {} /\ b \in Bills
  BY PaymentAssumption DEF PaymentAssumption, IInv
<1>1. \A s \in Refs : payment'[s].bill = payment[s].bill
  BY <1>0 DEF PaymentTypeOK, SetStatus
<1>2. UNCHANGED BackedBills
  BY <1>1 DEF BackedBills
<1>3. b \in BackedBills
  BY <1>0 DEF Backed, BackedBills
<1>4. Booked' = Booked \cup {b}
  BY <1>0, <1>1 DEF PaymentTypeOK
<1>5. Receipted(b) <=> b \in Booked
  BY DEF Receipted
<1>6. CASE b \in Orders /\ RecordOrderCommission(b) /\ UNCHANGED earned
  <2>1. sold[b] = IF Receipted(b) THEN 1 ELSE 0
    BY <1>6 DEF IInv, Sales
  <2>2. CASE Receipted(b)
    <3>1. UNCHANGED sold
      BY <1>6, <2>1, <2>2 DEF RecordOrderCommission
    <3>2. UNCHANGED Credit
      BY <1>6, <3>1
    <3> QED BY <1>2, <1>4, <1>5, <2>2, <3>2 DEF Book!bookVars, Book!Bills
  <2>3. CASE ~ Receipted(b)
    <3>1. sold' = [sold EXCEPT ![b] = 1]
      BY <1>6, <2>1, <2>3 DEF RecordOrderCommission
    <3>2. \A c \in Orders : sold'[c] = IF c = b THEN sold[c] + 1 ELSE sold[c]
      BY <1>0, <1>6, <2>1, <2>3, <3>1 DEF PaymentTypeOK
    <3>3. Credit' = Plus
      BY <1>0, <1>6, <3>2
    <3>4. Book!BookOrder(b)
      BY <1>2, <1>3, <1>4, <1>5, <1>6, <2>3, <3>3 DEF Book!BookOrder, Book!Add, Book!Bills
    <3> QED BY <1>6, <3>4 DEF Book!BookNext
  <2> QED BY <2>2, <2>3
<1>7. CASE b \in Rides /\ (RecordRideEarnings(b) \/ UNCHANGED earned) /\ UNCHANGED sold
  <2>1. Credit' = Plus \/ UNCHANGED Credit
    <3>1. CASE earned' = [earned EXCEPT ![b] = @ + 1]
      <4>1. \A c \in Rides : earned'[c] = IF c = b THEN earned[c] + 1 ELSE earned[c]
        BY <1>0, <3>1 DEF PaymentTypeOK
      <4>2. Credit' = Plus
        BY <1>0, <1>7, <4>1
      <4> QED BY <4>2
    <3>2. CASE UNCHANGED earned
      BY <1>7, <3>2
    <3> QED BY <1>7, <3>1, <3>2 DEF RecordRideEarnings
  <2>2. CASE b \in Booked
    <3>1. CASE UNCHANGED Credit
      BY <1>2, <1>4, <2>2, <3>1 DEF Book!bookVars, Book!Bills
    <3>2. CASE Credit' = Plus
      <4>1. Book!CreditAgain(b)
        BY <1>2, <1>4, <2>2, <3>2 DEF Book!CreditAgain, Book!Add, Book!Bills
      <4> QED BY <1>7, <4>1 DEF Book!BookNext
    <3> QED BY <2>1, <3>1, <3>2
  <2>3. CASE b \notin Booked
    <3>1. Book!BookRide(b)
      BY <1>2, <1>3, <1>4, <2>1, <2>3 DEF Book!BookRide, Book!Add, Book!Bills
    <3> QED BY <1>7, <3>1 DEF Book!BookNext
  <2> QED BY <2>2, <2>3
<1> QED BY <1>6, <1>7

(* A step that writes the status of a row at most.                         *)
LEMMA RowsStand ==
  ASSUME IInv, UNCHANGED <<charged, books, forced>>,
         \/ UNCHANGED payment
         \/ \E r \in Refs, st \in Live \cup {"DELETED"} : SetStatus(r, st)
  PROVE  UNCHANGED Book!bookVars
<1>1. \A r \in Refs : payment'[r].bill = payment[r].bill
  BY DEF IInv, PaymentTypeOK, SetStatus
<1> QED BY <1>1, BooksStand

LEMMA SettleBooks ==
  ASSUME IInv, NEW w \in Handlers, SettlePayment(w)
  PROVE  [Book!BookNext]_Book!bookVars
<1> DEFINE r == work[w].ref
<1>0. PaymentTypeOK
  BY DEF IInv
<1>1. /\ r \in Refs /\ work[w].to \in Live
      /\ work[w].to = "COMPLETED" => Backed(r)
      /\ UNCHANGED <<charged, driver, notes>>
  BY <1>0, TaskFields DEF SettlePayment, Doing, IInv, Pending, Sound
<1>2. CASE UNCHANGED <<payment, books>>
  BY <1>1, <1>2, RowsStand
<1>3. CASE SetStatus(r, work[w].to) /\ UNCHANGED books
  BY <1>1, <1>3, RowsStand
<1>4. CASE /\ Overwritable(r) /\ work[w].to = "COMPLETED" /\ payment[r].bill \in Orders
           /\ SetStatus(r, "COMPLETED") /\ SettleOrder(r)
  BY <1>1, <1>4, ReceiptBooks DEF SettleOrder, Overwritable
<1>5. CASE /\ Overwritable(r) /\ work[w].to = "COMPLETED" /\ payment[r].bill \in Rides
           /\ SetStatus(r, "COMPLETED") /\ SettleRide(r)
  <2>1. CASE receipt' = receipt \cup {r} /\ RecordRideEarnings(payment[r].bill)
    BY <1>1, <1>5, <2>1, ReceiptBooks DEF SettleRide, Overwritable
  <2>2. CASE UNCHANGED <<receipt, earned>>
    BY <1>1, <1>5, <2>2, RowsStand DEF SettleRide, books
  <2> QED BY <1>5, <2>1, <2>2 DEF SettleRide
<1> QED BY <1>2, <1>3, <1>4, <1>5 DEF SettlePayment

LEMMA BooksStep ==
  ASSUME IInv, Paged, [Next]_vars
  PROVE  [Book!BookNext]_Book!bookVars
<1>0. PaymentTypeOK
  BY DEF IInv
<1>1. ASSUME NEW w \in Handlers, Resume(w)
      PROVE  [Book!BookNext]_Book!bookVars
  <2>1. CASE DeletePrevious(w)
    <3>1. work[w].old \in Refs
      BY <1>0, <2>1, TaskFields DEF DeletePrevious, Doing
    <3> QED BY <2>1, <3>1, RowsStand DEF DeletePrevious
  <2>2. CASE CreatePayment(w)
    <3>1. UNCHANGED <<charged, books, trips, notes>>
      BY <2>2 DEF CreatePayment
    <3>2. CASE UNCHANGED payment
      BY <3>1, <3>2, RowsStand
    <3>3. ASSUME NEW r \in Refs, payment[r].status = "NONE",
                 payment' = [payment EXCEPT ![r] = [status |-> "PENDING",
                                                    bill |-> work[w].bill]]
          PROVE  UNCHANGED Book!bookVars
      <4>1. charged[r] = "NONE" /\ r \notin receipt
        BY <3>3 DEF Paged, Known, IInv, Rows, Exists
      <4>2. \A s \in Refs : s # r => payment'[s].bill = payment[s].bill
        BY <1>0, <3>3 DEF PaymentTypeOK
      <4> QED BY <3>1, <4>1, <4>2, BooksStand
    <3> QED BY <2>2, <3>2, <3>3 DEF CreatePayment, Fresh
  <2>3. CASE OpenSession(w)
    <3>1. work[w].ref \in Refs /\ UNCHANGED <<books, trips, notes>>
      BY <1>0, <2>3, TaskFields DEF OpenSession, Doing
    <3>2. CASE /\ charged[work[w].ref] = "NONE" /\ UNCHANGED payment
               /\ charged' = [charged EXCEPT ![work[w].ref] = "OPEN"]
      <4>1. \A s \in Refs : charged'[s] = "PAID" <=> charged[s] = "PAID"
        BY <1>0, <3>1, <3>2 DEF PaymentTypeOK
      <4> QED BY <3>1, <3>2, <4>1, BooksStand
    <3>3. CASE UNCHANGED charged
      BY <2>3, <3>1, <3>3, RowsStand DEF OpenSession
    <3> QED BY <2>3, <3>2, <3>3 DEF OpenSession
  <2>4. CASE SettlePayment(w)
    BY <2>4, SettleBooks
  <2>5. CASE LookAgain(w) \/ StartRideMatching(w)
    BY <2>5, RowsStand DEF LookAgain, StartRideMatching
  <2>6. CASE BookReceipt(w)
    <3> DEFINE r == work[w].ref
    <3>1. /\ r \in Refs /\ Backed(r) /\ payment[r].bill \in Rides
          /\ UNCHANGED <<payment, charged, sold, earned, trips, notes>>
      BY <1>0, <2>6, TaskFields DEF BookReceipt, Doing, IInv, Pending, Sound
    <3>2. CASE Exists(r) /\ receipt' = receipt \cup {r}
      BY <3>1, <3>2, ReceiptBooks
    <3>3. CASE UNCHANGED receipt
      BY <3>1, <3>3, RowsStand DEF books
    <3> QED BY <2>6, <3>2, <3>3 DEF BookReceipt
  <2>7. CASE CreditDriver(w)
    <3>1. /\ work[w].ride \in Rides /\ Receipted(work[w].ride)
          /\ UNCHANGED <<payment, charged, receipt, sold, trips, notes>>
          /\ RecordRideEarnings(work[w].ride)
      BY <1>0, <2>7, TaskFields DEF CreditDriver, Doing, IInv, Pending, Sound
    <3>2. PICK r \in receipt : payment[r].bill = work[w].ride
      BY <3>1 DEF Receipted
    <3>3. r \in Refs /\ Exists(r) /\ Backed(r) /\ receipt' = receipt \cup {r}
      BY <1>0, <3>1 DEF PaymentTypeOK, IInv, Rows, Justified
    <3> QED BY <3>1, <3>2, <3>3, ReceiptBooks
  <2>8. CASE Refund(w)
    <3> DEFINE r == work[w].ref
    <3>1. /\ r \in Refs /\ Backed(r) /\ UNCHANGED <<charged, sold, earned, trips, forced>>
          /\ UNCHANGED payment \/ SetStatus(r, "REFUNDED")
      BY <1>0, <2>8, TaskFields DEF Refund, Doing, IInv, Pending, Sound
    <3>2. CASE Exists(r) /\ payment[r].bill \in Rides /\ receipt' = receipt \cup {r}
      BY <3>1, <3>2, ReceiptBooks
    <3>3. CASE UNCHANGED receipt
      BY <3>1, <3>3, RowsStand DEF books
    <3> QED BY <2>8, <3>2, <3>3 DEF Refund
  <2> QED BY <1>1, <2>1, <2>2, <2>3, <2>4, <2>5, <2>6, <2>7, <2>8 DEF Resume
<1>2. ASSUME NEW w \in Handlers, Ask(w)
      PROVE  [Book!BookNext]_Book!bookVars
  <2>1. CASE \E r \in Refs : ForcePayment(w, r)
    <3>1. PICK r \in Refs : ForcePayment(w, r)
      BY <2>1
    <3>2. PICK b \in Rides : b = payment[r].bill
      BY <3>1 DEF ForcePayment
    <3>3. UNCHANGED <<payment, charged, books, trips>> /\ forced' = forced \cup {b}
      BY <3>1, <3>2 DEF ForcePayment
    <3>4. BackedBills' = BackedBills \cup {b}
      BY <3>3 DEF BackedBills
    <3> QED BY <3>3, <3>4, Backs
  <2>2. CASE UNCHANGED <<payment, charged, books, forced>>
    BY <2>2, RowsStand
  <2> QED BY <1>2, <2>1, <2>2 DEF Ask, Initiate, Webhook, VerifyPayment, AdminCompleteRide,
                                  AskRefund
<1>3. ASSUME NEW r \in Refs, Pay(r)
      PROVE  [Book!BookNext]_Book!bookVars
  <2>1. PICK b \in Bills : b = payment[r].bill
    BY <1>3 DEF Pay, Paged, IInv, Rows
  <2>2. /\ UNCHANGED <<payment, books, trips, notes, work>>
        /\ \A s \in Refs : charged'[s] = "PAID" <=> charged[s] = "PAID" \/ s = r
    BY <1>0, <1>3 DEF Pay, PaymentTypeOK
  <2>3. BackedBills' = BackedBills \cup {b}
    BY <2>1, <2>2 DEF BackedBills
  <2> QED BY <2>2, <2>3, Backs
<1>4. ASSUME NEW b \in Rides,
             AcceptRide(b) \/ StartRide(b) \/ CompleteRide(b) \/ CancelRide(b) \/ GiveUp(b)
      PROVE  [Book!BookNext]_Book!bookVars
  BY <1>4, RowsStand DEF AcceptRide, StartRide, CompleteRide, CancelRide, GiveUp, MoveRide
<1>5. CASE Crash \/ UNCHANGED vars
  BY <1>5, RowsStand DEF Crash, vars
<1> QED BY <1>1, <1>2, <1>3, <1>4, <1>5 DEF Next, Outside

(* The rows, handlers and charges of Payments, whatever races, restarts or *)
(* rolls back, are books that are only added to.                           *)
THEOREM PaymentsImplementBillBook == Spec => BooksRefined
<1>1. Init => IInv /\ Paged /\ Book!BookInit
  <2> SUFFICES ASSUME Init PROVE IInv /\ Paged /\ Book!BookInit
    OBVIOUS
  <2>1. IInv
    BY InitHolds
  <2>2. Paged
    BY DEF Init, Paged
  <2>3. Book!BookInit
    BY DEF Init, Book!BookInit, Book!Bills, BackedBills
  <2> QED BY <2>1, <2>2, <2>3
<1>2. IInv /\ Paged /\ [Next]_vars => Paged' /\ [Book!BookNext]_Book!bookVars
  BY PagedKept, BooksStep
<1> QED BY <1>1, <1>2, Inductive, PTL DEF Spec, BooksRefined, Book!BookSpec
-----------------------------------------------------------------------------
(* A driver is credited once.                                              *)

Excused(b) == b \in contested \/ \E r \in refunded : payment[r].bill = b

(* What a request opens, and what was refunded, is a row that was made.    *)
Made == /\ \A w \in Handlers : Doing(w, "open") => Known(work[w].ref)
        /\ \A r \in refunded : Known(r)

(* While nothing excuses it one request at a time writes to the payment of *)
(* a ride, and none after the credit.                                      *)
Once(b) ==
  /\ \A r \in Refs : payment[r].bill = b =>
       \A v, w \in Handlers : Writing(v, r) /\ Writing(w, r) => v = w
  /\ \A w \in Handlers : Doing(w, "book") \/ Doing(w, "credit") => work[w].ride # b
  /\ earned[b] <= 1
  /\ earned[b] > 0 => \A r \in receipt : payment[r].bill = b =>
       payment[r].status = "COMPLETED" /\ \A w \in Handlers : ~Writing(w, r)

AllOnce == \A b \in Rides : ~Excused(b) => Once(b)

LEMMA Moved ==
  ASSUME PaymentTypeOK, NEW w \in Handlers, NEW x, Do(w, x)
  PROVE  work'[w] = x /\ \A v \in Handlers : v # w => work'[v] = work[v]
BY DEF PaymentTypeOK, Do

LEMMA Others ==
  ASSUME PaymentTypeOK, NEW w \in Handlers, Resume(w) \/ Ask(w),
         NEW v \in Handlers, v # w
  PROVE  work'[v] = work[v]
<1>1. \E x : Do(w, x)
  <2>1. CASE Resume(w)
    BY <2>1 DEF Resume, DeletePrevious, CreatePayment, OpenSession, SettlePayment, LookAgain,
                StartRideMatching, BookReceipt, CreditDriver, Refund, Return
  <2>2. CASE Ask(w)
    BY <2>2 DEF Ask, Initiate, Webhook, VerifyPayment, ForcePayment, UpdatePaymentStatus,
                AskRefund, AdminCompleteRide
  <2> QED BY <2>1, <2>2
<1> QED BY <1>1, Moved

LEMMA WorkStays ==
  ASSUME [Next]_vars
  PROVE  \/ UNCHANGED work
         \/ \A w \in Handlers : work'[w] = None
         \/ \E w \in Handlers : Resume(w) \/ Ask(w)
BY DEF Next, Outside, Pay, AcceptRide, StartRide, CompleteRide, CancelRide, GiveUp, MoveRide,
       Crash, vars

\* The steps of Resume and Ask by the request they leave behind.
LEMMA Begins ==
  ASSUME IInv, NEW w \in Handlers, Resume(w) \/ Ask(w), work'[w] # None
  PROVE  \/ work'[w].op \in {"replace", "create", "after", "match", "refund"}
         \/ /\ work'[w].op = "open" /\ CreatePayment(w)
            /\ payment[work'[w].ref].status = "NONE"
            /\ payment'[work'[w].ref].status # "NONE"
         \/ /\ work'[w].op = "settle" /\ Overlaps(work'[w].ref)
            /\ Settleable(work'[w].ref) /\ UNCHANGED payment
         \/ /\ work'[w].op = "book" /\ work'[w].ride \in contested'
         \/ /\ work'[w].op = "credit" /\ Doing(w, "book") /\ work'[w].ride = work[w].ride
<1>0. PaymentTypeOK
  BY DEF IInv
<1>1. \A x : Do(w, x) => work'[w] = x
  BY <1>0, Moved
<1>2. CASE DeletePrevious(w) \/ OpenSession(w) \/ SettlePayment(w) \/ LookAgain(w)
           \/ StartRideMatching(w) \/ CreditDriver(w) \/ Refund(w)
  BY <1>1, <1>2 DEF DeletePrevious, OpenSession, SettlePayment, LookAgain, StartRideMatching,
                    CreditDriver, Refund, Return
<1>3. CASE CreatePayment(w)
  <2>1. PICK r \in Refs : /\ Fresh(r) /\ Do(w, [op |-> "open", ref |-> r])
                          /\ payment' = [payment EXCEPT ![r] = [status |-> "PENDING",
                                                                bill |-> work[w].bill]]
    BY <1>1, <1>3 DEF CreatePayment, Return
  <2>2. payment'[r].status = "PENDING"
    BY <1>0, <2>1 DEF PaymentTypeOK
  <2> QED BY <1>1, <1>3, <2>1, <2>2 DEF Fresh
<1>4. CASE BookReceipt(w)
  BY <1>1, <1>4 DEF BookReceipt, Return
<1>5. CASE \E b \in Bills : Initiate(w, b)
  <2>1. PICK b \in Bills : Initiate(w, b)
    BY <1>5
  <2>2. CASE \E r \in Refs : Do(w, [op |-> "replace", bill |-> b, old |-> r])
    BY <1>1, <2>2
  <2>3. CASE Do(w, [op |-> "create", bill |-> b])
    BY <1>1, <2>3
  <2> QED BY <2>1, <2>2, <2>3 DEF Initiate
<1>6. ASSUME NEW r \in Refs, NEW st, UpdatePaymentStatus(w, r, st), UNCHANGED payment
      PROVE  /\ work'[w].op = "settle" /\ Overlaps(work'[w].ref)
             /\ Settleable(work'[w].ref) /\ UNCHANGED payment
  <2>1. work'[w] = [op |-> "settle", ref |-> r, to |-> st]
    BY <1>1, <1>6 DEF UpdatePaymentStatus
  <2> QED BY <1>6, <2>1 DEF UpdatePaymentStatus
<1>7. CASE \E r \in Refs : Webhook(w, r) \/ VerifyPayment(w, r) \/ ForcePayment(w, r)
  BY <1>6, <1>7 DEF Webhook, VerifyPayment, ForcePayment
<1>8. CASE \E r \in Refs : AskRefund(w, r)
  BY <1>1, <1>8 DEF AskRefund
<1>9. CASE \E b \in Rides, r \in Refs : AdminCompleteRide(w, b, r)
  BY <1>1, <1>9 DEF AdminCompleteRide
<1> QED BY <1>2, <1>3, <1>4, <1>5, <1>7, <1>8, <1>9 DEF Resume, Ask

\* Rows keep their bill once they are made, and what excuses a bill stays.
LEMMA NextGrows ==
  ASSUME IInv, Made, [Next]_vars
  PROVE  /\ \A r \in Refs : Known(r) => Known(r)' /\ payment'[r].bill = payment[r].bill
         /\ receipt \subseteq receipt' /\ contested \subseteq contested'
         /\ refunded \subseteq refunded'
         /\ \A b \in Rides : Excused(b) => Excused(b)'
<1>0. PaymentTypeOK
  BY DEF IInv
<1>1. \A r \in Refs : Known(r) => Known(r)' /\ payment'[r].bill = payment[r].bill
  <2>1. ASSUME NEW r \in Refs, NEW st \in Live \cup {"DELETED"}, SetStatus(r, st)
        PROVE  \A s \in Refs : Known(s) => Known(s)' /\ payment'[s].bill = payment[s].bill
    BY <1>0, <2>1 DEF Known, SetStatus, PaymentTypeOK
  <2>2. ASSUME NEW w \in Handlers, Resume(w)
        PROVE  \A s \in Refs : Known(s) => Known(s)' /\ payment'[s].bill = payment[s].bill
    <3>1. CASE DeletePrevious(w)
      BY <1>0, <2>1, <3>1, TaskFields DEF DeletePrevious, Doing, Known
    <3>2. CASE CreatePayment(w)
      <4>1. ASSUME NEW r \in Refs, payment[r].status = "NONE",
                   payment' = [payment EXCEPT ![r] = [status |-> "PENDING",
                                                      bill |-> work[w].bill]]
            PROVE  \A s \in Refs : Known(s) => Known(s)' /\ payment'[s].bill = payment[s].bill
        BY <1>0, <4>1 DEF Known, PaymentTypeOK
      <4> QED BY <3>2, <4>1 DEF CreatePayment, Fresh, Known
    <3>3. CASE OpenSession(w)
      BY <1>0, <2>1, <3>3, TaskFields DEF OpenSession, Doing, Known
    <3>4. CASE SettlePayment(w)
      <4>1. work[w].ref \in Refs /\ work[w].to \in Live
        BY <1>0, <3>4, TaskFields DEF SettlePayment, Doing
      <4>2. UNCHANGED payment \/ SetStatus(work[w].ref, work[w].to)
        BY <3>4 DEF SettlePayment
      <4> QED BY <2>1, <4>1, <4>2 DEF Known
    <3>5. CASE Refund(w)
      BY <1>0, <2>1, <3>5, TaskFields DEF Refund, Doing, Known
    <3>6. CASE UNCHANGED payment
      BY <3>6 DEF Known
    <3> QED BY <2>2, <3>1, <3>2, <3>3, <3>4, <3>5, <3>6
            DEF Resume, LookAgain, StartRideMatching, BookReceipt, CreditDriver
  <2>3. CASE UNCHANGED payment
    BY <2>3 DEF Known
  <2>4. ASSUME NEW w \in Handlers, Ask(w)
        PROVE  UNCHANGED payment
    BY <2>4 DEF Ask, Initiate, Webhook, VerifyPayment, ForcePayment, AskRefund,
                AdminCompleteRide
  <2>5. Outside \/ Crash \/ UNCHANGED vars => UNCHANGED payment
    BY DEF Outside, Pay, AcceptRide, StartRide, CompleteRide, CancelRide, GiveUp, MoveRide,
           Crash, vars
  <2> QED BY <2>2, <2>3, <2>4, <2>5 DEF Next
<1>2. /\ receipt \subseteq receipt' /\ contested \subseteq contested'
      /\ refunded \subseteq refunded'
  <2>1. ASSUME NEW w \in Handlers, Resume(w)
        PROVE  /\ receipt \subseteq receipt' /\ contested \subseteq contested'
               /\ refunded \subseteq refunded'
    BY <2>1 DEF Resume, DeletePrevious, CreatePayment, OpenSession, SettlePayment, SettleOrder,
                SettleRide, LookAgain, StartRideMatching, BookReceipt, CreditDriver, Refund,
                books
  <2>2. ASSUME NEW w \in Handlers, Ask(w)
        PROVE  /\ receipt \subseteq receipt' /\ contested \subseteq contested'
               /\ refunded \subseteq refunded'
    BY <2>2 DEF Ask, Initiate, Webhook, VerifyPayment, ForcePayment, UpdatePaymentStatus,
                Overlaps, AskRefund, AdminCompleteRide, books
  <2>3. Outside \/ Crash \/ UNCHANGED vars => UNCHANGED <<receipt, contested, refunded>>
    BY DEF Outside, Pay, AcceptRide, StartRide, CompleteRide, CancelRide, GiveUp, MoveRide,
           Crash, vars, books
  <2> QED BY <2>1, <2>2, <2>3 DEF Next
<1>3. refunded \subseteq Refs
  BY <1>0 DEF PaymentTypeOK
<1> QED BY <1>1, <1>2, <1>3 DEF Excused, Made

LEMMA MadeKept ==
  ASSUME IInv, Made, [Next]_vars
  PROVE  Made'
<1>0. PaymentTypeOK
  BY DEF IInv
<1>1. ASSUME NEW w \in Handlers, Doing(w, "open")'
      PROVE  Known(work[w].ref)'
  <2>1. work'[w] # None /\ work'[w].op = "open"
    BY <1>1 DEF Doing
  <2>2. CASE work'[w] = work[w]
    <3>1. Doing(w, "open") /\ work[w].ref \in Refs
      BY <1>0, <2>1, <2>2, TaskFields DEF Doing
    <3> QED BY <2>2, <3>1, NextGrows DEF Made, Known
  <2>3. CASE Resume(w) \/ Ask(w)
    BY <2>1, <2>3, Begins DEF Known
  <2> QED BY <1>0, <2>1, <2>2, <2>3, WorkStays, Others
<1>2. ASSUME NEW r \in refunded'
      PROVE  Known(r)'
  <2>1. CASE r \in refunded
    BY <1>0, <2>1, NextGrows DEF Made, PaymentTypeOK
  <2>2. ASSUME NEW w \in Handlers, Refund(w), r = work[w].ref
        PROVE  Known(r)'
    <3>1. r \in Refs /\ Known(r)
      BY <1>0, <2>2, TaskFields DEF Refund, Doing, IInv, Pending, Sound
    <3> QED BY <3>1, NextGrows
  <2>3. UNCHANGED refunded \/ \E w \in Handlers : Refund(w)
    BY DEF Next, Resume, Ask, DeletePrevious, CreatePayment, OpenSession, SettlePayment,
           LookAgain, StartRideMatching, BookReceipt, CreditDriver, Initiate, Webhook,
           VerifyPayment, ForcePayment, AskRefund, AdminCompleteRide, Outside, Pay, AcceptRide,
           StartRide, CompleteRide, CancelRide, GiveUp, MoveRide, Crash, vars
  <2> QED BY <1>2, <2>1, <2>2, <2>3 DEF Refund
<1> QED BY <1>1, <1>2 DEF Made

\* A credit: the settlement of the payment, or what an administrator books.
LEMMA Credited ==
  ASSUME IInv, [Next]_vars, NEW b \in Rides, earned'[b] # earned[b]
  PROVE  /\ earned'[b] = earned[b] + 1
         /\ \E w \in Handlers :
              \/ Doing(w, "credit") /\ work[w].ride = b
              \/ /\ SettlePayment(w) /\ Writing(w, work[w].ref) /\ work[w].ref \in Refs
                 /\ Exists(work[w].ref) /\ payment[work[w].ref].bill = b
                 /\ receipt' = receipt \cup {work[w].ref}
                 /\ payment'[work[w].ref].status = "COMPLETED"
                 /\ payment'[work[w].ref].bill = b
                 /\ work'[w] = [op |-> "after", ride |-> b]
<1>0. PaymentTypeOK
  BY DEF IInv
<1>1. ASSUME NEW c, RecordRideEarnings(c)
      PROVE  c = b /\ earned'[b] = earned[b] + 1
  BY <1>0, <1>1 DEF RecordRideEarnings, PaymentTypeOK
<1>2. ASSUME NEW w \in Handlers, CreditDriver(w)
      PROVE  Doing(w, "credit") /\ work[w].ride = b /\ earned'[b] = earned[b] + 1
  BY <1>1, <1>2 DEF CreditDriver
<1>3. ASSUME NEW w \in Handlers, SettlePayment(w)
      PROVE  /\ earned'[b] = earned[b] + 1
             /\ Writing(w, work[w].ref) /\ work[w].ref \in Refs
             /\ Exists(work[w].ref) /\ payment[work[w].ref].bill = b
             /\ receipt' = receipt \cup {work[w].ref}
             /\ payment'[work[w].ref].status = "COMPLETED"
             /\ payment'[work[w].ref].bill = b
             /\ work'[w] = [op |-> "after", ride |-> b]
  <2> DEFINE r == work[w].ref
  <2>1. r \in Refs /\ Writing(w, r)
    BY <1>0, <1>3, TaskFields DEF SettlePayment, Doing, Writing
  <2>2. /\ Exists(r) /\ payment[r].bill \in Rides /\ SetStatus(r, "COMPLETED")
        /\ SettleRide(r) /\ Do(w, [op |-> "after", ride |-> payment[r].bill])
    BY <1>3 DEF SettlePayment, SettleOrder, Overwritable, books
  <2>3. receipt' = receipt \cup {r} /\ RecordRideEarnings(payment[r].bill)
    BY <2>2 DEF SettleRide
  <2>4. payment'[r].status = "COMPLETED" /\ payment'[r].bill = payment[r].bill
    BY <1>0, <2>1, <2>2 DEF SetStatus, PaymentTypeOK
  <2> QED BY <1>0, <1>1, <2>1, <2>2, <2>3, <2>4, Moved
<1>4. UNCHANGED earned \/ \E w \in Handlers : SettlePayment(w) \/ CreditDriver(w)
  BY DEF Next, Resume, Ask, DeletePrevious, CreatePayment, OpenSession, Refund, LookAgain,
         StartRideMatching, BookReceipt, Initiate, Webhook, VerifyPayment, ForcePayment,
         AskRefund, AdminCompleteRide, Outside, Pay, AcceptRide, StartRide, CompleteRide,
         CancelRide, GiveUp, MoveRide, Crash, vars, books
<1> QED BY <1>2, <1>3, <1>4

\* A payment that is settled and has a receipt is changed by those who write it,
\* or by a refund.
LEMMA Unsettled ==
  ASSUME IInv, [Next]_vars, NEW r \in receipt, payment[r].status = "COMPLETED",
         payment'[r].status # "COMPLETED"
  PROVE  r \in refunded' \/ \E w \in Handlers : Writing(w, r)
<1>0. PaymentTypeOK /\ r \in Refs
  BY DEF IInv, PaymentTypeOK
<1>1. ASSUME NEW s, NEW st, SetStatus(s, st)
      PROVE  s = r
  BY <1>0, <1>1 DEF SetStatus, PaymentTypeOK
<1>2. ASSUME NEW w \in Handlers, DeletePrevious(w)
      PROVE  FALSE
  BY <1>1, <1>2 DEF DeletePrevious, Deletable
<1>3. ASSUME NEW w \in Handlers, CreatePayment(w)
      PROVE  FALSE
  <2>1. PICK s \in Refs : /\ payment[s].status = "NONE"
                          /\ payment' = [payment EXCEPT ![s] = [status |-> "PENDING",
                                                                bill |-> work[w].bill]]
    BY <1>3 DEF CreatePayment, Fresh
  <2> QED BY <1>0, <2>1 DEF PaymentTypeOK
<1>4. ASSUME NEW w \in Handlers, OpenSession(w) \/ SettlePayment(w)
      PROVE  Writing(w, r)
  <2>1. Writing(w, work[w].ref)
    BY <1>4 DEF OpenSession, SettlePayment, Writing
  <2>2. work[w].ref = r
    BY <1>1, <1>4 DEF OpenSession, SettlePayment
  <2> QED BY <2>1, <2>2
<1>5. ASSUME NEW w \in Handlers, Refund(w)
      PROVE  r \in refunded'
  BY <1>1, <1>5 DEF Refund
<1>6. \/ UNCHANGED payment
      \/ \E w \in Handlers : \/ DeletePrevious(w) \/ CreatePayment(w) \/ OpenSession(w)
                             \/ SettlePayment(w) \/ Refund(w)
  BY DEF Next, Resume, Ask, LookAgain, StartRideMatching, BookReceipt, CreditDriver, Initiate,
         Webhook, VerifyPayment, ForcePayment, AskRefund, AdminCompleteRide, Outside, Pay,
         AcceptRide, StartRide, CompleteRide, CancelRide, GiveUp, MoveRide, Crash, vars
<1> QED BY <1>2, <1>3, <1>4, <1>5, <1>6

\* Who writes to a row after a step did before, or begins with a row that is
\* not settled, and then it is contested if it is not the only one.
LEMMA Writers ==
  ASSUME IInv, Made, [Next]_vars, NEW w \in Handlers, NEW r \in Refs, Writing(w, r)'
  PROVE  \/ Writing(w, r) /\ work'[w] = work[w]
         \/ /\ Resume(w) \/ Ask(w)
            /\ payment[r].status # "COMPLETED" \/ ~Exists(r)
            /\ \/ ~ \E v \in Handlers : Writing(v, r)
               \/ Known(r) /\ payment[r].bill \in Rides => payment[r].bill \in contested'
            /\ Known(r) \/ ~ \E v \in Handlers : Writing(v, r)
<1>0. PaymentTypeOK
  BY DEF IInv
<1>1. work'[w] # None /\ work'[w].op \in {"open", "settle"} /\ work'[w].ref = r
  BY DEF Writing, Doing
<1>2. CASE work'[w] = work[w]
  BY <1>1, <1>2 DEF Writing, Doing
<1>3. ASSUME Resume(w) \/ Ask(w), work'[w].op = "open"
      PROVE  ~Known(r) /\ ~ \E v \in Handlers : Writing(v, r)
  <2>1. payment[r].status = "NONE"
    BY <1>1, <1>3, Begins
  <2>2. \A v \in Handlers : Writing(v, r) => Known(r)
    BY DEF Writing, Doing, Made, IInv, Pending, Sound
  <2> QED BY <2>1, <2>2 DEF Known
<1>4. ASSUME Resume(w) \/ Ask(w), work'[w].op = "settle"
      PROVE  /\ payment[r].status # "COMPLETED" /\ Known(r)
             /\ \/ ~ \E v \in Handlers : Writing(v, r)
                \/ payment[r].bill \in Rides => payment[r].bill \in contested'
  <2>1. Overlaps(r) /\ Settleable(r)
    BY <1>1, <1>4, Begins
  <2> QED BY <2>1 DEF Overlaps, Settleable, Exists, Known
<1>5. \/ work'[w] = work[w] \/ Resume(w) \/ Ask(w)
  BY <1>0, <1>1, WorkStays, Others
<1> QED BY <1>1, <1>2, <1>3, <1>4, <1>5 DEF Exists, Known

LEMMA OnceKept ==
  ASSUME IInv, IInv', Made, AllOnce, [Next]_vars
  PROVE  AllOnce'
<1> SUFFICES ASSUME NEW b \in Rides, ~Excused(b)'
             PROVE  Once(b)'
  BY DEF AllOnce
<1>0. PaymentTypeOK /\ Once(b)
  BY NextGrows DEF IInv, AllOnce
<1>1. \A w \in Handlers, r \in Refs : Writing(w, r) => Known(r)
  BY DEF Writing, Doing, Made, IInv, Pending, Sound
<1>2. ASSUME NEW r \in Refs, payment'[r].bill = b, NEW v \in Handlers, NEW w \in Handlers,
             Writing(v, r)', Writing(w, r)', v # w
      PROVE  FALSE
  <2>1. ASSUME NEW x \in Handlers, NEW y \in Handlers, x # y, Writing(x, r)', Writing(y, r)',
               Resume(x) \/ Ask(x), Writing(y, r)
        PROVE  work'[x] = work[x]
    <3>1. Known(r) /\ payment[r].bill = b
      BY <1>1, <1>2, <2>1, NextGrows
    <3>2. b \notin contested'
      BY DEF Excused
    <3> QED BY <2>1, <3>1, <3>2, Writers
  <2>2. ASSUME NEW x \in Handlers, NEW y \in Handlers, x # y, Resume(x) \/ Ask(x),
               Writing(y, r)'
        PROVE  Writing(y, r)
    <3>1. work'[y] = work[y]
      BY <1>0, <2>2, Others
    <3> QED BY <2>2, <3>1 DEF Writing, Doing
  <2>3. Writing(v, r) /\ Writing(w, r)
    <3>1. ASSUME NEW x \in Handlers, NEW y \in Handlers, x # y, Writing(x, r)', Writing(y, r)'
          PROVE  Writing(x, r)
      <4>1. CASE Resume(x) \/ Ask(x)
        <5>1. work'[x] = work[x]
          BY <2>1, <2>2, <3>1, <4>1
        <5> QED BY <3>1, <5>1 DEF Writing, Doing
      <4> QED BY <3>1, <4>1, Writers
    <3> QED BY <1>2, <3>1
  <2>4. payment[r].bill = b
    BY <1>1, <1>2, <2>3, NextGrows
  <2> QED BY <1>0, <1>2, <2>3, <2>4 DEF Once
<1>3. ASSUME NEW w \in Handlers, (Doing(w, "book") \/ Doing(w, "credit"))'
      PROVE  work'[w].ride # b
  <2>1. work'[w] # None /\ work'[w].op \in {"book", "credit"}
    BY <1>3 DEF Doing
  <2>2. CASE work'[w] = work[w]
    BY <1>0, <2>1, <2>2 DEF Once, Doing
  <2>3. CASE Resume(w) \/ Ask(w)
    BY <1>0, <2>1, <2>3, Begins DEF Once, Excused
  <2> QED BY <1>0, <2>1, <2>2, <2>3, WorkStays, Others
<1>4. ASSUME NEW w \in Handlers, Doing(w, "credit"), work[w].ride = b
      PROVE  FALSE
  BY <1>0, <1>4 DEF Once
<1>5. ASSUME NEW r \in Refs, NEW s \in Refs, r \in receipt' \/ Exists(r)',
             s \in receipt' \/ Exists(s)', payment'[r].bill = b, payment'[s].bill = b
      PROVE  r = s
  BY <1>5 DEF IInv, Rows
<1>6. \A r \in Refs : r \in receipt \/ Exists(r) => Known(r)
  BY DEF IInv, Rows, Exists, Known
<1>7. earned[b] \in Nat /\ earned'[b] \in Nat
  BY <1>0, PaymentAssumption DEF PaymentAssumption, IInv, PaymentTypeOK
<1>8. CASE earned[b] > 0
  <2>1. PICK r \in receipt : payment[r].bill = b
    BY <1>8 DEF IInv, Trips, Receipted
  <2>2. /\ r \in Refs /\ Exists(r) /\ Known(r) /\ payment'[r].bill = b /\ r \in receipt'
        /\ payment[r].status = "COMPLETED" /\ \A w \in Handlers : ~Writing(w, r)
    BY <1>0, <1>6, <1>8, <2>1, NextGrows DEF Once, IInv, PaymentTypeOK, Rows
  <2>3. earned'[b] = earned[b]
    <3>1. ASSUME NEW w \in Handlers, Writing(w, work[w].ref), work[w].ref \in Refs,
                 Exists(work[w].ref), payment[work[w].ref].bill = b
          PROVE  FALSE
      BY <2>1, <2>2, <3>1 DEF IInv, Rows
    <3> QED BY <1>4, <3>1, Credited
  <2>4. r \notin refunded'
    BY <2>2 DEF Excused
  <2>5. payment'[r].status = "COMPLETED"
    BY <2>1, <2>2, <2>4, Unsettled
  <2>6. \A w \in Handlers : ~Writing(w, r)'
    BY <2>2, Writers
  <2>7. \A s \in receipt' : payment'[s].bill = b => s = r
    BY <1>5, <2>2 DEF IInv, PaymentTypeOK
  <2> QED BY <1>0, <1>2, <1>3, <2>3, <2>5, <2>6, <2>7 DEF Once
<1>9. CASE ~ (earned[b] > 0) /\ earned'[b] # earned[b]
  <2>1. PICK w \in Handlers :
          /\ SettlePayment(w) /\ Writing(w, work[w].ref) /\ work[w].ref \in Refs
          /\ Exists(work[w].ref) /\ payment[work[w].ref].bill = b
          /\ receipt' = receipt \cup {work[w].ref}
          /\ payment'[work[w].ref].status = "COMPLETED"
          /\ payment'[work[w].ref].bill = b
          /\ work'[w] = [op |-> "after", ride |-> b]
    BY <1>4, <1>9, Credited
  <2>0. PICK r \in Refs : r = work[w].ref
    BY <2>1
  <2>2. earned'[b] = 1
    <3>1. earned'[b] = earned[b] + 1
      BY <1>9, Credited
    <3> QED BY <1>7, <1>9, <3>1
  <2>3. ASSUME NEW v \in Handlers, Writing(v, r)'
        PROVE  FALSE
    <3>1. v # w
      BY <2>1, <2>3 DEF Writing, Doing
    <3>2. work'[v] = work[v]
      BY <1>0, <2>1, <3>1, Others DEF Resume
    <3>3. Writing(v, r)
      BY <2>3, <3>2 DEF Writing, Doing
    <3> QED BY <1>0, <2>0, <2>1, <3>1, <3>3 DEF Once
  <2>4. \A s \in receipt' : payment'[s].bill = b => s = r
    BY <1>5, <2>0, <2>1 DEF IInv, PaymentTypeOK
  <2>5. \A s \in receipt' : payment'[s].bill = b =>
          payment'[s].status = "COMPLETED" /\ \A v \in Handlers : ~Writing(v, s)'
    BY <2>0, <2>1, <2>3, <2>4
  <2> QED BY <1>0, <1>2, <1>3, <2>2, <2>5 DEF Once
<1>10. CASE ~ (earned[b] > 0) /\ earned'[b] = earned[b]
  BY <1>0, <1>2, <1>3, <1>10 DEF Once
<1> QED BY <1>8, <1>9, <1>10

(* The driver of a ride is credited once, unless two requests worked on    *)
(* its payment at the same time, an administrator completed the ride, or   *)
(* the payment was refunded.                                               *)
THEOREM DriversPaidOnce == Spec => []DriverPaidOnce
<1>1. Init => Made /\ AllOnce
  BY DEF Init, Made, AllOnce, Once, Doing, Writing
<1>2. IInv /\ IInv' /\ Made /\ AllOnce /\ [Next]_vars => Made' /\ AllOnce'
  BY MadeKept, OnceKept
<1>3. IInv /\ AllOnce => DriverPaidOnce
  <2> SUFFICES ASSUME IInv, AllOnce, NEW b \in Rides, earned[b] > 1, ~Excused(b)
               PROVE  FALSE
    BY DEF DriverPaidOnce, Excused
  <2>1. earned[b] <= 1 /\ earned[b] \in Nat
    BY PaymentAssumption DEF PaymentAssumption, AllOnce, Once, IInv, PaymentTypeOK
  <2> QED BY <2>1
<1> QED BY <1>1, <1>2, <1>3, Inductive, PTL DEF Spec
=============================================================================
