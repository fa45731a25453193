--------------------------- MODULE RefundsProofs ---------------------------
(***************************************************************************)
(* Proofs about Refunds, for any disputes, payments and requests.          *)
(***************************************************************************)
EXTENDS Refunds, TLAPS

RefundTask == [op : RefundOps, dispute : Disputes \cup {None}, payment : Payments]

(* A request is about a dispute that exists, and about its payment, or     *)
(* about the payment of a ride.                                            *)
Fits(x) ==
  /\ x # None /\ x.op \in RefundOps /\ x.dispute # None =>
       /\ dispute[x.dispute].status # "NONE"
       /\ PaidBy[dispute[x.dispute].item] = x.payment
  /\ x # None /\ x.op \in {"lock", "book", "fail"} => x.dispute # None
  /\ x # None /\ x.op = "close" => dispute[x.dispute].status # "NONE"
  /\ x # None /\ x.op = "record" => Kind[x.payment] = "ride"

Own == \A w \in Handlers : Fits(work[w])

Rows == \A d \in Disputes :
  /\ dispute[d].status # "NONE" => dispute[d].item \in Items
  /\ d \in refunded => dispute[d].status # "NONE"
  /\ dispute[d].refund = "COMPLETED" => dispute[d].status \in {"RESOLVED", "REJECTED"}

(* Whoever marks a payment, cancels its order or books has made a refund.  *)
Sent == \A w \in Handlers :
  Doing(w, "mark") \/ Doing(w, "cancel") \/ Doing(w, "book") => sent[work[w].payment] > 0

(* A payment that is not astray has one request at a time ...              *)
Single == \A p \in Payments \ astray : \A v, w \in Handlers :
  Refunding(v, p) /\ Refunding(w, p) => v = w

(* ... and can be refunded again only while it has not been.               *)
Counted == \A p \in Payments \ astray :
  /\ sent[p] <= 1
  /\ sent[p] > 0 => \/ payment[p] # "COMPLETED"
                    \/ \E w \in Handlers : Refunding(w, p) /\ work[w].op = "mark"
  /\ \A w \in Handlers : Refunding(w, p) /\ work[w].op = "refund" => sent[p] = 0

(* Its disputes are locked while a request works on them, and for good     *)
(* when they were refunded.                                                *)
LockedBy(x, d) == x # None /\ x.op \in {"check", "refund", "mark", "cancel", "book"}
                  /\ x.dispute = d
NotYet(x, d)   == x # None /\ x.op \in {"lock", "check", "refund", "fail"} /\ x.dispute = d

Held == \A d \in Disputes :
  dispute[d].status # "NONE" /\ PaidBy[dispute[d].item] \notin astray =>
    /\ d \in refunded => dispute[d].refund \in {"PROCESSING", "COMPLETED"}
    /\ \A w \in Handlers : /\ LockedBy(work[w], d) => dispute[d].refund = "PROCESSING"
                           /\ NotYet(work[w], d) => d \notin refunded

IInv == /\ RefundTypeOK /\ Own /\ Rows
        /\ MoneyWentBack /\ Sent
        /\ Single /\ Counted /\ Held
-----------------------------------------------------------------------------
LEMMA Fields ==
  ASSUME RefundTypeOK, NEW w \in Handlers, work[w] # None
  PROVE  /\ work[w] \in Task
         /\ work[w].op \in RefundOps => work[w] \in RefundTask
         /\ work[w].op = "open" => work[w].item \in Items
         /\ work[w].op = "close" => /\ work[w].dispute \in Disputes
                                    /\ work[w].to \in {"RESOLVED", "REJECTED"}
         /\ work[w].op = "settle" => /\ work[w].payment \in Payments
                                     /\ work[w].to \in {"COMPLETED", "PENDING"}
         /\ work[w].op = "record" => work[w].payment \in Payments
BY DEF RefundTypeOK, Task, RefundTask, RefundOps

LEMMA Tasks ==
  /\ \A i \in Items : [op |-> "open", item |-> i] \in Task
  /\ \A d \in Disputes, to \in {"RESOLVED", "REJECTED"} :
       [op |-> "close", dispute |-> d, to |-> to] \in Task
  /\ \A op \in RefundOps, d \in Disputes \cup {None}, p \in Payments :
       [op |-> op, dispute |-> d, payment |-> p] \in Task
  /\ \A p \in Payments, to \in {"COMPLETED", "PENDING"} :
       [op |-> "settle", payment |-> p, to |-> to] \in Task
  /\ \A p \in Payments : [op |-> "record", payment |-> p] \in Task
BY DEF Task

LEMMA HandlerMoves ==
  ASSUME RefundTypeOK, NEW w \in Handlers, NEW x \in Task \cup {None}, Do(w, x)
  PROVE  /\ work' \in [Handlers -> Task \cup {None}]
         /\ work'[w] = x
         /\ \A v \in Handlers : v # w => work'[v] = work[v]
BY DEF RefundTypeOK, Do

(* A request for a refund goes on to another phase, or ends.               *)
GoesOn(w, op) ==
  /\ work' \in [Handlers -> Task \cup {None}]
  /\ work'[w] \in RefundTask /\ work'[w] # None
  /\ work'[w].op = op
  /\ work'[w].dispute = work[w].dispute /\ work'[w].payment = work[w].payment
  /\ \A v \in Handlers : v # w => work'[v] = work[v]

Ends(w) ==
  /\ work' \in [Handlers -> Task \cup {None}]
  /\ work'[w] = None
  /\ \A v \in Handlers : v # w => work'[v] = work[v]

LEMMA ThenMoves ==
  ASSUME RefundTypeOK, NEW w \in Handlers, work[w] # None, work[w].op \in RefundOps,
         NEW op \in RefundOps, Then(w, op)
  PROVE  GoesOn(w, op)
<1> DEFINE x == [op |-> op, dispute |-> work[w].dispute, payment |-> work[w].payment]
<1>1. work[w] \in RefundTask
  BY Fields
<1>2. [work[w] EXCEPT !.op = op] = x /\ x \in RefundTask
  BY <1>1 DEF RefundTask
<1>3. x \in Task /\ x # None
  BY <1>1, Tasks, NoTask DEF RefundTask
<1>4. Do(w, x)
  BY <1>2 DEF Then
<1>5. /\ work' \in [Handlers -> Task \cup {None}]
      /\ work'[w] = x
      /\ \A v \in Handlers : v # w => work'[v] = work[v]
  BY <1>3, <1>4, HandlerMoves
<1> QED BY <1>2, <1>3, <1>5 DEF GoesOn

LEMMA ReturnMoves ==
  ASSUME RefundTypeOK, NEW w \in Handlers, Return(w)
  PROVE  Ends(w)
BY HandlerMoves DEF Return, Ends

LEMMA ThrowMoves ==
  ASSUME RefundTypeOK, NEW w \in Handlers, work[w] # None, work[w].op \in RefundOps,
         Throw(w)
  PROVE  \/ work[w].dispute = None /\ Ends(w)
         \/ work[w].dispute # None /\ GoesOn(w, "fail")
BY ThenMoves, ReturnMoves DEF Throw, RefundOps
-----------------------------------------------------------------------------
(* Types.                                                                  *)

LEMMA RowWritten ==
  ASSUME RefundTypeOK, NEW d \in Disputes
  PROVE  /\ \A st \in {"RESOLVED", "REJECTED"} : SetStatus(d, st) =>
              dispute' \in [Disputes -> [status : {"NONE", "OPEN", "RESOLVED", "REJECTED"},
                               item : Items \cup {None},
                               refund : {"IDLE", "PROCESSING", "COMPLETED", "FAILED"}]]
         /\ \A st \in {"PROCESSING", "FAILED"} : SetRefund(d, st) =>
              dispute' \in [Disputes -> [status : {"NONE", "OPEN", "RESOLVED", "REJECTED"},
                               item : Items \cup {None},
                               refund : {"IDLE", "PROCESSING", "COMPLETED", "FAILED"}]]
BY DEF RefundTypeOK, SetStatus, SetRefund

LEMMA TypedInit == Init => RefundTypeOK
BY RefundAssumption DEF RefundAssumption, Init, RefundTypeOK

LEMMA OpeningTypes ==
  ASSUME RefundTypeOK, NEW w \in Handlers,
         \/ \E i \in Items : ReadToOpen(w, i)
         \/ \E d \in Disputes : ReadToClose(w, d)
         \/ \E p \in Payments : UpdatePaymentStatus(w, p) \/ CancelRide(w, p)
  PROVE  RefundTypeOK'
<1>1. PICK x \in Task : Do(w, x) /\ UNCHANGED <<rows, sent, refunded, astray>>
  <2>1. CASE \E i \in Items : ReadToOpen(w, i)
    BY <2>1, Tasks DEF ReadToOpen
  <2>2. CASE \E d \in Disputes : ReadToClose(w, d)
    BY <2>2, Tasks DEF ReadToClose
  <2>3. CASE \E p \in Payments : UpdatePaymentStatus(w, p)
    BY <2>3, Tasks DEF UpdatePaymentStatus, Answers
  <2>4. CASE \E p \in Payments : CancelRide(w, p)
    BY <2>4, Tasks DEF CancelRide
  <2> QED BY <2>1, <2>2, <2>3, <2>4
<1>2. work' \in [Handlers -> Task \cup {None}]
  BY <1>1, HandlerMoves
<1> QED BY <1>1, <1>2 DEF RefundTypeOK, rows

LEMMA ClosingTypes ==
  ASSUME RefundTypeOK, NEW w \in Handlers,
         Create(w) \/ Close(w) \/ SettlePayment(w) \/ RecordRefund(w)
  PROVE  RefundTypeOK'
<1>1. work[w] # None
  BY DEF Create, Close, SettlePayment, RecordRefund, Doing
<1>2. Ends(w)
  BY ReturnMoves DEF Create, Close, SettlePayment, RecordRefund
<1>3. CASE Create(w)
  <2>1. work[w].item \in Items
    BY <1>1, <1>3, Fields DEF Create, Doing
  <2>2. dispute' \in [Disputes -> [status : {"NONE", "OPEN", "RESOLVED", "REJECTED"},
                               item : Items \cup {None},
                               refund : {"IDLE", "PROCESSING", "COMPLETED", "FAILED"}]]
    BY <1>3, <2>1 DEF Create, RefundTypeOK
  <2>3. UNCHANGED <<payment, entry, cancelled, sent, refunded, astray>>
    BY <1>3 DEF Create
  <2> QED BY <1>2, <2>2, <2>3 DEF Ends, RefundTypeOK
<1>4. CASE Close(w)
  <2>1. work[w].dispute \in Disputes /\ work[w].to \in {"RESOLVED", "REJECTED"}
    BY <1>1, <1>4, Fields DEF Close, Doing
  <2> QED BY <1>2, <1>4, <2>1, RowWritten DEF Close, Ends, RefundTypeOK
<1>5. CASE SettlePayment(w)
  <2>1. work[w].payment \in Payments /\ work[w].to \in {"COMPLETED", "PENDING"}
    BY <1>1, <1>5, Fields DEF SettlePayment, Doing
  <2>2. entry' \in [Payments -> Disputes \cup {Receipt, Cancellation, None}]
    BY <1>5, <2>1 DEF SettlePayment, RefundTypeOK
  <2>3. payment' \in [Payments -> {"PENDING", "COMPLETED", "REFUNDED", "PARTIALLY_REFUNDED"}]
    BY <1>5, <2>1 DEF SettlePayment, RefundTypeOK
  <2>4. cancelled' \subseteq Payments /\ astray' \subseteq Payments
    BY <1>5, <2>1 DEF SettlePayment, Hidden, RefundTypeOK
  <2>5. UNCHANGED <<dispute, sent, refunded>>
    BY <1>5 DEF SettlePayment
  <2> QED BY <1>2, <2>2, <2>3, <2>4, <2>5 DEF Ends, RefundTypeOK
<1>6. CASE RecordRefund(w)
  <2>1. entry' \in [Payments -> Disputes \cup {Receipt, Cancellation, None}]
    BY <1>6 DEF RecordRefund, RefundTypeOK
  <2> QED BY <1>2, <1>6, <2>1 DEF RecordRefund, Ends, RefundTypeOK
<1> QED BY <1>3, <1>4, <1>5, <1>6

LEMMA AskingTypes ==
  ASSUME RefundTypeOK, Rows, NEW w \in Handlers,
         \/ \E d \in Disputes : Resolve(w, d)
         \/ \E p \in Payments : RefundDirectly(w, p)
  PROVE  RefundTypeOK'
<1>1. PICK p \in Payments, x \in Task :
        Do(w, x) /\ Overlaps(p) /\ UNCHANGED <<rows, sent, refunded>>
  <2>1. CASE \E d \in Disputes : Resolve(w, d)
    <3>1. PICK d \in Disputes : Resolve(w, d)
      BY <2>1
    <3>2. PaidBy[dispute[d].item] \in Payments
      BY <3>1, RefundAssumption DEF RefundAssumption, Resolve, Rows
    <3> QED BY <3>1, <3>2, Tasks DEF Resolve, RefundOps
  <2>2. CASE \E p \in Payments : RefundDirectly(w, p)
    BY <2>2, Tasks DEF RefundDirectly, RefundOps
  <2> QED BY <2>1, <2>2
<1>2. work' \in [Handlers -> Task \cup {None}]
  BY <1>1, HandlerMoves
<1> QED BY <1>1, <1>2 DEF Overlaps, Hidden, RefundTypeOK, rows

(* A handler in a phase of a refund, and what it holds.                    *)
LEMMA Phase ==
  ASSUME RefundTypeOK, Own, NEW w \in Handlers, NEW op \in RefundOps, Doing(w, op)
  PROVE  /\ work[w] # None /\ work[w].op = op /\ work[w] \in RefundTask
         /\ work[w].payment \in Payments
         /\ work[w].dispute \in Disputes \cup {None}
         /\ op \in {"lock", "book", "fail"} => work[w].dispute \in Disputes
<1>1. work[w] # None /\ work[w].op = op /\ work[w] \in RefundTask
  BY Fields DEF Doing
<1>2. work[w].payment \in Payments /\ work[w].dispute \in Disputes \cup {None}
  BY <1>1 DEF RefundTask
<1> QED BY <1>1, <1>2 DEF Own, Fits

LEMMA PhaseTypes ==
  ASSUME RefundTypeOK, Own, NEW w \in Handlers,
         \/ LockIntent(w) \/ CheckPayment(w) \/ InitiateRefund(w) \/ MarkPayment(w)
         \/ CancelOrder(w) \/ RefundFailed(w) \/ FinalizeRefund(w)
  PROVE  RefundTypeOK'
<1>1. CASE LockIntent(w)
  <2>1. work[w].dispute \in Disputes /\ work[w] # None /\ work[w].op \in RefundOps
    BY <1>1, Phase DEF LockIntent, RefundOps
  <2>2. GoesOn(w, "check")
    BY <1>1, <2>1, ThenMoves DEF LockIntent, RefundOps
  <2> QED BY <1>1, <2>1, <2>2, RowWritten DEF LockIntent, GoesOn, RefundTypeOK
<1>2. CASE CheckPayment(w)
  <2>1. work[w] # None /\ work[w].op \in RefundOps
    BY <1>2, Phase DEF CheckPayment, RefundOps
  <2>2. GoesOn(w, "refund") \/ GoesOn(w, "fail") \/ Ends(w)
    BY <1>2, <2>1, ThenMoves, ThrowMoves DEF CheckPayment, RefundOps
  <2> QED BY <1>2, <2>2 DEF CheckPayment, GoesOn, Ends, RefundTypeOK, rows
<1>3. CASE InitiateRefund(w)
  <2>1. /\ work[w] # None /\ work[w].op \in RefundOps
        /\ work[w].payment \in Payments /\ work[w].dispute \in Disputes \cup {None}
    BY <1>3, Phase DEF InitiateRefund, RefundOps
  <2>2. GoesOn(w, "mark") \/ GoesOn(w, "fail") \/ Ends(w)
    BY <1>3, <2>1, ThenMoves, ThrowMoves DEF InitiateRefund, Refused, RefundOps
  <2>3. sent' \in [Payments -> 0 .. MaxRefunds]
    BY <1>3, <2>1, RefundAssumption DEF RefundAssumption, InitiateRefund, RefundTypeOK
  <2>4. refunded' \subseteq Disputes /\ astray' \subseteq Payments
    BY <1>3, <2>1 DEF InitiateRefund, Hidden, RefundTypeOK
  <2>5. UNCHANGED rows
    BY <1>3 DEF InitiateRefund
  <2> QED BY <2>2, <2>3, <2>4, <2>5 DEF GoesOn, Ends, RefundTypeOK, rows
<1>4. CASE MarkPayment(w)
  <2>1. /\ work[w] # None /\ work[w].op \in RefundOps /\ work[w].payment \in Payments
    BY <1>4, Phase DEF MarkPayment, RefundOps
  <2>2. GoesOn(w, "cancel") \/ GoesOn(w, "fail") \/ Ends(w)
    BY <1>4, <2>1, ThenMoves, ThrowMoves DEF MarkPayment, RefundOps
  <2>3. /\ payment' \in [Payments -> {"PENDING", "COMPLETED", "REFUNDED", "PARTIALLY_REFUNDED"}]
        /\ astray' \subseteq Payments
    BY <1>4, <2>1 DEF MarkPayment, Marks, Hidden, RefundTypeOK
  <2> QED BY <1>4, <2>2, <2>3 DEF MarkPayment, GoesOn, Ends, RefundTypeOK
<1>5. CASE CancelOrder(w)
  <2>1. /\ work[w] # None /\ work[w].op \in RefundOps /\ work[w].payment \in Payments
    BY <1>5, Phase DEF CancelOrder, RefundOps
  <2>2. GoesOn(w, "book") \/ GoesOn(w, "fail") \/ Ends(w)
    BY <1>5, <2>1, ThenMoves, ThrowMoves, ReturnMoves DEF CancelOrder, RefundOps
  <2>3. cancelled' \subseteq Payments /\ astray' \subseteq Payments
    BY <1>5, <2>1 DEF CancelOrder, Hidden, RefundTypeOK
  <2> QED BY <1>5, <2>2, <2>3 DEF CancelOrder, GoesOn, Ends, RefundTypeOK
<1>6. CASE RefundFailed(w)
  <2>1. work[w].dispute \in Disputes
    BY <1>6, Phase DEF RefundFailed, RefundOps
  <2>2. Ends(w)
    BY <1>6, ReturnMoves DEF RefundFailed
  <2> QED BY <1>6, <2>1, <2>2, RowWritten DEF RefundFailed, Ends, RefundTypeOK
<1>7. CASE FinalizeRefund(w)
  <2>1. work[w].dispute \in Disputes /\ work[w].payment \in Payments
    BY <1>7, Phase DEF FinalizeRefund, RefundOps
  <2>2. Ends(w)
    BY <1>7, ReturnMoves DEF FinalizeRefund, Unbooked
  <2>3. entry' \in [Payments -> Disputes \cup {Receipt, Cancellation, None}]
    BY <1>7, <2>1 DEF FinalizeRefund, RefundTypeOK
  <2>4. payment' \in [Payments -> {"PENDING", "COMPLETED", "REFUNDED", "PARTIALLY_REFUNDED"}]
    BY <1>7, <2>1 DEF FinalizeRefund, Marks, RefundTypeOK
  <2>5. dispute' \in [Disputes -> [status : {"NONE", "OPEN", "RESOLVED", "REJECTED"},
                               item : Items \cup {None},
                               refund : {"IDLE", "PROCESSING", "COMPLETED", "FAILED"}]]
    BY <1>7, <2>1 DEF FinalizeRefund, RefundTypeOK
  <2>6. UNCHANGED <<cancelled, sent, refunded, astray>>
    BY <1>7 DEF FinalizeRefund
  <2> QED BY <2>2, <2>3, <2>4, <2>5, <2>6 DEF Ends, RefundTypeOK
<1> QED BY <1>1, <1>2, <1>3, <1>4, <1>5, <1>6, <1>7

LEMMA TypedNext == RefundTypeOK /\ Own /\ Rows /\ [Next]_vars => RefundTypeOK'
<1> SUFFICES ASSUME RefundTypeOK, Own, Rows, [Next]_vars
             PROVE  RefundTypeOK'
  OBVIOUS
<1>1. ASSUME NEW w \in Handlers, Ask(w)
      PROVE  RefundTypeOK'
  BY <1>1, OpeningTypes, AskingTypes DEF Ask
<1>2. ASSUME NEW w \in Handlers, Resume(w)
      PROVE  RefundTypeOK'
  BY <1>2, ClosingTypes, PhaseTypes DEF Resume
<1>3. CASE Crash
  BY <1>3 DEF Crash, RefundTypeOK, rows
<1>4. CASE UNCHANGED vars
  BY <1>4 DEF vars, RefundTypeOK
<1> QED BY <1>1, <1>2, <1>3, <1>4 DEF Next
-----------------------------------------------------------------------------
(* Disputes keep their item, and stay closed.                              *)

PhaseOf(w) == \/ LockIntent(w) \/ CheckPayment(w) \/ InitiateRefund(w) \/ MarkPayment(w)
              \/ CancelOrder(w) \/ RefundFailed(w) \/ FinalizeRefund(w)

LEMMA DisputesWritten ==
  ASSUME [Next]_vars
  PROVE  \/ UNCHANGED dispute
         \/ \E w \in Handlers : Create(w) \/ Close(w) \/ LockIntent(w) \/ RefundFailed(w)
                                \/ FinalizeRefund(w)
<1>1. ASSUME NEW w \in Handlers, Ask(w)
      PROVE  UNCHANGED dispute
  BY <1>1 DEF Ask, ReadToOpen, ReadToClose, Resolve, RefundDirectly, CancelRide,
              UpdatePaymentStatus, rows
<1>2. ASSUME NEW w \in Handlers,
             CheckPayment(w) \/ InitiateRefund(w) \/ MarkPayment(w) \/ CancelOrder(w)
             \/ SettlePayment(w) \/ RecordRefund(w)
      PROVE  UNCHANGED dispute
  BY <1>2 DEF CheckPayment, InitiateRefund, MarkPayment, CancelOrder, SettlePayment,
              RecordRefund, rows
<1>3. Crash => UNCHANGED dispute
  BY DEF Crash, rows
<1> QED BY <1>1, <1>2, <1>3 DEF Next, Resume, vars

LEMMA DisputesStay ==
  ASSUME RefundTypeOK, Own, [Next]_vars, NEW d \in Disputes, dispute[d].status # "NONE"
  PROVE  /\ dispute'[d].status # "NONE" /\ dispute'[d].item = dispute[d].item
         /\ dispute[d].status \in {"RESOLVED", "REJECTED"}
              => dispute'[d].status \in {"RESOLVED", "REJECTED"}
<1>1. CASE UNCHANGED dispute
  BY <1>1
<1>2. ASSUME NEW w \in Handlers, Create(w)
      PROVE  dispute'[d] = dispute[d]
  BY <1>2 DEF Create, RefundTypeOK
<1>3. ASSUME NEW w \in Handlers, Close(w)
      PROVE  /\ dispute'[d].item = dispute[d].item
             /\ dispute'[d].status \in {dispute[d].status, "RESOLVED", "REJECTED"}
  <2>1. work[w].to \in {"RESOLVED", "REJECTED"}
    BY <1>3, Fields DEF Close, Doing
  <2> QED BY <1>3, <2>1 DEF Close, SetStatus, RefundTypeOK
<1>4. ASSUME NEW w \in Handlers, LockIntent(w) \/ RefundFailed(w)
      PROVE  /\ dispute'[d].item = dispute[d].item
             /\ dispute'[d].status = dispute[d].status
  BY <1>4 DEF LockIntent, RefundFailed, SetRefund, RefundTypeOK
<1>5. ASSUME NEW w \in Handlers, FinalizeRefund(w)
      PROVE  /\ dispute'[d].item = dispute[d].item
             /\ dispute'[d].status \in {dispute[d].status, "RESOLVED"}
  BY <1>5 DEF FinalizeRefund, RefundTypeOK
<1> QED BY <1>1, <1>2, <1>3, <1>4, <1>5, DisputesWritten

(* The steps of a refund.                                                  *)
LEMMA PhaseMoves ==
  ASSUME RefundTypeOK, Own, NEW w \in Handlers, PhaseOf(w)
  PROVE  /\ work[w] # None /\ work[w].op \in RefundOps /\ work[w] \in RefundTask
         /\ work[w].payment \in Payments
         /\ \/ Ends(w)
            \/ \E op \in RefundOps :
                 GoesOn(w, op) /\ (op \in {"lock", "book", "fail"} => work[w].dispute # None)
<1>1. work[w] # None /\ work[w].op \in RefundOps /\ work[w] \in RefundTask
  <2>1. \E op \in RefundOps : Doing(w, op)
    BY DEF PhaseOf, LockIntent, CheckPayment, InitiateRefund, MarkPayment, CancelOrder,
           RefundFailed, FinalizeRefund, RefundOps
  <2> QED BY <2>1, Fields DEF Doing
<1>2. \/ Return(w) \/ Throw(w)
      \/ \E op \in RefundOps : Then(w, op) /\ (op \in {"lock", "book", "fail"}
                                                 => work[w].dispute # None)
  BY DEF PhaseOf, LockIntent, CheckPayment, InitiateRefund, MarkPayment, CancelOrder,
         RefundFailed, FinalizeRefund, Refused, Unbooked, RefundOps
<1>3. ASSUME Return(w) \/ Throw(w)
      PROVE  Ends(w) \/ (GoesOn(w, "fail") /\ work[w].dispute # None)
  BY <1>1, <1>3, ReturnMoves, ThrowMoves
<1>4. ASSUME NEW op \in RefundOps, Then(w, op)
      PROVE  GoesOn(w, op)
  BY <1>1, <1>4, ThenMoves
<1>5. work[w].payment \in Payments
  BY <1>1 DEF RefundTask
<1>6. \/ Ends(w)
      \/ \E op \in RefundOps :
           GoesOn(w, op) /\ (op \in {"lock", "book", "fail"} => work[w].dispute # None)
  BY <1>2, <1>3, <1>4 DEF RefundOps
<1> QED BY <1>1, <1>5, <1>6

LEMMA OwnInit == Init => Own /\ Rows
BY DEF Init, Own, Fits, Rows

LEMMA OwnNext == RefundTypeOK /\ Own /\ Rows /\ [Next]_vars => Own'
<1> SUFFICES ASSUME RefundTypeOK, Own, Rows, [Next]_vars
             PROVE  Own'
  OBVIOUS
<1>1. \A v \in Handlers : work[v] # None =>
        /\ work[v].op \in RefundOps /\ work[v].dispute # None => work[v].dispute \in Disputes
        /\ work[v].op = "close" => work[v].dispute \in Disputes
  BY Fields DEF RefundTask
<1>2. ASSUME NEW v \in Handlers, work'[v] = work[v]
      PROVE  Fits(work[v])'
  BY <1>1, <1>2, DisputesStay DEF Own, Fits
<1>3. ASSUME NEW w \in Handlers, Ask(w)
      PROVE  Own'
  <2>1. UNCHANGED dispute
    BY <1>3 DEF Ask, ReadToOpen, ReadToClose, Resolve, RefundDirectly, CancelRide,
                UpdatePaymentStatus, rows
  <2>2. PICK x \in Task :
          /\ Do(w, x)
          /\ \/ x.op \in {"open", "settle"}
             \/ x.op = "record" /\ Kind[x.payment] = "ride"
             \/ x.op = "close" /\ dispute[x.dispute].status = "OPEN"
             \/ x.op = "check" /\ x.dispute = None
             \/ /\ x.op = "lock" /\ x.dispute \in Disputes
                /\ dispute[x.dispute].status = "OPEN"
                /\ x.payment = PaidBy[dispute[x.dispute].item]
    <3>1. CASE \E i \in Items : ReadToOpen(w, i)
      BY <3>1, Tasks DEF ReadToOpen
    <3>2. CASE \E d \in Disputes : ReadToClose(w, d)
      BY <3>2, Tasks DEF ReadToClose
    <3>3. CASE \E d \in Disputes : Resolve(w, d)
      <4>1. PICK d \in Disputes : Resolve(w, d)
        BY <3>3
      <4>2. PaidBy[dispute[d].item] \in Payments /\ d # None
        BY <4>1, RefundAssumption DEF RefundAssumption, Resolve, Rows
      <4> QED BY <4>1, <4>2, Tasks DEF Resolve, RefundOps
    <3>4. CASE \E p \in Payments : RefundDirectly(w, p)
      BY <3>4, Tasks DEF RefundDirectly, RefundOps
    <3>5. CASE \E p \in Payments : UpdatePaymentStatus(w, p)
      BY <3>5, Tasks DEF UpdatePaymentStatus, Answers
    <3>6. CASE \E p \in Payments : CancelRide(w, p)
      BY <3>6, Tasks DEF CancelRide
    <3> QED BY <1>3, <3>1, <3>2, <3>3, <3>4, <3>5, <3>6 DEF Ask
  <2>3. work'[w] = x /\ \A v \in Handlers : v # w => work'[v] = work[v]
    BY <2>2, HandlerMoves
  <2>4. Fits(work[w])'
    BY <2>1, <2>2, <2>3, RefundAssumption DEF RefundAssumption, Fits, RefundOps
  <2> QED BY <1>2, <2>3, <2>4 DEF Own
<1>4. ASSUME NEW w \in Handlers, Create(w) \/ Close(w) \/ SettlePayment(w) \/ RecordRefund(w)
      PROVE  Own'
  <2>1. Ends(w)
    BY <1>4, ReturnMoves DEF Create, Close, SettlePayment, RecordRefund
  <2> QED BY <1>2, <2>1 DEF Ends, Own, Fits
<1>5. ASSUME NEW w \in Handlers, PhaseOf(w)
      PROVE  Own'
  <2>1. CASE Ends(w)
    BY <1>2, <2>1 DEF Ends, Own, Fits
  <2>2. ASSUME NEW op \in RefundOps, GoesOn(w, op),
               op \in {"lock", "book", "fail"} => work[w].dispute # None
        PROVE  Own'
    <3>1. /\ work[w] # None /\ work[w].op \in RefundOps
          /\ work[w].dispute # None => work[w].dispute \in Disputes
      BY <1>1, <1>5, PhaseMoves
    <3>2. Fits(work[w])'
      BY <2>2, <3>1, DisputesStay DEF GoesOn, Own, Fits, RefundOps
    <3> QED BY <1>2, <2>2, <3>2 DEF GoesOn, Own
  <2> QED BY <1>5, <2>1, <2>2, PhaseMoves
<1>6. CASE Crash
  BY <1>6 DEF Crash, Own, Fits
<1>7. CASE UNCHANGED vars
  BY <1>2, <1>7 DEF vars, Own
<1> QED BY <1>3, <1>4, <1>5, <1>6, <1>7 DEF Next, Resume, PhaseOf
(* A dispute that does not exist stays so, or is created.                  *)
LEMMA DisputesBegin ==
  ASSUME RefundTypeOK, Own, [Next]_vars, NEW d \in Disputes, dispute[d].status = "NONE"
  PROVE  \/ dispute'[d] = dispute[d]
         \/ dispute'[d].status = "OPEN" /\ dispute'[d].item \in Items
            /\ dispute'[d].refund = "IDLE"
<1>1. ASSUME NEW w \in Handlers, Create(w)
      PROVE  \/ dispute'[d] = dispute[d]
             \/ dispute'[d].status = "OPEN" /\ dispute'[d].item \in Items
                /\ dispute'[d].refund = "IDLE"
  <2>1. work[w].item \in Items
    BY <1>1, Fields DEF Create, Doing
  <2> QED BY <1>1, <2>1 DEF Create, RefundTypeOK
<1>2. ASSUME NEW w \in Handlers,
             Close(w) \/ LockIntent(w) \/ RefundFailed(w) \/ FinalizeRefund(w)
      PROVE  dispute'[d] = dispute[d]
  <2>1. work[w].dispute # d
    BY <1>2 DEF Close, LockIntent, RefundFailed, FinalizeRefund, Doing, Own, Fits, RefundOps
  <2> QED BY <1>2, <2>1
          DEF Close, LockIntent, RefundFailed, FinalizeRefund, SetStatus, SetRefund, RefundTypeOK
<1> QED BY <1>1, <1>2, DisputesWritten

LEMMA CompletedWithStatus ==
  ASSUME RefundTypeOK, Own, [Next]_vars, NEW d \in Disputes,
         dispute'[d].refund = "COMPLETED"
  PROVE  dispute[d].refund = "COMPLETED" \/ dispute'[d].status = "RESOLVED"
<1>1. ASSUME NEW w \in Handlers, FinalizeRefund(w)
      PROVE  dispute[d].refund = "COMPLETED" \/ dispute'[d].status = "RESOLVED"
  <2>1. work[w].dispute \in Disputes
    BY <1>1, Phase DEF FinalizeRefund, RefundOps
  <2> QED BY <1>1, <2>1 DEF FinalizeRefund, RefundTypeOK
<1>2. ASSUME NEW w \in Handlers, Create(w) \/ Close(w) \/ LockIntent(w) \/ RefundFailed(w)
      PROVE  dispute[d].refund = "COMPLETED"
  BY <1>2 DEF Create, Close, LockIntent, RefundFailed, SetStatus, SetRefund, RefundTypeOK
<1> QED BY <1>1, <1>2, DisputesWritten

LEMMA RefundedBy ==
  ASSUME RefundTypeOK, Own, [Next]_vars, NEW d \in refunded', d \notin refunded
  PROVE  \E w \in Handlers : InitiateRefund(w) /\ work[w].dispute = d /\ d # None
BY DEF Next, Ask, Resume, ReadToOpen, ReadToClose, Resolve, RefundDirectly, CancelRide,
       UpdatePaymentStatus,
       Create, Close, LockIntent, CheckPayment, InitiateRefund, MarkPayment, CancelOrder,
       RefundFailed, FinalizeRefund, SettlePayment, RecordRefund, Crash, vars

LEMMA RowsNext == RefundTypeOK /\ Own /\ Rows /\ [Next]_vars => Rows'
<1> SUFFICES ASSUME RefundTypeOK, Own, Rows, [Next]_vars, NEW d \in Disputes
             PROVE  /\ dispute'[d].status # "NONE" => dispute'[d].item \in Items
                    /\ d \in refunded' => dispute'[d].status # "NONE"
                    /\ dispute'[d].refund = "COMPLETED"
                         => dispute'[d].status \in {"RESOLVED", "REJECTED"}
  BY DEF Rows
<1>1. dispute'[d].status # "NONE" => dispute'[d].item \in Items
  BY DisputesBegin, DisputesStay DEF Rows
<1>2. d \in refunded' => dispute[d].status # "NONE"
  <2>1. ASSUME NEW w \in Handlers, InitiateRefund(w), work[w].dispute = d, d # None
        PROVE  dispute[d].status # "NONE"
    BY <2>1 DEF InitiateRefund, Doing, Own, Fits, RefundOps
  <2> QED BY <2>1, RefundedBy DEF Rows
<1>3. dispute'[d].refund = "COMPLETED" => dispute'[d].status \in {"RESOLVED", "REJECTED"}
  BY CompletedWithStatus, DisputesStay DEF Rows
<1> QED BY <1>1, <1>2, <1>3, DisputesStay
-----------------------------------------------------------------------------
(* Who moves, and from which phase to which.                               *)

LEMMA Others ==
  ASSUME RefundTypeOK, Own, NEW w \in Handlers, Ask(w) \/ Resume(w),
         NEW v \in Handlers, v # w
  PROVE  work'[v] = work[v]
<1>1. CASE Ask(w)
  BY <1>1 DEF Ask, ReadToOpen, ReadToClose, Resolve, RefundDirectly, CancelRide,
              UpdatePaymentStatus, Do,
              RefundTypeOK
<1>2. CASE Create(w) \/ Close(w) \/ SettlePayment(w) \/ RecordRefund(w)
  BY <1>2 DEF Create, Close, SettlePayment, RecordRefund, Return, Do, RefundTypeOK
<1>3. CASE PhaseOf(w)
  BY <1>3, PhaseMoves DEF GoesOn, Ends
<1> QED BY <1>1, <1>2, <1>3 DEF Resume, PhaseOf

LEMMA Turns ==
  ASSUME RefundTypeOK, Own, NEW w \in Handlers, PhaseOf(w), work'[w] # None
  PROVE  /\ GoesOn(w, work'[w].op)
         /\ \/ LockIntent(w) /\ work'[w].op = "check"
            \/ CheckPayment(w) /\ Refundable(work[w].payment) /\ work'[w].op = "refund"
            \/ /\ InitiateRefund(w) /\ work'[w].op = "mark" /\ UNCHANGED astray
               /\ sent' = [sent EXCEPT ![work[w].payment] = @ + 1]
            \/ /\ MarkPayment(w) /\ work'[w].op = "cancel" /\ UNCHANGED astray
               /\ payment'[work[w].payment] # "COMPLETED"
            \/ CancelOrder(w) /\ work'[w].op = "book"
            \/ /\ CheckPayment(w) \/ InitiateRefund(w)
               /\ work'[w].op = "fail" /\ UNCHANGED <<sent, refunded>>
            \/ work'[w].op = "fail" /\ work[w].payment \in astray'
<1>1. /\ work[w] # None /\ work[w].op \in RefundOps
      /\ work[w].payment \in Payments
  BY PhaseMoves
<1>2. ASSUME NEW op \in RefundOps, Then(w, op)
      PROVE  GoesOn(w, op) /\ work'[w].op = op
  BY <1>1, <1>2, ThenMoves DEF GoesOn
<1>3. ASSUME Throw(w)
      PROVE  GoesOn(w, "fail") /\ work'[w].op = "fail"
  BY <1>1, <1>3, ThrowMoves DEF GoesOn, Ends
<1>4. ~Return(w)
  BY ReturnMoves DEF Ends
<1> USE DEF RefundOps
<1>5. CASE LockIntent(w)
  BY <1>2, <1>5 DEF LockIntent
<1>6. CASE CheckPayment(w)
  BY <1>2, <1>3, <1>6 DEF CheckPayment
<1>7. CASE InitiateRefund(w)
  BY <1>1, <1>2, <1>3, <1>7 DEF InitiateRefund, Refused, Hidden
<1>8. CASE MarkPayment(w)
  <2>1. CASE UNCHANGED payment /\ Throw(w) /\ Hidden(work[w].payment)
    BY <1>3, <2>1 DEF Hidden
  <2>2. CASE \E st \in Marks(w) : /\ payment' = [payment EXCEPT ![work[w].payment] = st]
                                  /\ Then(w, "cancel") /\ UNCHANGED astray
    <3>1. payment'[work[w].payment] # "COMPLETED"
      BY <1>1, <2>2 DEF Marks, RefundTypeOK
    <3> QED BY <1>2, <1>8, <2>2, <3>1
  <2> QED BY <1>8, <2>1, <2>2 DEF MarkPayment
<1>9. CASE CancelOrder(w)
  BY <1>2, <1>3, <1>4, <1>9 DEF CancelOrder, Hidden
<1>10. CASE RefundFailed(w) \/ FinalizeRefund(w)
  BY <1>4, <1>10 DEF RefundFailed, FinalizeRefund, Unbooked
<1> QED BY <1>5, <1>6, <1>7, <1>8, <1>9, <1>10 DEF PhaseOf

LEMMA AstrayGrows == [Next]_vars => astray \subseteq astray'
BY DEF Next, Ask, Resume, ReadToOpen, ReadToClose, Resolve, RefundDirectly, CancelRide,
       UpdatePaymentStatus,
       Create, Close, LockIntent, CheckPayment, InitiateRefund, MarkPayment, CancelOrder,
       RefundFailed, FinalizeRefund, SettlePayment, RecordRefund, Crash, vars, Overlaps, Hidden

LEMMA SentGrows ==
  ASSUME RefundTypeOK, Own, [Next]_vars, NEW p \in Payments
  PROVE  /\ sent'[p] \in Nat /\ sent[p] \in Nat /\ sent'[p] >= sent[p]
         /\ sent'[p] # sent[p] => \E w \in Handlers : /\ InitiateRefund(w)
                                                      /\ work[w].payment = p
                                                      /\ sent'[p] = sent[p] + 1
<1>1. sent[p] \in Nat
  BY RefundAssumption DEF RefundAssumption, RefundTypeOK
<1>2. ASSUME NEW w \in Handlers, InitiateRefund(w)
      PROVE  \/ sent'[p] = sent[p]
             \/ work[w].payment = p /\ sent'[p] = sent[p] + 1
  BY <1>2 DEF InitiateRefund, RefundTypeOK
<1>3. UNCHANGED sent \/ \E w \in Handlers : InitiateRefund(w)
  BY DEF Next, Ask, Resume, ReadToOpen, ReadToClose, Resolve, RefundDirectly, CancelRide,
         UpdatePaymentStatus, Create, Close, LockIntent, CheckPayment, MarkPayment, CancelOrder,
         RefundFailed, FinalizeRefund, SettlePayment, RecordRefund, Crash, vars
<1> QED BY <1>1, <1>2, <1>3

(* A refund under way was under way before, or is asked for now.           *)
LEMMA Begun ==
  ASSUME RefundTypeOK, Own, Rows, [Next]_vars, NEW v \in Handlers, NEW p, Refunding(v, p)'
  PROVE  \/ work'[v] = work[v]
         \/ PhaseOf(v) /\ Refunding(v, p)
         \/ \E d \in Disputes : /\ Resolve(v, d) /\ PaidBy[dispute[d].item] = p
                                /\ work'[v].op = "lock" /\ work'[v].dispute = d
         \/ RefundDirectly(v, p) /\ work'[v].op = "check" /\ work'[v].dispute = None
<1> SUFFICES ASSUME work'[v] # work[v]
             PROVE  \/ PhaseOf(v) /\ Refunding(v, p)
                    \/ \E d \in Disputes : /\ Resolve(v, d) /\ PaidBy[dispute[d].item] = p
                                           /\ work'[v].op = "lock" /\ work'[v].dispute = d
                    \/ RefundDirectly(v, p) /\ work'[v].op = "check" /\ work'[v].dispute = None
  OBVIOUS
<1>1. work'[v] # None /\ work'[v].op \in RefundOps /\ work'[v].payment = p
  BY DEF Refunding
<1>2. Ask(v) \/ Resume(v)
  <2>1. ~Crash
    BY <1>1 DEF Crash
  <2> QED BY <2>1, Others DEF Next, vars
<1>3. CASE PhaseOf(v)
  BY <1>1, <1>3, PhaseMoves, Turns DEF GoesOn, Refunding
<1>4. CASE Create(v) \/ Close(v) \/ SettlePayment(v) \/ RecordRefund(v)
  BY <1>1, <1>4, ReturnMoves DEF Create, Close, SettlePayment, RecordRefund, Ends
<1>5. ASSUME NEW x \in Task, Do(v, x)
      PROVE  work'[v] = x
  BY <1>5, HandlerMoves
<1>6. CASE \E d \in Disputes : Resolve(v, d)
  <2>1. PICK d \in Disputes : Resolve(v, d)
    BY <1>6
  <2>2. PaidBy[dispute[d].item] \in Payments
    BY <2>1, RefundAssumption DEF RefundAssumption, Resolve, Rows
  <2>3. work'[v] = [op |-> "lock", dispute |-> d, payment |-> PaidBy[dispute[d].item]]
    BY <2>1, <2>2, <1>5, Tasks DEF Resolve, RefundOps
  <2> QED BY <1>1, <2>1, <2>3
<1>7. CASE \E q \in Payments : RefundDirectly(v, q)
  <2>1. PICK q \in Payments : RefundDirectly(v, q)
    BY <1>7
  <2>2. work'[v] = [op |-> "check", dispute |-> None, payment |-> q]
    BY <2>1, <1>5, Tasks DEF RefundDirectly, RefundOps
  <2> QED BY <1>1, <2>1, <2>2
<1>8. CASE \E i \in Items : ReadToOpen(v, i)
  BY <1>1, <1>5, <1>8, Tasks DEF ReadToOpen, RefundOps
<1>9. CASE \E d \in Disputes : ReadToClose(v, d)
  BY <1>1, <1>5, <1>9, Tasks DEF ReadToClose, RefundOps
<1>10. CASE \E q \in Payments : UpdatePaymentStatus(v, q)
  <2>1. PICK q \in Payments, to \in {"COMPLETED", "PENDING"} :
          Do(v, [op |-> "settle", payment |-> q, to |-> to])
    BY <1>10 DEF UpdatePaymentStatus, Answers
  <2>2. work'[v] = [op |-> "settle", payment |-> q, to |-> to]
    BY <2>1, <1>5, Tasks
  <2> QED BY <1>1, <2>2 DEF RefundOps
<1>11. CASE \E q \in Payments : CancelRide(v, q)
  BY <1>1, <1>5, <1>11, Tasks DEF CancelRide, RefundOps
<1>12. CASE Ask(v)
  BY <1>6, <1>7, <1>8, <1>9, <1>10, <1>11, <1>12 DEF Ask
<1>13. CASE Resume(v)
  BY <1>3, <1>4, <1>13 DEF Resume, PhaseOf
<1> QED BY <1>2, <1>12, <1>13
-----------------------------------------------------------------------------
(* Money went back before anything says so.                                *)

LEMMA SentNext == RefundTypeOK /\ Own /\ Rows /\ Sent /\ [Next]_vars => Sent'
<1> SUFFICES ASSUME RefundTypeOK, Own, Rows, Sent, [Next]_vars, NEW w \in Handlers,
                    work'[w] # None, work'[w].op \in {"mark", "cancel", "book"},
                    NEW p, work'[w].payment = p
             PROVE  sent'[p] > 0
  BY DEF Sent, Doing
<1>1. Refunding(w, p)'
  BY DEF Refunding, RefundOps
<1>2. CASE work'[w] = work[w]
  <2>1. sent[work[w].payment] > 0 /\ work[w].payment \in Payments
    BY <1>2, Fields DEF Sent, Doing, RefundTask, RefundOps
  <2> QED BY <1>2, <2>1, SentGrows
<1>3. CASE PhaseOf(w)
  <2>1. /\ work[w].payment \in Payments /\ work'[w].payment = work[w].payment
    BY <1>3, PhaseMoves, Turns DEF GoesOn
  <2>2. CASE InitiateRefund(w) /\ sent' = [sent EXCEPT ![work[w].payment] = @ + 1]
    BY <2>1, <2>2, RefundAssumption DEF RefundAssumption, RefundTypeOK
  <2>3. CASE MarkPayment(w) \/ CancelOrder(w)
    <3>1. sent[work[w].payment] > 0
      BY <2>3 DEF MarkPayment, CancelOrder, Sent
    <3> QED BY <2>1, <3>1, SentGrows
  <2> QED BY <1>3, <2>2, <2>3, Turns
<1> QED BY <1>1, <1>2, <1>3, Begun

LEMMA MarkedOrCancelled ==
  ASSUME RefundTypeOK, Own, Sent, [Next]_vars, NEW p \in Payments
  PROVE  /\ payment'[p] \in {"REFUNDED", "PARTIALLY_REFUNDED"}
              => payment[p] \in {"REFUNDED", "PARTIALLY_REFUNDED"} \/ sent[p] > 0
         /\ p \in cancelled' => p \in cancelled \/ sent[p] > 0
<1>1. ASSUME NEW w \in Handlers, MarkPayment(w) \/ CancelOrder(w) \/ FinalizeRefund(w)
      PROVE  /\ payment'[p] = payment[p] \/ sent[p] > 0
             /\ p \in cancelled' => p \in cancelled \/ sent[p] > 0
  <2>1. sent[work[w].payment] > 0
    BY <1>1 DEF MarkPayment, CancelOrder, FinalizeRefund, Sent
  <2>2. payment'[p] = payment[p] \/ p = work[w].payment
    BY <1>1 DEF MarkPayment, CancelOrder, FinalizeRefund, RefundTypeOK
  <2>3. p \in cancelled' => p \in cancelled \/ p = work[w].payment
    BY <1>1 DEF MarkPayment, CancelOrder, FinalizeRefund
  <2> QED BY <2>1, <2>2, <2>3
<1>2. ASSUME NEW w \in Handlers, SettlePayment(w)
      PROVE  /\ payment'[p] = payment[p] \/ payment'[p] \in {"COMPLETED", "PENDING"}
             /\ p \in cancelled' => p \in cancelled
  <2>1. work[w].to \in {"COMPLETED", "PENDING"}
    BY <1>2, Fields DEF SettlePayment, Doing
  <2> QED BY <1>2, <2>1 DEF SettlePayment, RefundTypeOK
<1>3. \/ UNCHANGED <<payment, cancelled>>
      \/ \E w \in Handlers : MarkPayment(w) \/ CancelOrder(w) \/ FinalizeRefund(w)
                             \/ SettlePayment(w)
  BY DEF Next, Ask, Resume, ReadToOpen, ReadToClose, Resolve, RefundDirectly, CancelRide,
         UpdatePaymentStatus, Create, Close, LockIntent, CheckPayment, InitiateRefund,
         RefundFailed, RecordRefund, Crash, vars, rows
<1> QED BY <1>1, <1>2, <1>3

LEMMA EntryWritten ==
  ASSUME RefundTypeOK, Own, [Next]_vars, NEW p \in Payments, entry'[p] # entry[p]
  PROVE  /\ entry[p] = None
         /\ \/ entry'[p] = Receipt
            \/ entry'[p] = Cancellation /\ Kind[p] = "ride"
            \/ \E w \in Handlers : /\ FinalizeRefund(w) /\ work[w].payment = p
                                   /\ entry'[p] = work[w].dispute
                                   /\ dispute'[work[w].dispute].status = "RESOLVED"
<1>1. ASSUME NEW w \in Handlers, FinalizeRefund(w)
      PROVE  /\ entry[p] = None /\ work[w].payment = p /\ entry'[p] = work[w].dispute
             /\ dispute'[work[w].dispute].status = "RESOLVED"
  <2>1. work[w].dispute \in Disputes
    BY <1>1, Phase DEF FinalizeRefund, RefundOps
  <2> QED BY <1>1, <2>1 DEF FinalizeRefund, RefundTypeOK
<1>2. ASSUME NEW w \in Handlers, SettlePayment(w)
      PROVE  entry[p] = None /\ entry'[p] = Receipt
  BY <1>2 DEF SettlePayment, RefundTypeOK
<1>3. ASSUME NEW w \in Handlers, RecordRefund(w)
      PROVE  entry[p] = None /\ entry'[p] = Cancellation /\ Kind[p] = "ride"
  <2>1. p = work[w].payment /\ entry[p] = None /\ entry'[p] = Cancellation
    BY <1>3 DEF RecordRefund, RefundTypeOK
  <2> QED BY <1>3, <2>1 DEF RecordRefund, Doing, Own, Fits
<1>4. UNCHANGED entry \/ \E w \in Handlers : FinalizeRefund(w) \/ SettlePayment(w)
                                             \/ RecordRefund(w)
  BY DEF Next, Ask, Resume, ReadToOpen, ReadToClose, Resolve, RefundDirectly, CancelRide,
         UpdatePaymentStatus, Create, Close, LockIntent, CheckPayment, InitiateRefund,
         MarkPayment, CancelOrder, RefundFailed, Crash, vars, rows
<1> QED BY <1>1, <1>2, <1>3, <1>4

\* A refund is booked together with the state of its dispute.
LEMMA BookedTogether ==
  ASSUME RefundTypeOK, Own, [Next]_vars, NEW d \in Disputes,
         dispute'[d].refund = "COMPLETED"
  PROVE  \/ dispute[d].refund = "COMPLETED"
         \/ dispute[d].status # "NONE" /\ entry'[PaidBy[dispute[d].item]] = d
<1>1. ASSUME NEW w \in Handlers, FinalizeRefund(w), dispute[d].refund # "COMPLETED"
      PROVE  dispute[d].status # "NONE" /\ entry'[PaidBy[dispute[d].item]] = d
  <2>1. work[w].dispute \in Disputes /\ work[w].payment \in Payments
    BY <1>1, Phase DEF FinalizeRefund, RefundOps
  <2>2. work[w].dispute = d /\ entry'[work[w].payment] = d
    BY <1>1, <2>1 DEF FinalizeRefund, RefundTypeOK
  <2>3. d # None
    BY RefundAssumption DEF RefundAssumption
  <2> QED BY <1>1, <2>2, <2>3 DEF FinalizeRefund, Doing, Own, Fits, RefundOps
<1>2. ASSUME NEW w \in Handlers, Create(w) \/ Close(w) \/ LockIntent(w) \/ RefundFailed(w)
      PROVE  dispute[d].refund = "COMPLETED"
  BY <1>2 DEF Create, Close, LockIntent, RefundFailed, SetStatus, SetRefund, RefundTypeOK
<1> QED BY <1>1, <1>2, DisputesWritten

LEMMA MoneyInit == Init => MoneyWentBack /\ Sent
BY RefundAssumption DEF RefundAssumption, Init, MoneyWentBack, Sent, Doing

LEMMA MoneyNext ==
  RefundTypeOK /\ Own /\ Rows /\ Sent /\ MoneyWentBack /\ [Next]_vars => MoneyWentBack'
<1> SUFFICES ASSUME RefundTypeOK, Own, Rows, Sent, MoneyWentBack, [Next]_vars
             PROVE  MoneyWentBack'
  OBVIOUS
<1>1. ASSUME NEW p \in Payments
      PROVE  sent[p] > 0 => sent'[p] > 0
  BY <1>1, SentGrows
<1>2. ASSUME NEW p \in Payments,
             payment'[p] \in {"REFUNDED", "PARTIALLY_REFUNDED"} \/ p \in cancelled'
      PROVE  sent'[p] > 0
  BY <1>1, <1>2, MarkedOrCancelled DEF MoneyWentBack
<1>3. ASSUME NEW p \in Payments, entry'[p] \in Disputes
      PROVE  /\ sent'[p] > 0
             /\ PaidBy[dispute'[entry'[p]].item] = p
             /\ dispute'[entry'[p]].status \in {"RESOLVED", "REJECTED"}
  <2>1. CASE entry'[p] = entry[p]
    BY <1>1, <1>3, <2>1, DisputesStay DEF MoneyWentBack
  <2>2. ASSUME NEW w \in Handlers, FinalizeRefund(w), work[w].payment = p,
               entry'[p] = work[w].dispute, dispute'[work[w].dispute].status = "RESOLVED"
        PROVE  /\ sent'[p] > 0
               /\ PaidBy[dispute'[entry'[p]].item] = p
               /\ dispute'[entry'[p]].status \in {"RESOLVED", "REJECTED"}
    <3>1. sent[p] > 0
      BY <2>2 DEF FinalizeRefund, Sent
    <3>2. /\ dispute[work[w].dispute].status # "NONE"
          /\ PaidBy[dispute[work[w].dispute].item] = p
      BY <1>3, <2>2, RefundAssumption
         DEF RefundAssumption, FinalizeRefund, Doing, Own, Fits, RefundOps
    <3> QED BY <1>1, <1>3, <2>2, <3>1, <3>2, DisputesStay
  <2>3. entry'[p] # Receipt /\ entry'[p] # Cancellation
    BY <1>3, RefundAssumption DEF RefundAssumption
  <2> QED BY <2>1, <2>2, <2>3, EntryWritten
<1>4. ASSUME NEW p \in Payments, entry'[p] = Cancellation
      PROVE  Kind[p] = "ride"
  <2>1. ASSUME NEW w \in Handlers, FinalizeRefund(w), entry'[p] = work[w].dispute
        PROVE  FALSE
    <3>1. work[w].dispute \in Disputes
      BY <2>1, Phase DEF FinalizeRefund, RefundOps
    <3> QED BY <1>4, <2>1, <3>1, RefundAssumption DEF RefundAssumption
  <2> QED BY <1>4, <2>1, EntryWritten, RefundAssumption DEF RefundAssumption, MoneyWentBack
<1>5. ASSUME NEW d \in Disputes, dispute'[d].refund = "COMPLETED"
      PROVE  entry'[PaidBy[dispute'[d].item]] = d
  <2>1. CASE dispute[d].refund = "COMPLETED"
    <3> DEFINE p == PaidBy[dispute[d].item]
    <3>1. dispute[d].status # "NONE" /\ p \in Payments /\ entry[p] = d /\ d # None
      BY <2>1, RefundAssumption DEF RefundAssumption, Rows, MoneyWentBack
    <3>2. entry'[p] = d
      BY <3>1, EntryWritten
    <3> QED BY <3>1, <3>2, DisputesStay
  <2>2. CASE dispute[d].status # "NONE" /\ entry'[PaidBy[dispute[d].item]] = d
    BY <2>2, DisputesStay
  <2> QED BY <1>5, <2>1, <2>2, BookedTogether
<1> QED BY <1>2, <1>3, <1>4, <1>5 DEF MoneyWentBack
-----------------------------------------------------------------------------
(* One request at a time, and one refund.                                  *)

\* Resolve and RefundDirectly set the payment astray, if it is being refunded.
LEMMA Joined ==
  ASSUME Rows, NEW w \in Handlers, NEW p \in Payments,
         \/ \E d \in Disputes : Resolve(w, d) /\ PaidBy[dispute[d].item] = p
         \/ RefundDirectly(w, p),
         p \notin astray'
  PROVE  ~ \E v \in Handlers : Refunding(v, p)
BY DEF Resolve, RefundDirectly, Overlaps, Hidden

LEMMA SingleInit == Init => Single /\ Counted /\ Held
BY DEF Init, Single, Counted, Held, Refunding, LockedBy, NotYet

LEMMA SingleNext == RefundTypeOK /\ Own /\ Rows /\ Single /\ [Next]_vars => Single'
<1> SUFFICES ASSUME RefundTypeOK, Own, Rows, Single, [Next]_vars, NEW p \in Payments,
                    p \notin astray', NEW v \in Handlers, NEW w \in Handlers,
                    Refunding(v, p)', Refunding(w, p)', v # w
             PROVE  FALSE
  BY DEF Single
<1>1. p \notin astray
  BY AstrayGrows
<1>2. ~ (Refunding(v, p) /\ Refunding(w, p))
  BY <1>1 DEF Single
<1>3. ASSUME NEW x \in Handlers, NEW y \in Handlers, x # y, ~Refunding(x, p),
             Refunding(x, p)', Refunding(y, p)'
      PROVE  FALSE
  <2>1. /\ Ask(x)
        /\ \/ \E d \in Disputes : Resolve(x, d) /\ PaidBy[dispute[d].item] = p
           \/ RefundDirectly(x, p)
    BY <1>3, Begun DEF Refunding, Ask
  <2>2. ~Refunding(y, p)
    BY <2>1, Joined
  <2>3. work'[y] = work[y]
    BY <1>3, <2>1, Others
  <2> QED BY <1>3, <2>2, <2>3 DEF Refunding
<1> QED BY <1>2, <1>3

LEMMA PaymentWritten ==
  ASSUME RefundTypeOK, Own, [Next]_vars, NEW p \in Payments, p \notin astray',
         payment'[p] = "COMPLETED", payment[p] # "COMPLETED"
  PROVE  sent[p] = 0
<1>1. ASSUME NEW w \in Handlers, MarkPayment(w) \/ FinalizeRefund(w)
      PROVE  payment'[p] # "COMPLETED"
  BY <1>1 DEF MarkPayment, FinalizeRefund, Marks, RefundTypeOK
<1>2. ASSUME NEW w \in Handlers, SettlePayment(w)
      PROVE  sent[p] = 0
  <2>1. work[w].payment = p /\ work[w].to = "COMPLETED"
    BY <1>2 DEF SettlePayment, RefundTypeOK
  <2>2. ~ (sent[p] > 0)
    BY <1>2, <2>1 DEF SettlePayment, Hidden
  <2>3. sent[p] \in Nat
    BY RefundAssumption DEF RefundAssumption, RefundTypeOK
  <2> QED BY <2>2, <2>3
<1>3. \/ UNCHANGED payment
      \/ \E w \in Handlers : MarkPayment(w) \/ FinalizeRefund(w) \/ SettlePayment(w)
  BY DEF Next, Ask, Resume, ReadToOpen, ReadToClose, Resolve, RefundDirectly, CancelRide,
         UpdatePaymentStatus, Create, Close, LockIntent, CheckPayment, InitiateRefund,
         CancelOrder, RefundFailed, RecordRefund, Crash, vars, rows
<1> QED BY <1>1, <1>2, <1>3

\* The handler that made a refund marks the payment, or sets it astray.
LEMMA MarkIsDue ==
  ASSUME RefundTypeOK, Own, Rows, [Next]_vars, NEW p \in Payments, p \notin astray',
         NEW w \in Handlers, Refunding(w, p), work[w].op = "mark"
  PROVE  \/ work'[w] = work[w]
         \/ payment'[p] # "COMPLETED"
<1>1. CASE Crash
  BY <1>1 DEF Crash, Doing, Refunding
<1>2. CASE MarkPayment(w)
  <2>1. work[w].payment = p
    BY DEF Refunding
  <2> QED BY <1>2, <2>1 DEF MarkPayment, Hidden, Marks, RefundTypeOK
<1>3. ASSUME Ask(w) \/ Resume(w), ~MarkPayment(w)
      PROVE  FALSE
  <2>1. ~Ask(w)
    BY DEF Ask, ReadToOpen, ReadToClose, Resolve, RefundDirectly, CancelRide,
           UpdatePaymentStatus, Free,
           Refunding
  <2> QED BY <1>3, <2>1
          DEF Resume, Create, Close, LockIntent, CheckPayment, InitiateRefund, CancelOrder,
              RefundFailed, FinalizeRefund, SettlePayment, RecordRefund, Doing
<1> QED BY <1>1, <1>2, <1>3, Others DEF Next, vars

LEMMA CountedNext ==
  RefundTypeOK /\ Own /\ Rows /\ Single /\ Counted /\ [Next]_vars => Counted'
<1> SUFFICES ASSUME RefundTypeOK, Own, Rows, Single, Counted, [Next]_vars,
                    NEW p \in Payments, p \notin astray'
             PROVE  /\ sent'[p] <= 1
                    /\ sent'[p] > 0 =>
                         \/ payment'[p] # "COMPLETED"
                         \/ \E w \in Handlers : Refunding(w, p)' /\ work'[w].op = "mark"
                    /\ \A w \in Handlers : Refunding(w, p)' /\ work'[w].op = "refund"
                                             => sent'[p] = 0
  BY DEF Counted
<1>1. p \notin astray
  BY AstrayGrows
<1>2. sent[p] \in Nat /\ sent'[p] \in Nat
  BY SentGrows
<1>3. CASE sent'[p] # sent[p]
  <2>1. PICK v \in Handlers : InitiateRefund(v) /\ work[v].payment = p /\ sent'[p] = sent[p] + 1
    BY <1>3, SentGrows
  <2>2. Refunding(v, p) /\ work[v].op = "refund"
    BY <2>1 DEF InitiateRefund, Doing, Refunding, RefundOps
  <2>3. sent[p] = 0
    BY <1>1, <2>2 DEF Counted
  <2>4. Then(v, "mark")
    BY <1>2, <2>1 DEF InitiateRefund, Hidden
  <2>5. GoesOn(v, "mark")
    BY <2>2, <2>4, ThenMoves DEF Refunding, RefundOps
  <2>6. Refunding(v, p)' /\ work'[v].op = "mark"
    BY <2>1, <2>5 DEF GoesOn, Refunding, RefundOps
  <2>7. ASSUME NEW w \in Handlers, Refunding(w, p)'
        PROVE  work'[w].op = "mark"
    <3>1. Single'
      BY SingleNext
    <3> QED BY <2>6, <2>7, <3>1 DEF Single
  <2> QED BY <2>1, <2>3, <2>6, <2>7
<1>4. CASE sent'[p] = sent[p]
  <2>1. ASSUME sent'[p] > 0
        PROVE  \/ payment'[p] # "COMPLETED"
               \/ \E w \in Handlers : Refunding(w, p)' /\ work'[w].op = "mark"
    <3>1. CASE payment[p] # "COMPLETED"
      BY <1>2, <1>4, <2>1, <3>1, PaymentWritten
    <3>2. ASSUME NEW w \in Handlers, Refunding(w, p), work[w].op = "mark"
          PROVE  \/ payment'[p] # "COMPLETED"
                 \/ Refunding(w, p)' /\ work'[w].op = "mark"
      BY <3>2, MarkIsDue DEF Refunding
    <3> QED BY <1>1, <1>4, <2>1, <3>1, <3>2 DEF Counted
  <2>2. ASSUME NEW w \in Handlers, Refunding(w, p)', work'[w].op = "refund"
        PROVE  sent[p] = 0
    <3>1. CASE work'[w] = work[w]
      BY <1>1, <2>2, <3>1 DEF Counted, Refunding
    <3>2. CASE PhaseOf(w) /\ Refunding(w, p)
      <4>1. CheckPayment(w) /\ payment[p] = "COMPLETED"
        <5>1. work'[w] # None /\ work[w].payment = p
          BY <2>2, <3>2 DEF Refunding
        <5> QED BY <2>2, <3>2, <5>1, Turns DEF Refundable
      <4>2. ~ \E v \in Handlers : Refunding(v, p) /\ work[v].op = "mark"
        BY <1>1, <3>2, <4>1 DEF Single, CheckPayment, Doing
      <4> QED BY <1>1, <1>2, <4>1, <4>2 DEF Counted
    <3> QED BY <2>2, <3>1, <3>2, Begun
  <2>3. sent'[p] <= 1
    BY <1>1, <1>4 DEF Counted
  <2> QED BY <1>4, <2>1, <2>2, <2>3
<1> QED BY <1>3, <1>4
-----------------------------------------------------------------------------
(* The lock of a dispute.                                                  *)

LEMMA RefundWritten ==
  ASSUME RefundTypeOK, Own, [Next]_vars, NEW d \in Disputes, dispute[d].status # "NONE"
  PROVE  \/ dispute'[d].refund = dispute[d].refund
         \/ dispute'[d].refund = "PROCESSING"
         \/ dispute'[d].refund = "COMPLETED"
            /\ \E w \in Handlers : FinalizeRefund(w) /\ work[w].dispute = d
         \/ \E w \in Handlers : RefundFailed(w) /\ work[w].dispute = d
<1>1. ASSUME NEW w \in Handlers, FinalizeRefund(w)
      PROVE  \/ dispute'[d].refund = dispute[d].refund
             \/ dispute'[d].refund = "COMPLETED" /\ work[w].dispute = d
  BY <1>1 DEF FinalizeRefund, RefundTypeOK
<1>2. ASSUME NEW w \in Handlers, Create(w) \/ Close(w)
      PROVE  dispute'[d].refund = dispute[d].refund
  BY <1>2 DEF Create, Close, SetStatus, RefundTypeOK
<1>3. ASSUME NEW w \in Handlers, LockIntent(w)
      PROVE  dispute'[d].refund \in {dispute[d].refund, "PROCESSING"}
  BY <1>3 DEF LockIntent, SetRefund, RefundTypeOK
<1>4. ASSUME NEW w \in Handlers, RefundFailed(w)
      PROVE  dispute'[d].refund = dispute[d].refund \/ work[w].dispute = d
  BY <1>4 DEF RefundFailed, SetRefund, RefundTypeOK
<1> QED BY <1>1, <1>2, <1>3, <1>4, DisputesWritten

\* Nobody works on behalf of a dispute that is only created now.
LEMMA HeldFromStart ==
  ASSUME RefundTypeOK, Own, Rows, [Next]_vars, NEW d \in Disputes, dispute[d].status = "NONE"
  PROVE  /\ d \notin refunded'
         /\ \A w \in Handlers : ~LockedBy(work'[w], d) /\ ~NotYet(work'[w], d)
<1>1. d # None
  BY RefundAssumption DEF RefundAssumption
<1>2. \A w \in Handlers : Refunding(w, work[w].payment) => work[w].dispute # d
  BY <1>1 DEF Own, Fits, Refunding
<1>3. d \notin refunded'
  <2>1. ASSUME NEW w \in Handlers, InitiateRefund(w)
        PROVE  work[w].dispute # d
    BY <1>2, <2>1 DEF InitiateRefund, Doing, Refunding, RefundOps
  <2> QED BY <2>1, RefundedBy DEF Rows
<1>4. ASSUME NEW w \in Handlers, LockedBy(work'[w], d) \/ NotYet(work'[w], d)
      PROVE  FALSE
  <2>1. PICK p : work'[w].payment = p
    OBVIOUS
  <2>2. Refunding(w, p)' /\ work'[w].dispute = d
    BY <1>4, <2>1 DEF LockedBy, NotYet, Refunding, RefundOps
  <2>3. work[w].dispute = d => ~Refunding(w, p)
    BY <1>2 DEF Refunding
  <2>4. CASE work'[w] = work[w]
    BY <2>2, <2>3, <2>4 DEF Refunding
  <2>5. CASE PhaseOf(w) /\ Refunding(w, p)
    BY <2>2, <2>3, <2>5, Turns DEF GoesOn, Refunding
  <2> QED BY <1>1, <2>2, <2>4, <2>5, Begun DEF Resolve
<1> QED BY <1>3, <1>4

LEMMA HeldNext ==
  RefundTypeOK /\ Own /\ Rows /\ Single /\ Held /\ [Next]_vars => Held'
<1> SUFFICES ASSUME RefundTypeOK, Own, Rows, Single, Held, [Next]_vars, NEW d \in Disputes,
                    dispute'[d].status # "NONE", PaidBy[dispute'[d].item] \notin astray'
             PROVE  /\ d \in refunded' => dispute'[d].refund \in {"PROCESSING", "COMPLETED"}
                    /\ \A w \in Handlers :
                         /\ LockedBy(work'[w], d) => dispute'[d].refund = "PROCESSING"
                         /\ NotYet(work'[w], d) => d \notin refunded'
  BY DEF Held, LockedBy, NotYet
<1> SUFFICES ASSUME dispute[d].status # "NONE"
             PROVE  /\ d \in refunded' => dispute'[d].refund \in {"PROCESSING", "COMPLETED"}
                    /\ \A w \in Handlers :
                         /\ LockedBy(work'[w], d) => dispute'[d].refund = "PROCESSING"
                         /\ NotYet(work'[w], d) => d \notin refunded'
  BY HeldFromStart
<1> DEFINE p == PaidBy[dispute[d].item]
<1>1. /\ p \in Payments /\ p \notin astray /\ p \notin astray' /\ d # None
      /\ PaidBy[dispute'[d].item] = p
  BY DisputesStay, AstrayGrows, RefundAssumption DEF RefundAssumption, Rows
<1>2. /\ d \in refunded => dispute[d].refund \in {"PROCESSING", "COMPLETED"}
      /\ \A w \in Handlers : /\ LockedBy(work[w], d) => dispute[d].refund = "PROCESSING"
                             /\ NotYet(work[w], d) => d \notin refunded
  BY <1>1 DEF Held
<1>3. ASSUME NEW v \in Handlers, NEW w \in Handlers, work[v] # None, work[w] # None,
             work[v].op \in RefundOps, work[w].op \in RefundOps,
             work[v].dispute = d, work[w].dispute = d
      PROVE  v = w /\ Refunding(v, p)
  BY <1>1, <1>3 DEF Own, Fits, Single, Refunding
<1>4. ASSUME NEW w \in Handlers, InitiateRefund(w), work[w].dispute = d
      PROVE  LockedBy(work[w], d) /\ UNCHANGED dispute
  BY <1>4 DEF InitiateRefund, Doing, LockedBy, rows
<1>5. ASSUME NEW w \in Handlers, RefundFailed(w), work[w].dispute = d
      PROVE  NotYet(work[w], d) /\ UNCHANGED refunded
  BY <1>5 DEF RefundFailed, Doing, NotYet
<1>6. d \in refunded' => dispute'[d].refund \in {"PROCESSING", "COMPLETED"}
  <2>1. CASE d \in refunded
    BY <1>2, <1>5, <2>1, RefundWritten
  <2>2. CASE d \in refunded' /\ d \notin refunded
    BY <1>2, <1>4, <2>2, RefundedBy
  <2> QED BY <2>1, <2>2
<1>7. ASSUME NEW w \in Handlers, LockedBy(work'[w], d) \/ NotYet(work'[w], d)
      PROVE  \/ work'[w] = work[w]
             \/ PhaseOf(w) /\ work[w] # None /\ work[w].op \in RefundOps
                /\ work[w].dispute = d /\ work[w].payment = p
             \/ work'[w].op = "lock" /\ Resolve(w, d)
  <2>1. PICK q : work'[w].payment = q
    OBVIOUS
  <2>2. Refunding(w, q)' /\ work'[w].dispute = d
    BY <1>7, <2>1 DEF LockedBy, NotYet, Refunding, RefundOps
  <2>3. CASE PhaseOf(w) /\ Refunding(w, q)
    <3>1. work[w] # None /\ work[w].op \in RefundOps /\ work[w].dispute = d
      BY <2>2, <2>3, Turns DEF GoesOn, Refunding
    <3> QED BY <1>1, <2>3, <3>1 DEF Own, Fits
  <2> QED BY <1>1, <2>2, <2>3, Begun
<1>8. ASSUME NEW w \in Handlers, LockedBy(work'[w], d)
      PROVE  dispute'[d].refund = "PROCESSING"
  <2>1. CASE work'[w] = work[w]
    <3>1. dispute[d].refund = "PROCESSING" /\ work[w] # None /\ work[w].op \in RefundOps
          /\ work[w].op # "fail" /\ work[w].dispute = d
      BY <1>2, <1>8, <2>1 DEF LockedBy, RefundOps
    <3>2. ASSUME NEW v \in Handlers, RefundFailed(v), work[v].dispute = d
          PROVE  FALSE
      BY <1>3, <3>1, <3>2 DEF RefundFailed, Doing, RefundOps
    <3>3. ASSUME NEW v \in Handlers, FinalizeRefund(v), work[v].dispute = d
          PROVE  FALSE
      <4>1. v = w
        BY <1>3, <3>1, <3>3 DEF FinalizeRefund, Doing, RefundOps
      <4>2. work'[v] = None
        BY <3>3, ReturnMoves DEF FinalizeRefund, Unbooked, Ends
      <4> QED BY <2>1, <3>1, <4>1, <4>2
    <3> QED BY <3>1, <3>2, <3>3, RefundWritten
  <2>2. CASE PhaseOf(w) /\ work[w] # None /\ work[w].dispute = d /\ work[w].payment = p
    <3>1. CASE LockIntent(w)
      BY <2>2, <3>1 DEF LockIntent, SetRefund, RefundTypeOK
    <3>2. CASE CheckPayment(w) \/ InitiateRefund(w) \/ MarkPayment(w) \/ CancelOrder(w)
      <4>1. LockedBy(work[w], d) /\ UNCHANGED dispute
        BY <2>2, <3>2 DEF CheckPayment, InitiateRefund, MarkPayment, CancelOrder, Doing,
                          LockedBy, rows
      <4> QED BY <1>2, <4>1
    <3> QED BY <1>8, <2>2, <3>1, <3>2, Turns DEF LockedBy
  <2> QED BY <1>7, <1>8, <2>1, <2>2 DEF LockedBy
<1>9. ASSUME NEW w \in Handlers, NotYet(work'[w], d)
      PROVE  d \notin refunded'
  <2>1. CASE work'[w] = work[w]
    <3>1. d \notin refunded /\ work[w] # None /\ work[w].op \in RefundOps /\ work[w].dispute = d
      BY <1>2, <1>9, <2>1 DEF NotYet, RefundOps
    <3>2. ASSUME NEW v \in Handlers, InitiateRefund(v), work[v].dispute = d
          PROVE  FALSE
      <4>1. v = w /\ work[w].op = "refund"
        BY <1>3, <3>1, <3>2 DEF InitiateRefund, Doing, RefundOps
      <4>2. work'[w].op # "refund"
        BY <2>1, <3>1, <3>2, <4>1, Turns DEF PhaseOf, CheckPayment, Doing
      <4> QED BY <2>1, <4>1, <4>2
    <3> QED BY <3>1, <3>2, RefundedBy
  <2>2. CASE PhaseOf(w) /\ work[w] # None /\ work[w].dispute = d /\ work[w].payment = p
    <3>1. LockIntent(w) \/ CheckPayment(w) \/ (InitiateRefund(w) /\ UNCHANGED refunded)
      BY <1>1, <1>9, <2>2, Turns DEF NotYet
    <3>2. NotYet(work[w], d) /\ UNCHANGED refunded
      BY <2>2, <3>1 DEF LockIntent, CheckPayment, InitiateRefund, Doing, NotYet
    <3> QED BY <1>2, <3>2
  <2>3. CASE Resolve(w, d)
    <3>1. d \notin refunded
      BY <1>2, <2>3 DEF Resolve, Rows
    <3> QED BY <2>3, <3>1 DEF Resolve
  <2> QED BY <1>7, <1>9, <2>1, <2>2, <2>3
<1> QED BY <1>6, <1>8, <1>9
-----------------------------------------------------------------------------
(* The invariant, and what follows from it.                                *)

LEMMA Inductive == Spec => []IInv
<1>1. Init => IInv
  BY TypedInit, OwnInit, MoneyInit, SingleInit DEF IInv
<1>2. IInv /\ [Next]_vars => IInv'
  BY TypedNext, OwnNext, RowsNext, SentNext, MoneyNext, SingleNext, CountedNext, HeldNext
     DEF IInv
<1> QED BY <1>1, <1>2, PTL DEF Spec

(* The rows, the requests and the counts of refunds have their types,      *)
(* whatever the requests read before they wrote.                           *)
THEOREM RefundTypeCorrect == Spec => []RefundTypeOK
<1>1. IInv => RefundTypeOK
  BY DEF IInv
<1> QED BY <1>1, Inductive, PTL

(* processRefund refunds a payment once, unless two requests for it        *)
(* overlapped or the outcome of one was hidden from the program.           *)
THEOREM RefundsOnce == Spec => []RefundedOnce
<1>1. IInv => RefundedOnce
  BY DEF IInv, Counted, RefundedOnce
<1> QED BY <1>1, Inductive, PTL

(* executeSafeRefundFlow unlocks no dispute whose refund was made.         *)
THEOREM FailuresSentNothing == Spec => []FailureSentNothing
<1>1. IInv => FailureSentNothing
  BY DEF IInv, RefundTypeOK, Rows, Held, FailureSentNothing
<1> QED BY <1>1, Inductive, PTL

(* Refunded payments, cancelled orders and the refunds the program books   *)
(* for disputes are backed by a refund of the gateway, and by the dispute, *)
(* and only the cancellation of a ride enters a refund besides.            *)
THEOREM BookingsBacked == Spec => []MoneyWentBack
<1>1. IInv => MoneyWentBack
  BY DEF IInv
<1> QED BY <1>1, Inductive, PTL
=============================================================================
