--------------------------- MODULE PayoutsProofs ---------------------------
(***************************************************************************)
(* Proofs about Payouts, for any riders, stores, payouts and handlers and  *)
(* any bound on the transfers.                                             *)
(***************************************************************************)
EXTENDS Payouts, FiniteSums

(* A handler that is about to write PAID or COMPLETED has seen a transfer: *)
(* why PaidMeansSent is inductive.                                         *)
Paying == \A w \in Handlers :
  work[w] # Idle /\ work[w].op \in {"finish", "mark", "finalize"} /\ work[w].to = "PAID"
    => transfers[work[w].p] > 0

IInv == /\ PayoutTypeOK
        /\ NeverOverdrawn
        /\ RejectedIsRefunded
        /\ PaidMeansSent
        /\ Paying

LEMMA AmountsNat == \A a \in Amounts \cup {0} : a \in Nat
BY PayoutAssumption DEF PayoutAssumption

(* Writing a status keeps the type of the rows.                            *)
LEMMA RowsTyped ==
  ASSUME PayoutTypeOK, NEW p \in Payouts, NEW st \in RowStatus, SetStatus(p, st)
  PROVE  payout' \in [Payouts -> [status : RowStatus, payee : Payees \cup {Idle}]]
BY DEF PayoutTypeOK, SetStatus

USE DEF RowStatus, PayoutStatus, Final, Payees
-----------------------------------------------------------------------------
(* The tasks of a handler and the pieces of a step.                        *)

LEMMA TaskFields ==
  ASSUME PayoutTypeOK, NEW w \in Handlers, work[w] # Idle
  PROVE  /\ work[w] \in Task
         /\ work[w].p \in Payouts
         /\ work[w].op = "record" => work[w].a \in Amounts
         /\ work[w].op = "settle" => work[w].to \in {"APPROVED", "PENDING"}
         /\ work[w].op = "finish" => work[w].to = "PAID"
         /\ work[w].op \in {"mark", "finalize"} => work[w].to \in Final
BY DEF PayoutTypeOK, Task

LEMMA HandlerMoves ==
  ASSUME PayoutTypeOK, NEW w \in Handlers, NEW x \in Task \cup {Idle}, Do(w, x)
  PROVE  work' \in [Handlers -> Task \cup {Idle}]
BY DEF PayoutTypeOK, Do

(* A handler that gets no PAID task without a transfer keeps Paying.       *)
LEMMA PayingKept ==
  ASSUME PayoutTypeOK, Paying, NEW w \in Handlers, NEW x, Do(w, x),
         transfers' \in [Payouts -> Nat],
         \A p \in Payouts : transfers'[p] >= transfers[p],
         x # Idle /\ x.op \in {"finish", "mark", "finalize"} /\ x.to = "PAID"
           => transfers'[x.p] > 0
  PROVE  Paying'
<1> SUFFICES ASSUME NEW v \in Handlers, work'[v] # Idle,
                    work'[v].op \in {"finish", "mark", "finalize"}, work'[v].to = "PAID"
             PROVE  transfers'[work'[v].p] > 0
  BY DEF Paying
<1>1. CASE v = w
  BY <1>1 DEF Do, PayoutTypeOK
<1>2. CASE v # w
  <2>1. work'[v] = work[v] /\ work[v].p \in Payouts
    BY <1>2, TaskFields DEF Do, PayoutTypeOK
  <2>2. transfers[work[v].p] > 0 /\ transfers'[work[v].p] >= transfers[work[v].p]
    BY <2>1 DEF Paying
  <2> QED BY <2>1, <2>2 DEF PayoutTypeOK
<1> QED BY <1>1, <1>2

LEMMA Sending ==
  ASSUME PayoutTypeOK, NEW p \in Payouts, Transferred(p)
  PROVE  /\ transfers' \in [Payouts -> Nat]
         /\ transfers'[p] > 0
         /\ \A q \in Payouts : transfers'[q] >= transfers[q]
BY DEF PayoutTypeOK, Transferred

LEMMA NotSending ==
  ASSUME PayoutTypeOK, UNCHANGED transfers
  PROVE  /\ transfers' \in [Payouts -> Nat]
         /\ \A q \in Payouts : transfers'[q] >= transfers[q]
BY DEF PayoutTypeOK

(* A step that moves no money and no status, except that it may transfer.  *)
LEMMA OnlyTransfers ==
  ASSUME PayoutTypeOK, NeverOverdrawn, RejectedIsRefunded, PaidMeansSent,
         UNCHANGED <<wallet, rows>>,
         transfers' \in [Payouts -> Nat],
         \A q \in Payouts : transfers'[q] >= transfers[q]
  PROVE  NeverOverdrawn' /\ RejectedIsRefunded' /\ PaidMeansSent'
BY DEF PayoutTypeOK, NeverOverdrawn, RejectedIsRefunded, PaidMeansSent, rows

(* A write of the status alone.                                            *)
LEMMA StatusWritten ==
  ASSUME PayoutTypeOK, RejectedIsRefunded, PaidMeansSent,
         NEW p \in Payouts, NEW st \in RowStatus \ {"REJECTED"}, SetStatus(p, st),
         UNCHANGED <<request, refunds, transfers>>,
         st = "PAID" => transfers[p] > 0
  PROVE  /\ payout' \in [Payouts -> [status : RowStatus, payee : Payees \cup {Idle}]]
         /\ RejectedIsRefunded'
         /\ PaidMeansSent'
<1>1. payout' \in [Payouts -> [status : RowStatus, payee : Payees \cup {Idle}]]
  BY RowsTyped
<1>2. RejectedIsRefunded' /\ PaidMeansSent'
  BY DEF PayoutTypeOK, RejectedIsRefunded, PaidMeansSent, SetStatus
<1> QED BY <1>1, <1>2

LEMMA Refund ==
  ASSUME PayoutTypeOK, NeverOverdrawn, NEW p \in Payouts, FinalizeFailed(p)
  PROVE  /\ wallet' \in [Payees -> Int]
         /\ NeverOverdrawn'
         /\ request' \in [Payouts -> [status : {"NONE", "PENDING", "COMPLETED", "FAILED"},
                                      amount : Amounts \cup {0}]]
         /\ refunds' \in [Payouts -> Nat]
         /\ refunds'[p] > 0
         /\ \A q \in Payouts : refunds'[q] >= refunds[q]
         /\ \A q \in Payouts : request'[q].status = "COMPLETED"
                                 => request[q].status = "COMPLETED"
<1>0. request[p].amount \in Amounts \cup {0}
  BY DEF PayoutTypeOK
<1>1. request[p].amount \in Nat
  BY <1>0, AmountsNat
<1>2. PayeeOf(p) \in Payees
  BY DEF FinalizeFailed, Refundable
<1>3. wallet' = [wallet EXCEPT ![PayeeOf(p)] = @ + request[p].amount]
  BY DEF FinalizeFailed
<1>4. wallet' \in [Payees -> Int] /\ NeverOverdrawn'
  BY <1>1, <1>2, <1>3 DEF PayoutTypeOK, NeverOverdrawn
<1>5. request' \in [Payouts -> [status : {"NONE", "PENDING", "COMPLETED", "FAILED"},
                                amount : Amounts \cup {0}]]
  BY DEF PayoutTypeOK, FinalizeFailed
<1>6. refunds' \in [Payouts -> Nat] /\ refunds'[p] > 0
      /\ \A q \in Payouts : refunds'[q] >= refunds[q]
  BY DEF PayoutTypeOK, FinalizeFailed
<1>7. \A q \in Payouts : request'[q].status = "COMPLETED" => request[q].status = "COMPLETED"
  BY DEF PayoutTypeOK, FinalizeFailed
<1> QED BY <1>4, <1>5, <1>6, <1>7

LEMMA Completed ==
  ASSUME PayoutTypeOK, PaidMeansSent, NEW p \in Payouts, FinalizeCompleted(p),
         transfers[p] > 0
  PROVE  /\ request' \in [Payouts -> [status : {"NONE", "PENDING", "COMPLETED", "FAILED"},
                                      amount : Amounts \cup {0}]]
         /\ \A q \in Payouts : request'[q].status = "COMPLETED" => transfers[q] > 0
BY DEF PayoutTypeOK, FinalizeCompleted, PaidMeansSent
-----------------------------------------------------------------------------
(* The steps of a handler.                                                 *)

LEMMA RecordStep ==
  ASSUME IInv, NEW w \in Handlers, Record(w)
  PROVE  IInv'
<1> DEFINE p == work[w].p
           a == work[w].a
<1>1. work[w] # Idle /\ p \in Payouts /\ a \in Amounts
  BY TaskFields DEF IInv, Record, Doing
<1>2. a \in Nat
  BY <1>1, PayoutAssumption DEF PayoutAssumption
<1>3. UNCHANGED <<payout, refunds, transfers>>
  BY DEF Record
<1>4. PICK x \in {[op |-> "pay", p |-> p], [op |-> "undo", p |-> p], Idle} : Do(w, x)
  BY DEF Record, Return
<1>5. x \in Task \cup {Idle} /\ (x # Idle => x.op \in {"pay", "undo"})
  BY <1>1, <1>4 DEF Task
<1>6. work' \in [Handlers -> Task \cup {Idle}] /\ Paying'
  <2>1. transfers' \in [Payouts -> Nat] /\ \A q \in Payouts : transfers'[q] >= transfers[q]
    BY <1>3, NotSending DEF IInv
  <2> QED BY <1>4, <1>5, <2>1, HandlerMoves, PayingKept DEF IInv
<1>7. wallet' \in [Payees -> Int] /\ NeverOverdrawn'
  <2>1. CASE RecordPayoutRequest(p, a)
    <3>1. wallet[PayeeOf(p)] >= a /\ wallet' = [wallet EXCEPT ![PayeeOf(p)] = @ - a]
      BY <2>1 DEF RecordPayoutRequest, Affordable
    <3>2. wallet \in [Payees -> Int] /\ \A e \in Payees : wallet[e] >= 0
      BY DEF IInv, PayoutTypeOK, NeverOverdrawn
    <3>3. ASSUME NEW e \in Payees
          PROVE  wallet'[e] \in Int /\ wallet'[e] >= 0
      <4>1. CASE e = PayeeOf(p)
        BY <1>2, <3>1, <3>2, <4>1
      <4>2. CASE e # PayeeOf(p)
        BY <3>1, <3>2, <4>2
      <4> QED BY <4>1, <4>2
    <3>4. wallet' = [e \in Payees |-> wallet'[e]]
      BY <3>1, <3>2
    <3> QED BY <3>3, <3>4 DEF NeverOverdrawn
  <2>2. CASE UNCHANGED wallet
    BY <2>2 DEF IInv, PayoutTypeOK, NeverOverdrawn
  <2> QED BY <2>1, <2>2 DEF Record
<1>8. request' \in [Payouts -> [status : {"NONE", "PENDING", "COMPLETED", "FAILED"},
                                amount : Amounts \cup {0}]]
  BY <1>1 DEF Record, RecordPayoutRequest, IInv, PayoutTypeOK
<1>9. \A q \in Payouts : request'[q].status = "COMPLETED" => request[q].status = "COMPLETED"
  BY <1>1 DEF Record, RecordPayoutRequest, IInv, PayoutTypeOK
<1>10. RejectedIsRefunded' /\ PaidMeansSent'
  BY <1>3, <1>9 DEF IInv, RejectedIsRefunded, PaidMeansSent
<1> QED BY <1>3, <1>6, <1>7, <1>8, <1>10 DEF IInv, PayoutTypeOK

(* A step that only writes a status, with the task that follows it.        *)
LEMMA StatusStep ==
  ASSUME IInv, NEW w \in Handlers, NEW p \in Payouts,
         NEW st \in RowStatus \ {"REJECTED"}, SetStatus(p, st),
         st = "PAID" => transfers[p] > 0,
         NEW x \in Task \cup {Idle}, Do(w, x),
         x # Idle /\ x.op \in {"finish", "mark", "finalize"} /\ x.to = "PAID"
           => transfers[x.p] > 0,
         UNCHANGED <<wallet, request, refunds, transfers>>
  PROVE  IInv'
<1>1. payout' \in [Payouts -> [status : RowStatus, payee : Payees \cup {Idle}]]
      /\ RejectedIsRefunded' /\ PaidMeansSent'
  BY StatusWritten DEF IInv
<1>2. transfers' \in [Payouts -> Nat] /\ \A q \in Payouts : transfers'[q] >= transfers[q]
  BY NotSending DEF IInv
<1>3. work' \in [Handlers -> Task \cup {Idle}] /\ Paying'
  BY <1>2, HandlerMoves, PayingKept DEF IInv
<1> QED BY <1>1, <1>2, <1>3 DEF IInv, PayoutTypeOK, NeverOverdrawn

(* A step that moves no status and no money of a wallet.                   *)
LEMMA TransferStep ==
  ASSUME IInv, NEW w \in Handlers, NEW p \in Payouts,
         Transferred(p) \/ UNCHANGED transfers,
         NEW x \in Task \cup {Idle}, Do(w, x) \/ (UNCHANGED work /\ x = work[w]),
         x # Idle /\ x.op \in {"finish", "mark", "finalize"} /\ x.to = "PAID"
           => x = work[w] \/ (x.p = p /\ Transferred(p)),
         UNCHANGED <<wallet, rows>>
  PROVE  IInv'
<1>1. transfers' \in [Payouts -> Nat] /\ \A q \in Payouts : transfers'[q] >= transfers[q]
  BY Sending, NotSending DEF IInv
<1>2. NeverOverdrawn' /\ RejectedIsRefunded' /\ PaidMeansSent'
  BY <1>1, OnlyTransfers DEF IInv
<1>3. Do(w, x)
  BY DEF Do, IInv, PayoutTypeOK
<1>4. x # Idle /\ x.op \in {"finish", "mark", "finalize"} /\ x.to = "PAID"
        => transfers'[x.p] > 0
  <2> SUFFICES ASSUME x # Idle, x.op \in {"finish", "mark", "finalize"}, x.to = "PAID"
               PROVE  transfers'[x.p] > 0
    OBVIOUS
  <2>1. CASE x = work[w]
    <3>1. transfers[x.p] > 0 /\ x.p \in Payouts
      BY <2>1, TaskFields DEF IInv, Paying
    <3> QED BY <1>1, <3>1 DEF IInv, PayoutTypeOK
  <2>2. CASE x.p = p /\ Transferred(p)
    BY <2>2, Sending DEF IInv
  <2> QED BY <2>1, <2>2
<1>5. work' \in [Handlers -> Task \cup {Idle}] /\ Paying'
  BY <1>1, <1>3, <1>4, HandlerMoves, PayingKept DEF IInv
<1> QED BY <1>1, <1>2, <1>5 DEF IInv, PayoutTypeOK, rows

(* A refund, with or without a status.                                     *)
LEMMA RefundStep ==
  ASSUME IInv, NEW w \in Handlers, NEW p \in Payouts, FinalizeFailed(p),
         UNCHANGED payout \/ SetStatus(p, "REJECTED") \/ SetStatus(p, "FAILED"),
         NEW x \in Task \cup {Idle}, Do(w, x),
         x # Idle => x.op = "fail",
         UNCHANGED transfers
  PROVE  IInv'
<1>1. /\ wallet' \in [Payees -> Int] /\ NeverOverdrawn'
      /\ request' \in [Payouts -> [status : {"NONE", "PENDING", "COMPLETED", "FAILED"},
                                   amount : Amounts \cup {0}]]
      /\ refunds' \in [Payouts -> Nat] /\ refunds'[p] > 0
      /\ \A q \in Payouts : refunds'[q] >= refunds[q]
      /\ \A q \in Payouts : request'[q].status = "COMPLETED"
                              => request[q].status = "COMPLETED"
  BY Refund DEF IInv
<1>2. payout' \in [Payouts -> [status : RowStatus, payee : Payees \cup {Idle}]]
  <2>1. ASSUME NEW st \in RowStatus, SetStatus(p, st)
        PROVE  payout' \in [Payouts -> [status : RowStatus, payee : Payees \cup {Idle}]]
    BY <2>1, RowsTyped DEF IInv
  <2>2. CASE UNCHANGED payout
    BY <2>2 DEF IInv, PayoutTypeOK
  <2> QED BY <2>1, <2>2
<1>3. \A q \in Payouts : q # p => payout'[q] = payout[q]
  BY DEF IInv, PayoutTypeOK, SetStatus
<1>4. payout'[p].status = payout[p].status \/ payout'[p].status \in {"REJECTED", "FAILED"}
  BY DEF IInv, PayoutTypeOK, SetStatus
<1>5. RejectedIsRefunded'
  <2> SUFFICES ASSUME NEW q \in Payouts, payout'[q].status = "REJECTED"
               PROVE  refunds'[q] > 0
    BY DEF RejectedIsRefunded
  <2>1. CASE q = p
    BY <1>1, <2>1
  <2>2. CASE q # p
    <3>1. refunds[q] > 0 /\ refunds[q] \in Nat
      BY <1>3, <2>2 DEF IInv, RejectedIsRefunded, PayoutTypeOK
    <3> QED BY <1>1, <3>1
  <2> QED BY <2>1, <2>2
<1>6. PaidMeansSent'
  BY <1>1, <1>3, <1>4 DEF IInv, PaidMeansSent
<1>7. transfers' \in [Payouts -> Nat] /\ \A q \in Payouts : transfers'[q] >= transfers[q]
  BY NotSending DEF IInv
<1>8. work' \in [Handlers -> Task \cup {Idle}] /\ Paying'
  BY <1>7, HandlerMoves, PayingKept DEF IInv
<1> QED BY <1>1, <1>2, <1>5, <1>6, <1>7, <1>8 DEF IInv, PayoutTypeOK

(* The ledger is told of a transfer that was made.                         *)
LEMMA CompleteStep ==
  ASSUME IInv, NEW w \in Handlers, NEW p \in Payouts, FinalizeCompleted(p),
         transfers[p] > 0, UNCHANGED payout \/ SetStatus(p, "PAID"),
         Return(w), UNCHANGED transfers
  PROVE  IInv'
<1>1. /\ request' \in [Payouts -> [status : {"NONE", "PENDING", "COMPLETED", "FAILED"},
                                   amount : Amounts \cup {0}]]
      /\ \A q \in Payouts : request'[q].status = "COMPLETED" => transfers[q] > 0
      /\ UNCHANGED <<wallet, refunds>>
  BY Completed DEF IInv, FinalizeCompleted
<1>2. payout' \in [Payouts -> [status : RowStatus, payee : Payees \cup {Idle}]]
  BY RowsTyped DEF IInv, PayoutTypeOK
<1>3. \A q \in Payouts : payout'[q] = payout[q] \/ (q = p /\ payout'[q].status = "PAID")
  BY DEF IInv, PayoutTypeOK, SetStatus
<1>4. RejectedIsRefunded' /\ PaidMeansSent' /\ NeverOverdrawn'
  BY <1>1, <1>3 DEF IInv, RejectedIsRefunded, PaidMeansSent, NeverOverdrawn
<1>5. transfers' \in [Payouts -> Nat] /\ \A q \in Payouts : transfers'[q] >= transfers[q]
  BY NotSending DEF IInv
<1>6. work' \in [Handlers -> Task \cup {Idle}] /\ Paying'
  BY <1>5, HandlerMoves, PayingKept DEF IInv, Return
<1> QED BY <1>1, <1>2, <1>4, <1>5, <1>6 DEF IInv, PayoutTypeOK
-----------------------------------------------------------------------------
(* The steps of the specification.                                         *)

LEMMA ResumeStep ==
  ASSUME IInv, NEW w \in Handlers, Resume(w)
  PROVE  IInv'
<1> DEFINE p == work[w].p
<1> SUFFICES ASSUME ~ Record(w) PROVE IInv'
  BY RecordStep
<1>1. work[w] # Idle /\ p \in Payouts
  BY TaskFields DEF IInv, Resume, UndoWithdrawal, InitiateVendorTransfer,
     SettleVendorPayout, LockPayout, DisbursePayment, FinishApproval, CommitRejection,
     MarkFailed, MarkProcessed, FinalizeProcessed, Doing
<1>2. /\ work[w].op = "settle" => work[w].to \in {"APPROVED", "PENDING"}
      /\ work[w].op \in {"mark", "finalize"} => work[w].to \in Final
  BY <1>1, TaskFields DEF IInv
<1>5. CASE UndoWithdrawal(w)
  <2>1. CASE SetStatus(p, "DELETED")
    BY <1>1, <1>5, <2>1, StatusStep DEF UndoWithdrawal, Return
  <2>2. CASE UNCHANGED payout
    BY <1>1, <1>5, <2>2, TransferStep DEF UndoWithdrawal, Return, rows
  <2> QED BY <1>5, <2>1, <2>2 DEF UndoWithdrawal
<1>6. CASE InitiateVendorTransfer(w)
  <2>1. PICK x \in {[op |-> "settle", p |-> p, to |-> "APPROVED"],
                    [op |-> "settle", p |-> p, to |-> "PENDING"], Idle} : Do(w, x)
    BY <1>6 DEF InitiateVendorTransfer, Return
  <2>2. x \in Task \cup {Idle} /\ (x # Idle => x.op = "settle")
    BY <1>1, <2>1 DEF Task
  <2> QED BY <1>1, <1>6, <2>1, <2>2, TransferStep DEF InitiateVendorTransfer, Unknown
<1>7. CASE SettleVendorPayout(w)
  BY <1>1, <1>2, <1>7, StatusStep DEF SettleVendorPayout, Return, Doing
<1>8. CASE LockPayout(w)
  <2> DEFINE x == [op |-> "disburse", p |-> p]
  <2>1. CASE SetStatus(p, "APPROVED") /\ Do(w, x)
    <3>1. x \in Task /\ x.op = "disburse"
      BY <1>1 DEF Task
    <3> HIDE DEF x
    <3> QED BY <1>1, <1>8, <2>1, <3>1, StatusStep DEF LockPayout
  <2>2. CASE UNCHANGED payout /\ Return(w)
    BY <1>1, <1>8, <2>2, TransferStep DEF LockPayout, Return, rows
  <2> QED BY <1>8, <2>1, <2>2 DEF LockPayout
<1>9. CASE DisbursePayment(w)
  <2> DEFINE paid == [op |-> "finish", p |-> p, to |-> "PAID"]
  <2>1. paid \in Task /\ paid.p = p
    BY <1>1 DEF Task
  <2>2. UNCHANGED <<wallet, rows>>
    BY <1>9 DEF DisbursePayment
  <2>3. (Transferred(p) /\ Do(w, paid)) \/ (Unknown(p) /\ Return(w))
    BY <1>9 DEF DisbursePayment
  <2> HIDE DEF paid
  <2>4. CASE Transferred(p) /\ Do(w, paid)
    BY <1>1, <2>1, <2>2, <2>4, TransferStep
  <2>5. CASE Unknown(p) /\ Return(w)
    BY <1>1, <2>2, <2>5, TransferStep DEF Unknown, Return
  <2> QED BY <2>3, <2>4, <2>5
<1>10. CASE FinishApproval(w)
  <2>1. work[w].op = "finish" /\ work[w].to = "PAID"
    BY <1>1, <1>10, TaskFields DEF FinishApproval, Doing, IInv
  <2>2. transfers[p] > 0
    BY <1>1, <2>1 DEF IInv, Paying
  <2> QED BY <1>1, <1>10, <2>1, <2>2, CompleteStep DEF FinishApproval
<1>11. CASE CommitRejection(w)
  <2>1. Return(w) /\ UNCHANGED transfers
    BY <1>11 DEF CommitRejection
  <2>2. CASE SetStatus(p, "REJECTED") /\ FinalizeFailed(p)
    BY <1>1, <2>1, <2>2, RefundStep DEF Return
  <2>3. CASE UNCHANGED <<wallet, rows>>
    BY <1>1, <2>1, <2>3, TransferStep DEF Return
  <2> QED BY <1>11, <2>2, <2>3 DEF CommitRejection
<1>12. CASE MarkFailed(w)
  BY <1>1, <1>12, StatusStep DEF MarkFailed, Return
<1>13. CASE MarkProcessed(w)
  <2> DEFINE x == [op |-> "finalize", p |-> p, to |-> work[w].to]
  <2>1. work[w].op = "mark" /\ work[w].to \in Final
    BY <1>2, <1>13 DEF MarkProcessed, Doing
  <2>2. x \in Task /\ x.p = p /\ x.to = work[w].to
    BY <1>1, <2>1 DEF Task
  <2>3. work[w].to = "PAID" => transfers[p] > 0
    BY <1>1, <2>1 DEF IInv, Paying
  <2>4. /\ SetStatus(p, work[w].to) /\ Do(w, x)
        /\ UNCHANGED <<wallet, request, refunds, transfers>>
    BY <1>13 DEF MarkProcessed
  <2> HIDE DEF x
  <2> QED BY <1>1, <2>1, <2>2, <2>3, <2>4, StatusStep
<1>14. CASE FinalizeProcessed(w)
  <2>1. Return(w) /\ UNCHANGED <<payout, transfers>> /\ work[w].op = "finalize"
    BY <1>14 DEF FinalizeProcessed, Doing
  <2>2. CASE work[w].to = "PAID" /\ FinalizeCompleted(p)
    <3>1. transfers[p] > 0
      BY <1>1, <2>1, <2>2 DEF IInv, Paying
    <3> QED BY <1>1, <2>1, <2>2, <3>1, CompleteStep
  <2>3. CASE FinalizeFailed(p)
    BY <1>1, <2>1, <2>3, RefundStep DEF Return
  <2>4. CASE UNCHANGED <<wallet, request, refunds>>
    BY <1>1, <2>1, <2>4, TransferStep DEF Return, rows
  <2> QED BY <1>14, <2>2, <2>3, <2>4 DEF FinalizeProcessed
<1> QED BY <1>5, <1>6, <1>7, <1>8, <1>9, <1>10, <1>11, <1>12, <1>13, <1>14 DEF Resume

LEMMA AskStep ==
  ASSUME IInv, NEW w \in Handlers, NEW p \in Payouts, Ask(w, p)
  PROVE  IInv'
<1>1. CASE \E e \in Payees, a \in Amounts : OpenPayout(w, p, e, a)
  <2> PICK e \in Payees, a \in Amounts : OpenPayout(w, p, e, a)
    BY <1>1
  <2> DEFINE x == [op |-> "record", p |-> p, a |-> a]
  <2>1. x \in Task /\ x.op = "record"
    BY DEF Task
  <2>2. /\ payout' = [payout EXCEPT ![p] = [status |-> "PENDING", payee |-> e]]
        /\ Do(w, x) /\ UNCHANGED <<wallet, request, refunds, transfers>>
    BY DEF OpenPayout
  <2> HIDE DEF x
  <2>3. payout' \in [Payouts -> [status : RowStatus, payee : Payees \cup {Idle}]]
    BY <2>2 DEF IInv, PayoutTypeOK
  <2>4. NeverOverdrawn' /\ RejectedIsRefunded' /\ PaidMeansSent'
    BY <2>2 DEF IInv, PayoutTypeOK, NeverOverdrawn, RejectedIsRefunded, PaidMeansSent
  <2>5. transfers' \in [Payouts -> Nat] /\ \A q \in Payouts : transfers'[q] >= transfers[q]
    BY <2>2, NotSending DEF IInv
  <2>6. work' \in [Handlers -> Task \cup {Idle}] /\ Paying'
    BY <2>1, <2>2, <2>5, HandlerMoves, PayingKept DEF IInv
  <2> QED BY <2>2, <2>3, <2>4, <2>5, <2>6 DEF IInv, PayoutTypeOK
<1>2. CASE ApprovePayout(w, p) \/ RejectPayout(w, p)
  <2>1. PICK x \in {[op |-> "approve", p |-> p], [op |-> "reject", p |-> p]} : Do(w, x)
    BY <1>2 DEF ApprovePayout, RejectPayout
  <2>2. x \in Task /\ x.op \in {"approve", "reject"}
    BY <2>1 DEF Task
  <2> QED BY <1>2, <2>1, <2>2, TransferStep DEF ApprovePayout, RejectPayout
<1>3. CASE ProcessFailed(w, p)
  <2> DEFINE x == [op |-> "fail", p |-> p]
  <2>1. x \in Task /\ x.op = "fail"
    BY DEF Task
  <2>2. FinalizeFailed(p) /\ Do(w, x) /\ UNCHANGED <<payout, transfers>>
    BY <1>3 DEF ProcessFailed
  <2> HIDE DEF x
  <2> QED BY <2>1, <2>2, RefundStep
<1>4. CASE ProcessPaid(w, p)
  <2> DEFINE paid   == [op |-> "mark", p |-> p, to |-> "PAID"]
             failed == [op |-> "mark", p |-> p, to |-> "FAILED"]
  <2>1. paid \in Task /\ paid.p = p /\ failed \in Task /\ failed.to = "FAILED"
    BY DEF Task
  <2>2. UNCHANGED <<wallet, rows>>
    BY <1>4 DEF ProcessPaid
  <2>3. \/ Transferred(p) /\ Do(w, paid)
        \/ UNCHANGED transfers /\ Do(w, failed)
        \/ Transferred(p) /\ UNCHANGED work
    BY <1>4 DEF ProcessPaid
  <2> HIDE DEF paid, failed
  <2>4. CASE Transferred(p) /\ Do(w, paid)
    BY <2>1, <2>2, <2>4, TransferStep
  <2>5. CASE UNCHANGED transfers /\ Do(w, failed)
    BY <2>1, <2>2, <2>5, TransferStep
  <2>6. CASE Transferred(p) /\ UNCHANGED work
    <3>1. work[w] \in Task \cup {Idle}
      BY DEF IInv, PayoutTypeOK
    <3> QED BY <2>2, <2>6, <3>1, TransferStep
  <2> QED BY <2>3, <2>4, <2>5, <2>6
<1> QED BY <1>1, <1>2, <1>3, <1>4 DEF Ask

LEMMA CrashStep ==
  ASSUME IInv, Crash
  PROVE  IInv'
BY DEF IInv, PayoutTypeOK, NeverOverdrawn, RejectedIsRefunded, PaidMeansSent, Paying,
   Crash, rows

LEMMA Quiet == IInv /\ UNCHANGED vars => IInv'
BY DEF IInv, PayoutTypeOK, NeverOverdrawn, RejectedIsRefunded, PaidMeansSent, Paying, vars

LEMMA InitHolds == Init => IInv
<1> SUFFICES ASSUME Init PROVE IInv
  OBVIOUS
<1>1. Opening \in Nat
  BY PayoutAssumption DEF PayoutAssumption
<1>2. PayoutTypeOK
  BY <1>1 DEF Init, PayoutTypeOK, NoEntry
<1>3. NeverOverdrawn /\ RejectedIsRefunded /\ PaidMeansSent /\ Paying
  BY <1>1 DEF Init, NeverOverdrawn, RejectedIsRefunded, PaidMeansSent, Paying, NoEntry
<1> QED BY <1>2, <1>3 DEF IInv

LEMMA Inductive == Spec => []IInv
<1>1. IInv /\ [Next]_vars => IInv'
  BY ResumeStep, AskStep, CrashStep, Quiet DEF Next
<1> QED BY <1>1, InitHolds, PTL DEF Spec
-----------------------------------------------------------------------------
(* The ledger explains the wallets.                                        *)

TakenFrom(e) == [p \in Payouts |-> Taken(p, e)]

(* A payout is recorded by the one request that opened it, and until then  *)
(* the ledger has no entry of it.                                          *)
Recording == \A w \in Handlers : Doing(w, "record") =>
  /\ payout[work[w].p].status # "NONE"
  /\ ~ Debited(work[w].p)
  /\ \A v \in Handlers : Doing(v, "record") /\ work[v].p = work[w].p => v = w

Unrecorded == \A p \in Payouts :
  /\ payout[p].status = "NONE" => ~ Debited(p)
  /\ ~ Debited(p) => request[p].amount = 0 /\ refunds[p] = 0

Books == Recording /\ Unrecorded /\ LedgerExplainsWallet

LEMMA TakenTyped ==
  ASSUME PayoutTypeOK, NEW e
  PROVE  TakenFrom(e) \in [Payouts -> Int]
<1>1. \A p \in Payouts : request[p].amount \in Int /\ refunds[p] \in Int
  BY AmountsNat DEF PayoutTypeOK
<1>2. \A p \in Payouts : request[p].amount * (1 - refunds[p]) \in Int
  BY <1>1
<1> QED BY <1>2 DEF TakenFrom, Taken

LEMMA TakenTypedNext ==
  ASSUME PayoutTypeOK', NEW e
  PROVE  TakenFrom(e)' \in [Payouts -> Int]
<1>1. \A p \in Payouts : request'[p].amount \in Int /\ refunds'[p] \in Int
  BY AmountsNat DEF PayoutTypeOK
<1>2. \A p \in Payouts : request'[p].amount * (1 - refunds'[p]) \in Int
  BY <1>1
<1> QED BY <1>2 DEF TakenFrom, Taken

(* What the entries of one payout take is what its payee's wallet loses.   *)
LEMMA OneEntryMoves ==
  ASSUME PayoutTypeOK, PayoutTypeOK', LedgerExplainsWallet, NEW p \in Payouts,
         \A q \in Payouts \ {p} : \A e \in Payees : Taken(q, e)' = Taken(q, e),
         \A e \in Payees : wallet'[e] = wallet[e] + (Taken(p, e) - Taken(p, e)')
  PROVE  LedgerExplainsWallet'
<1> SUFFICES ASSUME NEW e \in Payees
             PROVE  wallet'[e] = Opening - SumFunction(TakenFrom(e)')
  BY DEF LedgerExplainsWallet, TakenFrom
<1>1. TakenFrom(e) \in [Payouts -> Int] /\ TakenFrom(e)' \in [Payouts -> Int]
  BY TakenTyped, TakenTypedNext
<1>2. /\ TakenFrom(e)[p] = Taken(p, e) /\ TakenFrom(e)'[p] = Taken(p, e)'
      /\ \A q \in Payouts \ {p} : TakenFrom(e)'[q] = TakenFrom(e)[q]
  BY DEF TakenFrom
<1>3. /\ SumFunction(TakenFrom(e)) \in Int
      /\ SumFunction(TakenFrom(e)')
           = SumFunction(TakenFrom(e)) + (TakenFrom(e)'[p] - TakenFrom(e)[p])
  <2>1. IsFiniteSet(Payouts)
    BY PayoutAssumption DEF PayoutAssumption
  <2>2. ASSUME NEW f \in [Payouts -> Int], NEW g \in [Payouts -> Int],
               \A q \in Payouts \ {p} : g[q] = f[q]
        PROVE  /\ SumFunction(f) \in Int
               /\ SumFunction(g) = SumFunction(f) + (g[p] - f[p])
    BY <2>1, <2>2, TotalChanges
  <2> QED BY <1>1, <1>2, <2>2
<1>4. wallet[e] = Opening - SumFunction(TakenFrom(e))
  BY DEF LedgerExplainsWallet, TakenFrom
<1>5. TakenFrom(e)[p] \in Int /\ TakenFrom(e)'[p] \in Int /\ Opening \in Int
  BY <1>1, PayoutAssumption DEF PayoutAssumption
<1> QED BY <1>2, <1>3, <1>4, <1>5

(* A step of a handler that opens no payout.                               *)
LEMMA RecordingKept ==
  ASSUME PayoutTypeOK, Recording, NEW w \in Handlers, NEW x \in Task \cup {Idle}, Do(w, x),
         x # Idle => x.op # "record",
         \A q \in Payouts : payout[q].status # "NONE" => payout'[q].status # "NONE",
         \A q \in Payouts : Debited(q)' => Debited(q) \/ (Doing(w, "record") /\ work[w].p = q)
  PROVE  Recording'
<1>1. \A v \in Handlers : work'[v] = IF v = w THEN x ELSE work[v]
  BY DEF PayoutTypeOK, Do
<1>2. \A v \in Handlers : Doing(v, "record")' => v # w /\ work'[v] = work[v] /\ Doing(v, "record")
  BY <1>1 DEF Doing
<1>3. \A v \in Handlers : Doing(v, "record") => work[v].p \in Payouts
  BY TaskFields DEF Doing
<1> QED BY <1>2, <1>3 DEF Recording

(* A step that writes statuses, of rows or of entries, and nothing else.   *)
LEMMA StatusesMove ==
  ASSUME PayoutTypeOK, PayoutTypeOK', Books, UNCHANGED <<wallet, refunds>>,
         \A q \in Payouts :
           /\ payout'[q].payee = payout[q].payee
           /\ payout[q].status # "NONE" => payout'[q].status # "NONE"
           /\ request'[q].amount = request[q].amount
           /\ Debited(q)' <=> Debited(q)
  PROVE  Unrecorded' /\ LedgerExplainsWallet'
<1>1. Unrecorded'
  BY DEF Books, Unrecorded
<1>2. \A q \in Payouts, e \in Payees : Taken(q, e)' = Taken(q, e)
  BY DEF Taken, PayeeOf
<1>3. \A e \in Payees : TakenFrom(e)' = TakenFrom(e)
  BY <1>2 DEF TakenFrom
<1>4. \A e \in Payees : wallet[e] = Opening - SumFunction(TakenFrom(e))
  BY DEF Books, LedgerExplainsWallet, TakenFrom
<1>5. \A e \in Payees : wallet'[e] = Opening - SumFunction(TakenFrom(e)')
  BY <1>3, <1>4
<1>6. LedgerExplainsWallet'
  BY <1>5 DEF LedgerExplainsWallet, TakenFrom
<1> QED BY <1>1, <1>6

LEMMA RefundBooked ==
  ASSUME PayoutTypeOK, PayoutTypeOK', Books, NEW p \in Payouts, FinalizeFailed(p),
         \A q \in Payouts :
           /\ payout'[q].payee = payout[q].payee
           /\ payout[q].status # "NONE" => payout'[q].status # "NONE"
  PROVE  Unrecorded' /\ LedgerExplainsWallet' /\ \A q \in Payouts : Debited(q)' <=> Debited(q)
<1> DEFINE a == request[p].amount
           r == refunds[p]
<1>1. /\ \A q \in Payouts : /\ request'[q].amount = request[q].amount
                            /\ Debited(q)' <=> Debited(q)
      /\ \A q \in Payouts \ {p} : refunds'[q] = refunds[q]
      /\ refunds'[p] = r + 1 /\ Debited(p) /\ PayeeOf(p) \in Payees
      /\ \A e \in Payees : wallet'[e] = IF PayeeOf(p) = e THEN wallet[e] + a ELSE wallet[e]
  BY DEF PayoutTypeOK, FinalizeFailed, Refundable, Debited
<1>2. Unrecorded'
  BY <1>1 DEF Books, Unrecorded
<1>3. a \in Int /\ r \in Int /\ \A e \in Payees : wallet[e] \in Int
  BY AmountsNat DEF PayoutTypeOK
<1>4. \A q \in Payouts \ {p} : \A e \in Payees : Taken(q, e)' = Taken(q, e)
  BY <1>1 DEF Taken, PayeeOf
<1>5. ASSUME NEW e \in Payees
      PROVE  wallet'[e] = wallet[e] + (Taken(p, e) - Taken(p, e)')
  <2>1. CASE PayeeOf(p) = e
    <3>1. Taken(p, e) = a * (1 - r) /\ Taken(p, e)' = a * (1 - (r + 1))
      BY <1>1, <2>1 DEF Taken, PayeeOf
    <3>2. wallet'[e] = wallet[e] + a
      BY <1>1, <2>1
    <3>3. a * (1 - r) - a * (1 - (r + 1)) = a
      BY <1>3
    <3> HIDE DEF a, r
    <3> QED BY <3>1, <3>2, <3>3
  <2>2. CASE PayeeOf(p) # e
    <3>1. Taken(p, e) = 0 /\ Taken(p, e)' = 0
      BY <2>2 DEF Taken, PayeeOf
    <3> QED BY <1>1, <1>3, <2>2, <3>1
  <2> QED BY <2>1, <2>2
<1>6. LedgerExplainsWallet'
  BY <1>4, <1>5, OneEntryMoves DEF Books
<1> QED BY <1>1, <1>2, <1>6

LEMMA RequestBooked ==
  ASSUME PayoutTypeOK, PayoutTypeOK', Books, NEW w \in Handlers, Record(w)
  PROVE  Books'
<1>1. PICK p \in Payouts, a \in Amounts : p = work[w].p /\ a = work[w].a /\ Doing(w, "record")
  BY TaskFields DEF Record, Doing
<1>2. UNCHANGED <<payout, refunds>>
  BY DEF Record
<1>3. PICK x \in Task \cup {Idle} : Do(w, x) /\ (x # Idle => x.op # "record")
  <2> DEFINE pay  == [op |-> "pay", p |-> p]
             undo == [op |-> "undo", p |-> p]
  <2>1. pay \in Task /\ undo \in Task
    BY DEF Task
  <2>2. Do(w, pay) \/ Do(w, undo) \/ Do(w, Idle)
    BY <1>1 DEF Record, Return
  <2> QED BY <2>1, <2>2
<1>4. CASE RecordPayoutRequest(p, a)
  <2>1. ~ Debited(p) /\ request[p].amount = 0 /\ refunds[p] = 0 /\ payout[p].status # "NONE"
    BY <1>1 DEF Books, Recording, Unrecorded
  <2>2. /\ \A q \in Payouts \ {p} : request'[q] = request[q]
        /\ request'[p].amount = a /\ Debited(p)'
        /\ \A e \in Payees : wallet'[e] = IF PayeeOf(p) = e THEN wallet[e] - a ELSE wallet[e]
    BY <1>4 DEF PayoutTypeOK, RecordPayoutRequest, Debited
  <2>3. Unrecorded'
    BY <1>2, <2>1, <2>2 DEF Books, Unrecorded, Debited
  <2>4. Recording'
    BY <1>1, <1>2, <1>3, <2>2, RecordingKept DEF Books, Debited
  <2>5. \A q \in Payouts \ {p} : \A e \in Payees : Taken(q, e)' = Taken(q, e)
    BY <1>2, <2>2 DEF Taken, PayeeOf
  <2>6. ASSUME NEW e \in Payees
        PROVE  wallet'[e] = wallet[e] + (Taken(p, e) - Taken(p, e)')
    <3>1. a \in Int /\ wallet[e] \in Int
      BY PayoutAssumption DEF PayoutAssumption, PayoutTypeOK
    <3>2. Taken(p, e) = IF PayeeOf(p) = e THEN 0 * (1 - 0) ELSE 0
      BY <2>1 DEF Taken
    <3>3. Taken(p, e)' = IF PayeeOf(p) = e THEN a * (1 - 0) ELSE 0
      BY <1>2, <2>1, <2>2 DEF Taken, PayeeOf
    <3> QED BY <2>2, <3>1, <3>2, <3>3
  <2>7. LedgerExplainsWallet'
    BY <2>5, <2>6, OneEntryMoves DEF Books
  <2> QED BY <2>3, <2>4, <2>7 DEF Books
<1>5. CASE UNCHANGED <<wallet, request>>
  <2>1. Recording'
    BY <1>2, <1>3, <1>5, RecordingKept DEF Books, Debited
  <2>2. Unrecorded' /\ LedgerExplainsWallet'
    BY <1>2, <1>5, StatusesMove DEF Debited
  <2> QED BY <2>1, <2>2 DEF Books
<1> QED BY <1>1, <1>4, <1>5 DEF Record

LEMMA OpeningBooked ==
  ASSUME PayoutTypeOK, PayoutTypeOK', Books,
         NEW w \in Handlers, NEW p \in Payouts, NEW e \in Payees, NEW a \in Amounts,
         OpenPayout(w, p, e, a)
  PROVE  Books'
<1> DEFINE x == [op |-> "record", p |-> p, a |-> a]
<1>1. /\ payout[p].status = "NONE" /\ payout'[p].status = "PENDING"
      /\ \A q \in Payouts \ {p} : payout'[q] = payout[q]
      /\ UNCHANGED <<wallet, request, refunds>>
  BY DEF OpenPayout, PayoutTypeOK
<1>2. \A v \in Handlers : work'[v] = IF v = w THEN x ELSE work[v]
  BY DEF OpenPayout, PayoutTypeOK, Do
<1>3. ~ Debited(p) /\ request[p].amount = 0 /\ refunds[p] = 0
  BY <1>1 DEF Books, Unrecorded
<1>4. Unrecorded'
  BY <1>1, <1>3 DEF Books, Unrecorded, Debited
<1>5. Recording'
  <2>1. \A v \in Handlers : Doing(v, "record") => work[v].p \in Payouts /\ work[v].p # p
    BY <1>1, TaskFields DEF Books, Recording, Doing
  <2>2. \A v \in Handlers : Doing(v, "record")' =>
          IF v = w THEN work'[v].p = p ELSE work'[v] = work[v] /\ Doing(v, "record")
    BY <1>2 DEF Doing
  <2> QED BY <1>1, <1>3, <2>1, <2>2 DEF Books, Recording, Debited
<1>6. LedgerExplainsWallet'
  <2>1. \A q \in Payouts \ {p} : \A f \in Payees : Taken(q, f)' = Taken(q, f)
    BY <1>1 DEF Taken, PayeeOf
  <2>2. \A f \in Payees : Taken(p, f) = 0 /\ Taken(p, f)' = 0
    BY <1>1, <1>3 DEF Taken, PayeeOf
  <2>3. \A f \in Payees : wallet[f] \in Int
    BY DEF PayoutTypeOK
  <2> QED BY <1>1, <2>1, <2>2, <2>3, OneEntryMoves DEF Books
<1> QED BY <1>4, <1>5, <1>6 DEF Books

LEMMA BooksInit == Init => Books
<1> SUFFICES ASSUME Init PROVE Books
  OBVIOUS
<1>1. Recording /\ Unrecorded
  BY DEF Init, Recording, Unrecorded, Doing, Debited, NoEntry
<1>2. ASSUME NEW e \in Payees
      PROVE  wallet[e] = Opening - SumFunction(TakenFrom(e))
  <2>1. TakenFrom(e) \in [Payouts -> {0}]
    BY DEF Init, TakenFrom, Taken, NoEntry
  <2>2. SumFunction(TakenFrom(e)) = 0
    BY <2>1, TotalOfZeros, PayoutAssumption DEF PayoutAssumption
  <2> QED BY <2>2, PayoutAssumption DEF PayoutAssumption, Init
<1>3. LedgerExplainsWallet
  BY <1>2 DEF LedgerExplainsWallet, TakenFrom
<1> QED BY <1>1, <1>3 DEF Books

(* The statuses a step may write, whichever handler writes them.           *)
LEMMA WrittenStatus ==
  ASSUME PayoutTypeOK, NEW p \in Payouts, NEW st \in RowStatus \ {"NONE"},
         SetStatus(p, st) \/ UNCHANGED payout
  PROVE  \A q \in Payouts : /\ payout'[q].payee = payout[q].payee
                            /\ payout[q].status # "NONE" => payout'[q].status # "NONE"
BY DEF PayoutTypeOK, SetStatus

LEMMA BooksKept ==
  ASSUME PayoutTypeOK, PayoutTypeOK', Books, NEW w \in Handlers, NEW p \in Payouts,
         NEW st \in RowStatus \ {"NONE"}, SetStatus(p, st) \/ UNCHANGED payout,
         NEW x \in Task \cup {Idle}, Do(w, x), x # Idle => x.op # "record",
         \/ UNCHANGED <<wallet, request, refunds>>
         \/ FinalizeCompleted(p)
         \/ FinalizeFailed(p)
  PROVE  Books'
<1>1. \A q \in Payouts : /\ payout'[q].payee = payout[q].payee
                         /\ payout[q].status # "NONE" => payout'[q].status # "NONE"
  BY WrittenStatus
<1>2. CASE UNCHANGED <<wallet, request, refunds>> \/ FinalizeCompleted(p)
  <2>1. /\ UNCHANGED <<wallet, refunds>>
        /\ \A q \in Payouts : /\ request'[q].amount = request[q].amount
                              /\ Debited(q)' <=> Debited(q)
    BY <1>2 DEF PayoutTypeOK, FinalizeCompleted, Debited
  <2>2. Unrecorded' /\ LedgerExplainsWallet'
    BY <1>1, <2>1, StatusesMove
  <2>3. Recording'
    BY <1>1, <2>1, RecordingKept DEF Books
  <2> QED BY <2>2, <2>3 DEF Books
<1>3. CASE FinalizeFailed(p)
  <2>1. Unrecorded' /\ LedgerExplainsWallet' /\ \A q \in Payouts : Debited(q)' <=> Debited(q)
    BY <1>1, <1>3, RefundBooked
  <2>2. Recording'
    BY <1>1, <2>1, RecordingKept DEF Books
  <2> QED BY <2>1, <2>2 DEF Books
<1> QED BY <1>2, <1>3

LEMMA ResumeBooked ==
  ASSUME PayoutTypeOK, PayoutTypeOK', Books, NEW w \in Handlers, Resume(w)
  PROVE  Books'
<1>1. CASE Record(w)
  BY <1>1, RequestBooked
<1>2. CASE ~ Record(w)
  <2>1. work[w] # Idle
    BY <1>2 DEF Resume, UndoWithdrawal, InitiateVendorTransfer, SettleVendorPayout,
       LockPayout, DisbursePayment, FinishApproval, CommitRejection, MarkFailed,
       MarkProcessed, FinalizeProcessed, Doing
  <2>2. PICK p \in Payouts : p = work[w].p
    BY <2>1, TaskFields
  <2>3. /\ work[w].op = "settle" => work[w].to \in {"APPROVED", "PENDING"}
        /\ work[w].op = "finish" => work[w].to = "PAID"
        /\ work[w].op \in {"mark", "finalize"} => work[w].to \in Final
    BY <2>1, TaskFields
  <2>4. \E st \in RowStatus \ {"NONE"} : SetStatus(p, st) \/ UNCHANGED payout
    BY <1>2, <2>2, <2>3 DEF Resume, UndoWithdrawal, InitiateVendorTransfer,
       SettleVendorPayout, LockPayout, DisbursePayment, FinishApproval, CommitRejection,
       MarkFailed, MarkProcessed, FinalizeProcessed, Doing, rows
  <2>5. \E x \in Task \cup {Idle} : Do(w, x) /\ (x # Idle => x.op # "record")
    <3> DEFINE settle(st) == [op |-> "settle", p |-> p, to |-> st]
               disburse   == [op |-> "disburse", p |-> p]
               finish     == [op |-> "finish", p |-> p, to |-> "PAID"]
               finalize   == [op |-> "finalize", p |-> p, to |-> work[w].to]
    <3>1. /\ settle("APPROVED") \in Task /\ settle("PENDING") \in Task
          /\ disburse \in Task /\ finish \in Task
          /\ work[w].op = "mark" => finalize \in Task
      BY <2>3 DEF Task
    <3>2. \/ Do(w, Idle) \/ Do(w, settle("APPROVED")) \/ Do(w, settle("PENDING"))
          \/ Do(w, disburse) \/ Do(w, finish)
          \/ Do(w, finalize) /\ work[w].op = "mark"
      BY <1>2, <2>2 DEF Resume, UndoWithdrawal, InitiateVendorTransfer,
         SettleVendorPayout, LockPayout, DisbursePayment, FinishApproval, CommitRejection,
         MarkFailed, MarkProcessed, FinalizeProcessed, Doing, Return
    <3> QED BY <3>1, <3>2
  <2>6. \/ UNCHANGED <<wallet, request, refunds>>
        \/ FinalizeCompleted(p)
        \/ FinalizeFailed(p)
    BY <1>2, <2>2 DEF Resume, UndoWithdrawal, InitiateVendorTransfer,
       SettleVendorPayout, LockPayout, DisbursePayment, FinishApproval, CommitRejection,
       MarkFailed, MarkProcessed, FinalizeProcessed, rows
  <2> QED BY <2>4, <2>5, <2>6, BooksKept
<1> QED BY <1>1, <1>2

LEMMA AskBooked ==
  ASSUME PayoutTypeOK, PayoutTypeOK', Books, NEW w \in Handlers, NEW p \in Payouts, Ask(w, p)
  PROVE  Books'
<1>1. ASSUME NEW e \in Payees, NEW a \in Amounts, OpenPayout(w, p, e, a)
      PROVE  Books'
  BY <1>1, OpeningBooked
<1>2. CASE ApprovePayout(w, p) \/ RejectPayout(w, p) \/ ProcessFailed(w, p) \/ ProcessPaid(w, p)
  <2>1. UNCHANGED payout /\ "PENDING" \in RowStatus \ {"NONE"}
    BY <1>2 DEF ApprovePayout, RejectPayout, ProcessFailed, ProcessPaid, rows
  <2>2. UNCHANGED <<wallet, request, refunds>> \/ FinalizeFailed(p)
    BY <1>2 DEF ApprovePayout, RejectPayout, ProcessFailed, ProcessPaid, rows
  <2>3. CASE UNCHANGED work /\ UNCHANGED <<wallet, request, refunds>>
    <3>1. Unrecorded' /\ LedgerExplainsWallet'
      BY <2>1, <2>3, StatusesMove DEF Debited
    <3>2. Recording'
      BY <2>1, <2>3 DEF Books, Recording, Doing, Debited
    <3> QED BY <3>1, <3>2 DEF Books
  <2>4. CASE \E x \in Task : Do(w, x) /\ x.op # "record"
    BY <2>1, <2>2, <2>4, BooksKept
  <2>5. \/ UNCHANGED work /\ UNCHANGED <<wallet, request, refunds>>
        \/ \E x \in Task : Do(w, x) /\ x.op # "record"
    <3> DEFINE ask(op) == [op |-> op, p |-> p]
               mark(st) == [op |-> "mark", p |-> p, to |-> st]
    <3>1. /\ ask("approve") \in Task /\ ask("reject") \in Task /\ ask("fail") \in Task
          /\ mark("PAID") \in Task /\ mark("FAILED") \in Task
      BY DEF Task
    <3>2. \/ UNCHANGED work /\ UNCHANGED <<wallet, request, refunds>>
          \/ Do(w, ask("approve")) \/ Do(w, ask("reject")) \/ Do(w, ask("fail"))
          \/ Do(w, mark("PAID")) \/ Do(w, mark("FAILED"))
      BY <1>2 DEF ApprovePayout, RejectPayout, ProcessFailed, ProcessPaid, rows
    <3> QED BY <3>1, <3>2
  <2> QED BY <2>3, <2>4, <2>5
<1> QED BY <1>1, <1>2 DEF Ask

LEMMA CrashBooked ==
  ASSUME PayoutTypeOK, PayoutTypeOK', Books, Crash \/ UNCHANGED vars
  PROVE  Books'
<1>1. UNCHANGED <<wallet, payout, request, refunds>>
  BY DEF Crash, vars, rows
<1>2. Unrecorded' /\ LedgerExplainsWallet'
  BY <1>1, StatusesMove DEF Debited
<1>3. Recording'
  BY <1>1 DEF Crash, vars, Books, Recording, Doing, Debited
<1> QED BY <1>2, <1>3 DEF Books
-----------------------------------------------------------------------------
(* The rows, the ledger and the wallets keep their types: no handler ever  *)
(* writes a status that the column does not have.                          *)
THEOREM PayoutTypeCorrect == Spec => []PayoutTypeOK
<1>1. IInv => PayoutTypeOK
  BY DEF IInv
<1> QED BY <1>1, Inductive, PTL

(* No wallet of a rider or a store is ever overdrawn by withdrawals.       *)
THEOREM WithdrawalsCovered == Spec => []NeverOverdrawn
<1>1. IInv => NeverOverdrawn
  BY DEF IInv
<1> QED BY <1>1, Inductive, PTL

(* A payout that is REJECTED has a refund in the ledger.                   *)
THEOREM RejectionRefunds == Spec => []RejectedIsRefunded
<1>1. IInv => RejectedIsRefunded
  BY DEF IInv
<1> QED BY <1>1, Inductive, PTL

(* PAID and COMPLETED are only written for a payout that was transferred.  *)
THEOREM PaidIsSent == Spec => []PaidMeansSent
<1>1. IInv => PaidMeansSent
  BY DEF IInv
<1> QED BY <1>1, Inductive, PTL

(* A wallet is the opening balance less the requests recorded against it   *)
(* plus the refunds recorded, so no overlap of approvals, rejections and   *)
(* failures moves money without an entry, or books an entry without money. *)
THEOREM LedgerIsTrue == Spec => []LedgerExplainsWallet
<1>1. Init => Books
  BY BooksInit
<1>2. PayoutTypeOK /\ PayoutTypeOK' /\ Books /\ [Next]_vars => Books'
  BY ResumeBooked, AskBooked, CrashBooked DEF Next
<1>3. Books => LedgerExplainsWallet
  BY DEF Books
<1>4. Spec => []PayoutTypeOK
  BY PayoutTypeCorrect
<1> QED BY <1>1, <1>2, <1>3, <1>4, PTL DEF Spec
=============================================================================
