------------------------------- MODULE Payouts -------------------------------
(***************************************************************************)
(* Withdrawals of riders and stores: the payout rows, the ledger, the      *)
(* wallets and the bank transfers.  A wallet is debited when a payout is   *)
(* requested and refunded when it fails; approval, rejection and the older *)
(* processPayout of an administrator run against each other and against    *)
(* the transfer that a store's withdrawal starts by itself.                *)
(*                                                                         *)
(* A database transaction that reads a row, checks it and then updates it  *)
(* by its id runs at READ COMMITTED: the check and the commit are two      *)
(* steps of a handler.  requestWithdrawal of a rider is left out: its row  *)
(* is not committed when recordPayoutRequest, which opens a transaction of *)
(* its own, refers to it, so the foreign key fails it and nothing is kept. *)
(* Amounts are of the ledger; a store's commission is left out, and so are *)
(* earnings and adjustments, which other components make.                  *)
(***************************************************************************)
EXTENDS Integers, FiniteSets, Functions

CONSTANTS Riders, Stores, Payouts,
          Handlers,    \* the requests the server works on at once
          Amounts,     \* what may be withdrawn
          Opening,     \* the wallet of every rider and store at the start
          Idle,        \* a handler without a request, a row without a payee
          MaxTransfers \* bound on the transfers and refunds of one payout

ASSUME PayoutAssumption ==
  /\ Amounts \subseteq Nat
  /\ Opening \in Nat
  /\ Riders \cap Stores = {}
  /\ Idle \notin Riders \cup Stores
  /\ IsFiniteSet(Payouts)

VARIABLES
  wallet,    \* walletBalance of a rider or a store
  payout,    \* the row of a payout: status and payee
  request,   \* its PAYOUT_REQUESTED entry in the ledger
  refunds,   \* the number of its PAYOUT_FAILED entries
  transfers, \* the number of transfers the bank made for it
  work       \* what each handler has still to do

rows == <<payout, request, refunds>>
vars == <<wallet, payout, request, refunds, transfers, work>>

Payees       == Riders \cup Stores
Final        == {"PAID", "FAILED"}
PayoutStatus == {"PENDING", "APPROVED", "COMPLETED", "REJECTED"} \cup Final
RowStatus    == {"NONE", "DELETED"} \cup PayoutStatus

NoEntry == [status |-> "NONE", amount |-> 0]

Task == [op : {"record"}, p : Payouts, a : Amounts]
        \cup [op : {"undo", "pay", "approve", "disburse", "reject"}, p : Payouts]
        \cup [op : {"settle"}, p : Payouts, to : {"APPROVED", "PENDING"}]
        \cup [op : {"finish"}, p : Payouts, to : {"PAID"}]
        \cup [op : {"mark", "finalize"}, p : Payouts, to : Final]
        \cup [op : {"fail"}, p : Payouts]

PayoutTypeOK ==
  /\ wallet \in [Payees -> Int]
  /\ payout \in [Payouts -> [status : RowStatus, payee : Payees \cup {Idle}]]
  /\ request \in [Payouts -> [status : {"NONE", "PENDING", "COMPLETED", "FAILED"},
                              amount : Amounts \cup {0}]]
  /\ refunds \in [Payouts -> Nat]
  /\ transfers \in [Payouts -> Nat]
  /\ work \in [Handlers -> Task \cup {Idle}]

Init == /\ wallet = [e \in Payees |-> Opening]
        /\ payout = [p \in Payouts |-> [status |-> "NONE", payee |-> Idle]]
        /\ request = [p \in Payouts |-> NoEntry]
        /\ refunds = [p \in Payouts |-> 0]
        /\ transfers = [p \in Payouts |-> 0]
        /\ work = [w \in Handlers |-> Idle]

Exists(p)    == payout[p].status \in PayoutStatus
Debited(p)   == request[p].status # "NONE"
PayeeOf(p)   == payout[p].payee
Free(w)      == work[w] = Idle
Do(w, x)     == work' = [work EXCEPT ![w] = x]
Return(w)    == Do(w, Idle)
Doing(w, op) == work[w] # Idle /\ work[w].op = op

SetStatus(p, st) == payout' = [payout EXCEPT ![p].status = st]
-----------------------------------------------------------------------------
(* TransactionLedgerService.                                               *)

\* Mutant: the balance after the decrement is not looked at.
RecordUnchecked(p, a) ==
  /\ wallet' = [wallet EXCEPT ![PayeeOf(p)] = @ - a]
  /\ request' = [request EXCEPT ![p] = [status |-> "PENDING", amount |-> a]]

Affordable(p, a) == wallet[PayeeOf(p)] >= a

RecordPayoutRequest(p, a) ==
  /\ Affordable(p, a)
  /\ wallet' = [wallet EXCEPT ![PayeeOf(p)] = @ - a]
  /\ request' = [request EXCEPT ![p] = [status |-> "PENDING", amount |-> a]]

\* The store is looked up by the id in the entry, which is the vendor's: no
\* wallet of a store is found, and the transaction is rolled back.
Refundable(p) == Debited(p) /\ PayeeOf(p) \in Riders

\* Mutant: the refund leaves no entry of its own.
FinalizeUnrecorded(p) ==
  /\ Refundable(p)
  /\ request' = [request EXCEPT ![p].status = "FAILED"]
  /\ wallet' = [wallet EXCEPT ![PayeeOf(p)] = @ + request[p].amount]
  /\ UNCHANGED refunds

FinalizeFailed(p) ==
  /\ Refundable(p)
  /\ request' = [request EXCEPT ![p].status = "FAILED"]
  /\ wallet' = [wallet EXCEPT ![PayeeOf(p)] = @ + request[p].amount]
  /\ refunds' = [refunds EXCEPT ![p] = @ + 1]

FinalizeCompleted(p) ==
  /\ request' = IF Debited(p) THEN [request EXCEPT ![p].status = "COMPLETED"]
                ELSE request
  /\ UNCHANGED <<wallet, refunds>>

\* Paystack makes the transfer, refuses it, or the call throws, in which case
\* the transfer may have been made all the same.
Transferred(p) == transfers' = [transfers EXCEPT ![p] = @ + 1]
Unknown(p)     == Transferred(p) \/ UNCHANGED transfers
InBounds(p)    == transfers[p] < MaxTransfers /\ refunds[p] < MaxTransfers
-----------------------------------------------------------------------------
(* A withdrawal.  The balance is checked on an earlier read.               *)

OpenPayout(w, p, e, a) ==
  /\ Free(w)
  /\ payout[p].status = "NONE"
  /\ wallet[e] >= a
  /\ payout' = [payout EXCEPT ![p] = [status |-> "PENDING", payee |-> e]]
  /\ Do(w, [op |-> "record", p |-> p, a |-> a])
  /\ UNCHANGED <<wallet, request, refunds, transfers>>

\* A store goes on to the transfer; a rider's payout waits for an administrator.
Record(w) ==
  /\ Doing(w, "record")
  /\ LET p == work[w].p  IN
     \/ /\ RecordPayoutRequest(p, work[w].a)
        /\ IF PayeeOf(p) \in Stores THEN Do(w, [op |-> "pay", p |-> p]) ELSE Return(w)
     \/ /\ ~ Affordable(p, work[w].a)
        /\ IF PayeeOf(p) \in Stores THEN Do(w, [op |-> "undo", p |-> p]) ELSE Return(w)
        /\ UNCHANGED <<wallet, request>>
  /\ UNCHANGED <<payout, refunds, transfers>>

\* The entry of an approval restricts the deletion.
UndoWithdrawal(w) ==
  /\ Doing(w, "undo")
  /\ IF payout[work[w].p].status = "PENDING" THEN SetStatus(work[w].p, "DELETED")
     ELSE UNCHANGED payout
  /\ Return(w)
  /\ UNCHANGED <<wallet, request, refunds, transfers>>

InitiateVendorTransfer(w) ==
  /\ Doing(w, "pay")
  /\ LET p == work[w].p  IN
     /\ InBounds(p)
     /\ \/ Transferred(p) /\ Do(w, [op |-> "settle", p |-> p, to |-> "APPROVED"])
        \/ UNCHANGED transfers /\ Do(w, [op |-> "settle", p |-> p, to |-> "PENDING"])
        \/ Unknown(p) /\ Return(w)
  /\ UNCHANGED <<wallet, rows>>

SettleVendorPayout(w) ==
  /\ Doing(w, "settle")
  /\ SetStatus(work[w].p, work[w].to)
  /\ Return(w)
  /\ UNCHANGED <<wallet, request, refunds, transfers>>
-----------------------------------------------------------------------------
(* PayoutsService.                                                         *)

\* Only the withdrawal of a store carries the bank account it needs.
ApprovePayout(w, p) ==
  /\ Free(w)
  /\ payout[p].status = "PENDING" /\ PayeeOf(p) \in Stores
  /\ Do(w, [op |-> "approve", p |-> p])
  /\ UNCHANGED <<wallet, rows, transfers>>

LockPayout(w) ==
  /\ Doing(w, "approve")
  /\ IF Exists(work[w].p)
     THEN SetStatus(work[w].p, "APPROVED") /\ Do(w, [op |-> "disburse", p |-> work[w].p])
     ELSE UNCHANGED payout /\ Return(w)
  /\ UNCHANGED <<wallet, request, refunds, transfers>>

\* Mutant: the approval goes on to PAID when the gateway throws.
DisburseRegardless(w) ==
  /\ Doing(w, "disburse")
  /\ LET p == work[w].p  IN
     /\ InBounds(p)
     /\ Unknown(p) /\ Do(w, [op |-> "finish", p |-> p, to |-> "PAID"])
  /\ UNCHANGED <<wallet, rows>>

\* The Payment row of the transfer is given a store where it needs a User: in
\* production the call throws whatever the bank did, and the row stays APPROVED
\* for review.  Elsewhere a mocked transfer, counted as one, answers success.
DisbursePayment(w) ==
  /\ Doing(w, "disburse")
  /\ LET p == work[w].p  IN
     /\ InBounds(p)
     /\ \/ Transferred(p) /\ Do(w, [op |-> "finish", p |-> p, to |-> "PAID"])
        \/ Unknown(p) /\ Return(w)
  /\ UNCHANGED <<wallet, rows>>

\* So no approval ends in FAILED.
FinishApproval(w) ==
  /\ Doing(w, "finish")
  /\ SetStatus(work[w].p, work[w].to)
  /\ FinalizeCompleted(work[w].p)
  /\ Return(w)
  /\ UNCHANGED transfers

RejectPayout(w, p) ==
  /\ Free(w)
  /\ payout[p].status = "PENDING"
  /\ Do(w, [op |-> "reject", p |-> p])
  /\ UNCHANGED <<wallet, rows, transfers>>

\* Mutant: the status is written outside the transaction of the refund.
RejectUnrefunded(w) ==
  /\ Doing(w, "reject")
  /\ SetStatus(work[w].p, "REJECTED")
  /\ Return(w)
  /\ UNCHANGED <<wallet, request, refunds, transfers>>

CommitRejection(w) ==
  /\ Doing(w, "reject")
  /\ LET p == work[w].p  IN
     \/ InBounds(p) /\ SetStatus(p, "REJECTED") /\ FinalizeFailed(p)
     \/ ~ Refundable(p) /\ UNCHANGED <<wallet, rows>>
  /\ Return(w)
  /\ UNCHANGED transfers
-----------------------------------------------------------------------------
(* RidersService.processPayout: no check of the status.                    *)

ProcessFailed(w, p) ==
  /\ Free(w)
  /\ Exists(p) /\ InBounds(p)
  /\ FinalizeFailed(p)
  /\ Do(w, [op |-> "fail", p |-> p])
  /\ UNCHANGED <<payout, transfers>>

MarkFailed(w) ==
  /\ Doing(w, "fail")
  /\ SetStatus(work[w].p, "FAILED")
  /\ Return(w)
  /\ UNCHANGED <<wallet, request, refunds, transfers>>

ProcessPaid(w, p) ==
  /\ Free(w)
  /\ Exists(p) /\ PayeeOf(p) \in Riders /\ InBounds(p)
  /\ \/ Transferred(p) /\ Do(w, [op |-> "mark", p |-> p, to |-> "PAID"])
     \/ UNCHANGED transfers /\ Do(w, [op |-> "mark", p |-> p, to |-> "FAILED"])
     \/ Transferred(p) /\ UNCHANGED work
  /\ UNCHANGED <<wallet, rows>>

\* Mutant: the gateway's word is written into the column.
MarkAnswered(w) ==
  /\ Doing(w, "mark")
  /\ SetStatus(work[w].p, IF work[w].to = "PAID" THEN "SUCCESS" ELSE "FAILED")
  /\ Do(w, [op |-> "finalize", p |-> work[w].p, to |-> work[w].to])
  /\ UNCHANGED <<wallet, request, refunds, transfers>>

MarkProcessed(w) ==
  /\ Doing(w, "mark")
  /\ SetStatus(work[w].p, work[w].to)
  /\ Do(w, [op |-> "finalize", p |-> work[w].p, to |-> work[w].to])
  /\ UNCHANGED <<wallet, request, refunds, transfers>>

FinalizeProcessed(w) ==
  /\ Doing(w, "finalize")
  /\ LET p == work[w].p  IN
     \/ work[w].to = "PAID" /\ FinalizeCompleted(p)
     \/ work[w].to = "FAILED" /\ InBounds(p) /\ FinalizeFailed(p)
     \/ work[w].to = "FAILED" /\ ~ Refundable(p) /\ UNCHANGED <<wallet, request, refunds>>
  /\ Return(w)
  /\ UNCHANGED <<payout, transfers>>
-----------------------------------------------------------------------------
Crash == /\ work' = [w \in Handlers |-> Idle]
         /\ UNCHANGED <<wallet, rows, transfers>>

Resume(w) == \/ Record(w)
             \/ UndoWithdrawal(w)
             \/ InitiateVendorTransfer(w)
             \/ SettleVendorPayout(w)
             \/ LockPayout(w)
             \/ DisbursePayment(w)
             \/ FinishApproval(w)
             \/ CommitRejection(w)
             \/ MarkFailed(w)
             \/ MarkProcessed(w)
             \/ FinalizeProcessed(w)

Ask(w, p) == \/ \E e \in Payees, a \in Amounts : OpenPayout(w, p, e, a)
             \/ ApprovePayout(w, p)
             \/ RejectPayout(w, p)
             \/ ProcessFailed(w, p)
             \/ ProcessPaid(w, p)

Next == \/ \E w \in Handlers : Resume(w)
        \/ \E w \in Handlers, p \in Payouts : Ask(w, p)
        \/ Crash

Spec == Init /\ [][Next]_vars
-----------------------------------------------------------------------------
(* Properties.                                                             *)

\* What the entries of p took from the wallet of e and did not return.
Taken(p, e) == IF PayeeOf(p) = e THEN request[p].amount * (1 - refunds[p]) ELSE 0

(* Every wallet is what its ledger entries say: the opening balance less   *)
(* what was requested, plus one amount for every refund entry, however the *)
(* requests, approvals, rejections and failures overlap or break off.      *)
LedgerExplainsWallet == \A e \in Payees :
  wallet[e] = Opening - SumFunction([p \in Payouts |-> Taken(p, e)])

(* No withdrawal overdraws a wallet, although the balance is checked on a  *)
(* read made before the payout row exists: two requests that both passed   *)
(* the check cannot both be debited.                                       *)
NeverOverdrawn == \A e \in Payees : wallet[e] >= 0

(* A rejected payout has been refunded, even if the process stops in the   *)
(* middle of the rejection or another handler settles the payout first.    *)
RejectedIsRefunded == \A p \in Payouts :
  payout[p].status = "REJECTED" => refunds[p] > 0

(* A row is PAID, or its request COMPLETED in the ledger, only after the   *)
(* bank made a transfer, whichever of the paths that settle it ran last.   *)
PaidMeansSent == \A p \in Payouts :
  payout[p].status = "PAID" \/ request[p].status = "COMPLETED" => transfers[p] > 0

(* payouts.service.ts:156 and 206: the approval locks the payout, and its  *)
(* id is the idempotency key of the transfer: nobody is paid twice.        *)
PaidOnce == \A p \in Payouts : transfers[p] <= 1
=============================================================================
