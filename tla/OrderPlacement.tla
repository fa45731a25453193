--------------------------- MODULE OrderPlacement ---------------------------
(***************************************************************************)
(* Placing an order: the idempotency key of a basket in Redis, the stock   *)
(* of its products and the order itself in the database, and what takes    *)
(* the order back: a failed payment, an administrator who declines it, the *)
(* job that cancels unpaid orders.                                         *)
(*                                                                         *)
(* The key and the database know nothing of each other.  A request takes   *)
(* the key, prepares (addresses, prices and distances, asked of other      *)
(* services), runs one transaction, stores the answer under the key, files *)
(* a reminder; if any of it throws it deletes the key, whoever holds it.   *)
(* The key lapses by itself meanwhile.                                     *)
(*                                                                         *)
(* An order of this module is an order, or an order group with its orders. *)
(* Payments has the Payment row; here it is the field row of the order.    *)
(***************************************************************************)
EXTENDS Integers, FiniteSets, Functions

CONSTANTS Keys,      \* the baskets, each hashed to an idempotency key
          Ids,       \* the orders of the instance, in the order they are placed
          Products,
          Wants,     \* Wants[k][p]: the units of p in basket k
          Opening,   \* Opening[p]: the units of p on the shelf at first
          Handlers,  \* the requests the server works on at once
          None,
          PROCESSING, \* the value of a key whose request is under way
          MaxReturns \* an order's units are returned at most this often

Status == {"PENDING", "CONFIRMED", "CANCELLED", "REJECTED"}
Order  == [key : Keys, status : Status, row : {"PENDING", "FAILED", "COMPLETED"},
           back : 0 .. MaxReturns]
Task   == [op : {"lock", "prepare", "place", "release"}, key : Keys]
          \cup [op : {"handoff", "remind"}, key : Keys, id : Ids]
          \cup [op : {"settle"}, id : Ids, to : {"FAILED", "COMPLETED"}]
          \cup [op : {"decide"}, id : Ids, to : {"CONFIRMED", "REJECTED"}]
          \cup [op : {"expire"}, id : Ids]

ASSUME PlacementAssumption ==
  /\ Ids \subseteq Nat /\ IsFiniteSet(Ids)
  /\ Wants \in [Keys -> [Products -> Nat]]
  /\ Opening \in [Products -> Nat]
  /\ None \notin Keys \cup Ids \cup Order \cup Task
  /\ PROCESSING \notin Ids \cup {None}
  /\ MaxReturns \in Nat

VARIABLES
  key,    \* the value of the key: None, PROCESSING or the order it answers with
  stock,  \* the units on the shelf
  order,  \* the orders placed
  lapsed, \* the baskets whose key has lapsed or been given up after the commit
  work    \* what each handler has still to do

vars == <<key, stock, order, lapsed, work>>

PlacementTypeOK ==
  /\ key \in [Keys -> Ids \cup {None, PROCESSING}]
  /\ stock \in [Products -> Nat]
  /\ order \in [Ids -> Order \cup {None}]
  /\ lapsed \subseteq Keys
  /\ work \in [Handlers -> Task \cup {None}]

Init == /\ key = [k \in Keys |-> None]
        /\ stock = Opening
        /\ order = [i \in Ids |-> None]
        /\ lapsed = {}
        /\ work = [w \in Handlers |-> None]

Free(w)      == work[w] = None
Do(w, x)     == work' = [work EXCEPT ![w] = x]
Return(w)    == Do(w, None)
Doing(w, op) == work[w] # None /\ work[w].op = op
Placed(i)    == order[i] # None
PlacedFor(k) == {i \in Ids : Placed(i) /\ order[i].key = k}
Fresh(i)     == ~ Placed(i) /\ \A j \in Ids : j < i => Placed(j)
-----------------------------------------------------------------------------
(* OrdersService.createOrder and createMultiOrder.                         *)

\* An answer or a conflict ends the request here.
CheckIdempotency(w, k) ==
  /\ Free(w)
  /\ key[k] = None
  /\ Do(w, [op |-> "lock", key |-> k])
  /\ UNCHANGED <<key, stock, order, lapsed>>

\* Mutant: the lock is set without NX.
LockableBlindly(k) == TRUE

Lockable(k) == key[k] = None

TakeLock(w) ==
  /\ Doing(w, "lock")
  /\ LET k == work[w].key  IN
     IF Lockable(k)
     THEN /\ key' = [key EXCEPT ![k] = PROCESSING]
          /\ Do(w, [op |-> "prepare", key |-> k])
     ELSE UNCHANGED key /\ Return(w)
  /\ UNCHANGED <<stock, order, lapsed>>

PrepareOrderContext(w) ==
  /\ Doing(w, "prepare")
  /\ \E next \in {"place", "release"} : Do(w, [op |-> next, key |-> work[w].key])
  /\ UNCHANGED <<key, stock, order, lapsed>>

\* Mutant: the stock is written without the guard on what is left.
InStockAlways(k) == TRUE

InStock(k) == \A p \in Products : stock[p] >= Wants[k][p]

\* A product whose stock is not managed is one of which no basket wants units.
AtomicDecrementStock(k) ==
  stock' = [p \in Products |-> stock[p] - Wants[k][p]]

\* Mutant: the decrements of a short basket run outside the transaction.
RolledBackInPart(k) == stock' = [p \in Products |->
  IF stock[p] >= Wants[k][p] THEN stock[p] - Wants[k][p] ELSE stock[p]]

RolledBack(k) == UNCHANGED stock

\* One transaction: all the products and all the orders, or none.  When
\* the orders of the instance are used up the request fails.
PlaceOrder(w) ==
  /\ Doing(w, "place")
  /\ LET k == work[w].key  IN
     \/ \E i \in Ids :
          /\ Fresh(i) /\ InStock(k)
          /\ AtomicDecrementStock(k)
          /\ order' = [order EXCEPT ![i] =
               [key |-> k, status |-> "PENDING", row |-> "PENDING", back |-> 0]]
          /\ Do(w, [op |-> "handoff", key |-> k, id |-> i])
     \/ /\ ~ InStock(k) \/ \A i \in Ids : Placed(i)
        /\ RolledBack(k)
        /\ Do(w, [op |-> "release", key |-> k])
        /\ UNCHANGED order
  /\ UNCHANGED <<key, lapsed>>

\* Redis may refuse either call, and the order is there already.
CompleteIdempotency(w) ==
  /\ Doing(w, "handoff")
  /\ LET k == work[w].key  IN
     \/ /\ key' = [key EXCEPT ![k] = work[w].id]
        /\ Do(w, [op |-> "remind", key |-> k, id |-> work[w].id])
        /\ UNCHANGED lapsed
     \/ /\ Do(w, [op |-> "release", key |-> k])
        /\ lapsed' = lapsed \cup {k}
        /\ UNCHANGED key
  /\ UNCHANGED <<stock, order>>

FileReminder(w) ==
  /\ Doing(w, "remind")
  /\ \/ Return(w) /\ UNCHANGED lapsed
     \/ /\ Do(w, [op |-> "release", key |-> work[w].key])
        /\ lapsed' = lapsed \cup {work[w].key}
  /\ UNCHANGED <<key, stock, order>>

ReleaseIdempotencyLock(w) ==
  /\ Doing(w, "release")
  /\ key' = [key EXCEPT ![work[w].key] = None]
  /\ Return(w)
  /\ UNCHANGED <<stock, order, lapsed>>

\* Mutant: the lock is taken without a lifetime.
LimitedAnswersOnly(k) == key[k] \in Ids

\* Thirty seconds for a lock, a day for an answer.
Limited(k) == key[k] # None

Expire(k) ==
  /\ Limited(k)
  /\ key' = [key EXCEPT ![k] = None]
  /\ lapsed' = lapsed \cup {k}
  /\ UNCHANGED <<stock, order, work>>
-----------------------------------------------------------------------------
(* What becomes of the order.  Each reads the order, or the Payment row,   *)
(* and writes in a later step without another look.                        *)

AtomicIncrementStock(i) ==
  stock' = [p \in Products |-> stock[p] + Wants[order[i].key][p]]

\* updatePaymentStatus: only a row that is COMPLETED is left alone.
HearOfPayment(w, i) ==
  /\ Free(w)
  /\ Placed(i) /\ order[i].row # "COMPLETED"
  /\ \E st \in {"FAILED", "COMPLETED"} : Do(w, [op |-> "settle", id |-> i, to |-> st])
  /\ UNCHANGED <<key, stock, order, lapsed>>

SettlePayment(w) ==
  /\ Doing(w, "settle")
  /\ LET i == work[w].id  IN
     \/ /\ work[w].to = "COMPLETED"
        /\ order' = [order EXCEPT ![i].status = "CONFIRMED", ![i].row = "COMPLETED"]
        /\ UNCHANGED stock
     \/ /\ work[w].to = "FAILED" /\ order[i].back < MaxReturns
        /\ order' = [order EXCEPT ![i].status = "CANCELLED", ![i].row = "FAILED",
                                  ![i].back = @ + 1]
        /\ AtomicIncrementStock(i)
  /\ Return(w)
  /\ UNCHANGED <<key, lapsed>>

\* adminAcceptOrder and adminDeclineOrder, of a store that Asoose manages.
LookToDecide(w, i) ==
  /\ Free(w)
  /\ Placed(i) /\ order[i].status = "PENDING"
  /\ \E st \in {"CONFIRMED", "REJECTED"} : Do(w, [op |-> "decide", id |-> i, to |-> st])
  /\ UNCHANGED <<key, stock, order, lapsed>>

Decide(w) ==
  /\ Doing(w, "decide")
  /\ LET i == work[w].id  IN
     \/ /\ work[w].to = "CONFIRMED"
        /\ order' = [order EXCEPT ![i].status = "CONFIRMED"]
        /\ UNCHANGED stock
     \/ /\ work[w].to = "REJECTED" /\ order[i].back < MaxReturns
        /\ order' = [order EXCEPT ![i].status = "REJECTED", ![i].back = @ + 1]
        /\ AtomicIncrementStock(i)
  /\ Return(w)
  /\ UNCHANGED <<key, lapsed>>

\* autoCancelUnpaidOrders, once the order is an hour old.
FindUnpaid(w, i) ==
  /\ Free(w)
  /\ Placed(i) /\ order[i].status = "PENDING"
  /\ Do(w, [op |-> "expire", id |-> i])
  /\ UNCHANGED <<key, stock, order, lapsed>>

CancelUnpaid(w) ==
  /\ Doing(w, "expire")
  /\ order' = [order EXCEPT ![work[w].id].status = "CANCELLED"]
  /\ Return(w)
  /\ UNCHANGED <<key, stock, lapsed>>

Crash == /\ work' = [w \in Handlers |-> None]
         /\ UNCHANGED <<key, stock, order, lapsed>>
-----------------------------------------------------------------------------
Resume(w) == \/ TakeLock(w)
             \/ PrepareOrderContext(w)
             \/ PlaceOrder(w)
             \/ CompleteIdempotency(w)
             \/ FileReminder(w)
             \/ ReleaseIdempotencyLock(w)
             \/ SettlePayment(w)
             \/ Decide(w)
             \/ CancelUnpaid(w)

Ask(w) == \/ \E k \in Keys : CheckIdempotency(w, k)
          \/ \E i \in Ids : HearOfPayment(w, i) \/ LookToDecide(w, i) \/ FindUnpaid(w, i)

Next == \/ \E w \in Handlers : Resume(w) \/ Ask(w)
        \/ \E k \in Keys : Expire(k)
        \/ Crash

Spec == Init /\ [][Next]_vars

\* Redis lets keys lapse without any help of the server.
LiveSpec == Spec /\ \A k \in Keys : WF_vars(Expire(k))
-----------------------------------------------------------------------------
(* Properties.                                                             *)

\* The units of p an order took off the shelf, less those it gave back.
Taken(i, p) ==
  IF Placed(i) THEN Wants[order[i].key][p] * (1 - order[i].back) ELSE 0

(* No unit is lost in a transaction: what is on the shelf and what the     *)
(* orders took and did not give back is what there was at first.  A basket *)
(* one of whose products is short takes nothing.                           *)
UnitsAccounted == \A p \in Products :
  stock[p] + SumFunction([i \in Ids |-> Taken(i, p)]) = Opening[p]

(* The same basket sent twice is one order, as long as its key neither     *)
(* lapsed nor was given up by a request that failed after its commit.      *)
DuplicateNeedsLapse == \A k \in Keys \ lapsed : Cardinality(PlacedFor(k)) <= 1

(* A basket is never locked for good: the key of a request that crashed,   *)
(* wherever it was, makes room for the next one.                           *)
KeyFreed == \A k \in Keys : key[k] = PROCESSING ~> key[k] # PROCESSING
=============================================================================
