------------------------ MODULE OrderPlacementProofs ------------------------
(***************************************************************************)
(* Proofs about OrderPlacement, for any baskets, products and handlers.    *)
(***************************************************************************)
EXTENDS OrderPlacement, FiniteSums

Before(x, k)  == x # None /\ x.op \in {"prepare", "place", "release"} /\ x.key = k
Holding(x, k) == x # None /\ x.op \in {"prepare", "place", "release", "handoff"} /\ x.key = k

(* A key that has not lapsed is locked for the one request at work on it.  *)
Own == \A k \in Keys \ lapsed : \A w \in Handlers :
  Holding(work[w], k) => /\ key[k] = PROCESSING
                         /\ \A v \in Handlers : Holding(work[v], k) => v = w

(* A request that has not committed finds no order of its basket.          *)
Empty == \A k \in Keys \ lapsed : \A w \in Handlers :
  Before(work[w], k) => PlacedFor(k) = {}

(* Nor does one that finds the key free.                                   *)
Unused == \A k \in Keys \ lapsed : key[k] = None => PlacedFor(k) = {}

AtMostOne == \A k \in Keys \ lapsed : \A i, j \in PlacedFor(k) : i = j

(* An order is only decided about once it has been placed.                 *)
Concerns == \A w \in Handlers :
  work[w] # None /\ work[w].op \in {"settle", "decide", "expire"} => Placed(work[w].id)

Typed == PlacementTypeOK /\ Concerns

IInv == Typed /\ Own /\ Empty /\ Unused /\ AtMostOne
-----------------------------------------------------------------------------
LEMMA TaskFields ==
  ASSUME PlacementTypeOK, NEW w \in Handlers, work[w] # None
  PROVE  /\ work[w] \in Task
         /\ work[w].op \in {"lock", "prepare", "place", "release", "handoff", "remind"}
              => work[w].key \in Keys
         /\ work[w].op \in {"handoff", "remind", "settle", "decide", "expire"}
              => work[w].id \in Ids
BY DEF PlacementTypeOK, Task

LEMMA Tasks ==
  /\ \A k \in Keys : \A o \in {"lock", "prepare", "place", "release"} :
       [op |-> o, key |-> k] \in Task
  /\ \A k \in Keys, i \in Ids : \A o \in {"handoff", "remind"} :
       [op |-> o, key |-> k, id |-> i] \in Task
  /\ \A i \in Ids : \A st \in {"FAILED", "COMPLETED"} :
       [op |-> "settle", id |-> i, to |-> st] \in Task
  /\ \A i \in Ids : \A st \in {"CONFIRMED", "REJECTED"} :
       [op |-> "decide", id |-> i, to |-> st] \in Task
  /\ \A i \in Ids : [op |-> "expire", id |-> i] \in Task
BY DEF Task

LEMMA HandlerMoves ==
  ASSUME PlacementTypeOK, NEW w \in Handlers, NEW x \in Task \cup {None}, Do(w, x)
  PROVE  /\ work' \in [Handlers -> Task \cup {None}]
         /\ work'[w] = x
         /\ \A v \in Handlers \ {w} : work'[v] = work[v]
BY DEF PlacementTypeOK, Do

(* Locks and orders as they were, and no new holder of a key.              *)
LEMMA KeysKept ==
  ASSUME IInv, UNCHANGED key, lapsed \subseteq lapsed',
         \A k \in Keys : PlacedFor(k)' = PlacedFor(k),
         \A w \in Handlers, k \in Keys \ lapsed' :
           /\ Holding(work'[w], k) => Holding(work[w], k)
           /\ Before(work'[w], k) => Before(work[w], k)
  PROVE  Own' /\ Empty' /\ Unused' /\ AtMostOne'
<1>1. Own'
  BY DEF IInv, Own, Holding
<1>2. Empty'
  BY DEF IInv, Empty, Before
<1>3. Unused' /\ AtMostOne'
  BY DEF IInv, Unused, AtMostOne
<1> QED BY <1>1, <1>2, <1>3
-----------------------------------------------------------------------------
(* Types.                                                                  *)

LEMMA StockWritten ==
  ASSUME PlacementTypeOK
  PROVE  /\ \A k \in Keys : InStock(k) /\ AtomicDecrementStock(k)
                            => stock' \in [Products -> Nat]
         /\ \A i \in Ids : Placed(i) /\ AtomicIncrementStock(i)
                            => stock' \in [Products -> Nat]
<1>1. \A k \in Keys, p \in Products : stock[p] \in Nat /\ Wants[k][p] \in Nat
  BY PlacementAssumption DEF PlacementAssumption, PlacementTypeOK
<1>2. ASSUME NEW k \in Keys, InStock(k), AtomicDecrementStock(k)
      PROVE  stock' \in [Products -> Nat]
  BY <1>1, <1>2 DEF InStock, AtomicDecrementStock
<1>3. ASSUME NEW i \in Ids, Placed(i), AtomicIncrementStock(i)
      PROVE  stock' \in [Products -> Nat]
  <2>1. order[i].key \in Keys
    BY <1>3 DEF Placed, PlacementTypeOK, Order
  <2> QED BY <1>1, <1>3, <2>1 DEF AtomicIncrementStock
<1> QED BY <1>2, <1>3

LEMMA OrderWritten ==
  ASSUME PlacementTypeOK, NEW i \in Ids, Placed(i),
         NEW new \in Order, new.key = order[i].key,
         order' = [order EXCEPT ![i] = new]
  PROVE  /\ order' \in [Ids -> Order \cup {None}]
         /\ \A j \in Ids : Placed(j)' <=> Placed(j)
         /\ \A k : PlacedFor(k)' = PlacedFor(k)
<1>1. new # None
  BY PlacementAssumption DEF PlacementAssumption
<1>2. order' \in [Ids -> Order \cup {None}]
  BY DEF PlacementTypeOK
<1>3. \A j \in Ids : /\ Placed(j)' <=> Placed(j)
                     /\ Placed(j) => order'[j].key = order[j].key
  BY <1>1 DEF PlacementTypeOK, Placed
<1>4. \A k : PlacedFor(k)' = PlacedFor(k)
  BY <1>3 DEF PlacedFor
<1> QED BY <1>2, <1>3, <1>4

(* What a settlement, a decision or a cancellation makes of an order.      *)
LEMMA OrderSettled ==
  ASSUME PlacementTypeOK, NEW w \in Handlers,
         SettlePayment(w) \/ Decide(w) \/ CancelUnpaid(w),
         work[w].id \in Ids, Placed(work[w].id)
  PROVE  \E new \in Order : /\ new.key = order[work[w].id].key
                            /\ order' = [order EXCEPT ![work[w].id] = new]
<1> DEFINE i == work[w].id
<1>1. order[i] \in Order
  BY DEF PlacementTypeOK, Placed
<1>2. \A st \in Status, row \in {"PENDING", "FAILED", "COMPLETED"}, n \in 0 .. MaxReturns :
        [order[i] EXCEPT !.status = st, !.row = row, !.back = n] \in Order
  BY <1>1 DEF Order
<1>3. order[i].back < MaxReturns => order[i].back + 1 \in 0 .. MaxReturns
  BY <1>1, PlacementAssumption DEF PlacementAssumption, Order
<1>4. CASE SettlePayment(w)
  <2>1. CASE work[w].to = "COMPLETED"
    <3> DEFINE new == [order[i] EXCEPT !.status = "CONFIRMED", !.row = "COMPLETED"]
    <3>1. order' = [order EXCEPT ![i] = new]
      BY <1>4, <2>1 DEF SettlePayment
    <3>2. new \in Order /\ new.key = order[i].key
      BY <1>1 DEF Order, Status
    <3> QED BY <3>1, <3>2
  <2>2. CASE work[w].to = "FAILED"
    <3> DEFINE new == [order[i] EXCEPT !.status = "CANCELLED", !.row = "FAILED", !.back = @ + 1]
    <3>1. order' = [order EXCEPT ![i] = new] /\ order[i].back < MaxReturns
      BY <1>4, <2>2 DEF SettlePayment
    <3>2. new \in Order /\ new.key = order[i].key
      BY <1>1, <1>3, <3>1 DEF Order, Status
    <3> QED BY <3>1, <3>2
  <2> QED BY <1>4, <2>1, <2>2 DEF SettlePayment
<1>5. CASE Decide(w)
  <2>1. CASE work[w].to = "CONFIRMED"
    <3> DEFINE new == [order[i] EXCEPT !.status = "CONFIRMED"]
    <3>1. order' = [order EXCEPT ![i] = new]
      BY <1>5, <2>1 DEF Decide
    <3>2. new \in Order /\ new.key = order[i].key
      BY <1>1 DEF Order, Status
    <3> QED BY <3>1, <3>2
  <2>2. CASE work[w].to = "REJECTED"
    <3> DEFINE new == [order[i] EXCEPT !.status = "REJECTED", !.back = @ + 1]
    <3>1. order' = [order EXCEPT ![i] = new] /\ order[i].back < MaxReturns
      BY <1>5, <2>2 DEF Decide
    <3>2. new \in Order /\ new.key = order[i].key
      BY <1>1, <1>3, <3>1 DEF Order, Status
    <3> QED BY <3>1, <3>2
  <2> QED BY <1>5, <2>1, <2>2 DEF Decide
<1>6. CASE CancelUnpaid(w)
  <2> DEFINE new == [order[i] EXCEPT !.status = "CANCELLED"]
  <2>1. order' = [order EXCEPT ![i] = new]
    BY <1>6 DEF CancelUnpaid
  <2>2. new \in Order /\ new.key = order[i].key
    BY <1>1 DEF Order, Status
  <2> QED BY <2>1, <2>2
<1> QED BY <1>4, <1>5, <1>6

LEMMA TypedInit == Init => Typed
BY PlacementAssumption DEF PlacementAssumption, Init, Typed, PlacementTypeOK, Concerns

(* A handler whose next task concerns no order, or one that is placed.     *)
LEMMA ConcernsKept ==
  ASSUME Typed, NEW w \in Handlers, NEW x \in Task \cup {None}, Do(w, x),
         \A i \in Ids : Placed(i) => Placed(i)',
         x # None /\ x.op \in {"settle", "decide", "expire"} => Placed(x.id)'
  PROVE  Concerns'
<1>1. \A v \in Handlers : work'[v] = IF v = w THEN x ELSE work[v]
  BY HandlerMoves DEF Typed
<1>2. \A v \in Handlers : work[v] # None /\ work[v].op \in {"settle", "decide", "expire"}
        => work[v].id \in Ids
  BY TaskFields DEF Typed
<1> QED BY <1>1, <1>2 DEF Typed, Concerns

LEMMA TypedNext == Typed /\ [Next]_vars => Typed'
<1> SUFFICES ASSUME Typed, [Next]_vars
             PROVE  Typed'
  OBVIOUS
<1>0. PlacementTypeOK
  BY DEF Typed
<1> USE Tasks
<1>1. ASSUME NEW w \in Handlers, NEW k \in Keys, CheckIdempotency(w, k)
      PROVE  Typed'
  <2>1. Concerns'
    BY <1>1, ConcernsKept DEF CheckIdempotency, Placed
  <2>2. PlacementTypeOK'
    BY <1>0, <1>1, HandlerMoves DEF CheckIdempotency, PlacementTypeOK
  <2> QED BY <2>1, <2>2 DEF Typed
<1>2. ASSUME NEW w \in Handlers, TakeLock(w)
      PROVE  Typed'
  <2>1. work[w].key \in Keys
    BY <1>0, <1>2, TaskFields DEF TakeLock, Doing
  <2>2. PICK x \in Task \cup {None} : Do(w, x) /\ (x # None => x.op = "prepare")
    <3> DEFINE x == [op |-> "prepare", key |-> work[w].key]
    <3>1. x \in Task
      BY <2>1
    <3>2. Do(w, None) \/ Do(w, x)
      BY <1>2 DEF TakeLock, Return
    <3> QED BY <3>1, <3>2
  <2>3. Concerns'
    BY <1>2, <2>2, ConcernsKept DEF TakeLock, Placed
  <2>4. PlacementTypeOK'
    BY <1>0, <1>2, <2>1, <2>2, HandlerMoves DEF TakeLock, PlacementTypeOK
  <2> QED BY <2>3, <2>4 DEF Typed
<1>3. ASSUME NEW w \in Handlers, PrepareOrderContext(w)
      PROVE  Typed'
  <2>1. work[w].key \in Keys
    BY <1>0, <1>3, TaskFields DEF PrepareOrderContext, Doing
  <2>2. PICK next \in {"place", "release"} : Do(w, [op |-> next, key |-> work[w].key])
    BY <1>3 DEF PrepareOrderContext
  <2>3. Concerns'
    BY <1>3, <2>1, <2>2, ConcernsKept DEF PrepareOrderContext, Placed
  <2>4. PlacementTypeOK'
    BY <1>0, <1>3, <2>1, <2>2, HandlerMoves DEF PrepareOrderContext, PlacementTypeOK
  <2> QED BY <2>3, <2>4 DEF Typed
<1>4. ASSUME NEW w \in Handlers, PlaceOrder(w)
      PROVE  Typed'
  <2>1. work[w].key \in Keys
    BY <1>0, <1>4, TaskFields DEF PlaceOrder, Doing
  <2>2. PICK x \in Task : Do(w, x) /\ x.op \in {"handoff", "release"}
    BY <1>4, <2>1 DEF PlaceOrder
  <2>3. stock' \in [Products -> Nat]
    BY <1>0, <1>4, <2>1, StockWritten DEF PlaceOrder, RolledBack, PlacementTypeOK
  <2>4. [key |-> work[w].key, status |-> "PENDING", row |-> "PENDING", back |-> 0] \in Order
    BY <2>1, PlacementAssumption DEF PlacementAssumption, Order, Status
  <2>5. order' \in [Ids -> Order \cup {None}]
    BY <1>0, <1>4, <2>4 DEF PlaceOrder, PlacementTypeOK
  <2>6. \A i \in Ids : Placed(i) => Placed(i)'
    BY <1>0, <1>4, <2>4, PlacementAssumption
    DEF PlacementAssumption, PlaceOrder, PlacementTypeOK, Placed, Fresh
  <2>7. Concerns'
    BY <2>2, <2>6, ConcernsKept
  <2>8. PlacementTypeOK'
    BY <1>0, <1>4, <2>2, <2>3, <2>5, HandlerMoves DEF PlaceOrder, PlacementTypeOK
  <2> QED BY <2>7, <2>8 DEF Typed
<1>5. ASSUME NEW w \in Handlers, CompleteIdempotency(w) \/ FileReminder(w)
      PROVE  Typed'
  <2>1. work[w].key \in Keys /\ work[w].id \in Ids
    BY <1>0, <1>5, TaskFields DEF CompleteIdempotency, FileReminder, Doing
  <2>2. PICK x \in Task \cup {None} :
          Do(w, x) /\ (x # None => x.op \in {"remind", "release"})
    <3> DEFINE x == [op |-> "remind", key |-> work[w].key, id |-> work[w].id]
               y == [op |-> "release", key |-> work[w].key]
    <3>1. x \in Task /\ y \in Task
      BY <2>1
    <3>2. Do(w, None) \/ Do(w, x) \/ Do(w, y)
      BY <1>5 DEF CompleteIdempotency, FileReminder, Return
    <3> QED BY <3>1, <3>2
  <2>3. Concerns'
    BY <1>5, <2>2, ConcernsKept DEF CompleteIdempotency, FileReminder, Placed
  <2>4. PlacementTypeOK'
    BY <1>0, <1>5, <2>1, <2>2, HandlerMoves
    DEF CompleteIdempotency, FileReminder, PlacementTypeOK
  <2> QED BY <2>3, <2>4 DEF Typed
<1>6. ASSUME NEW w \in Handlers, ReleaseIdempotencyLock(w)
      PROVE  Typed'
  <2>1. work[w].key \in Keys
    BY <1>0, <1>6, TaskFields DEF ReleaseIdempotencyLock, Doing
  <2>2. Concerns'
    BY <1>6, ConcernsKept DEF ReleaseIdempotencyLock, Return, Placed
  <2>3. PlacementTypeOK'
    BY <1>0, <1>6, <2>1, HandlerMoves DEF ReleaseIdempotencyLock, Return, PlacementTypeOK
  <2> QED BY <2>2, <2>3 DEF Typed
<1>7. ASSUME NEW w \in Handlers, SettlePayment(w) \/ Decide(w) \/ CancelUnpaid(w)
      PROVE  Typed'
  <2> DEFINE i == work[w].id
  <2>1. i \in Ids /\ Placed(i)
    BY <1>0, <1>7, TaskFields DEF SettlePayment, Decide, CancelUnpaid, Doing, Typed, Concerns
  <2>2. PICK new \in Order : new.key = order[i].key /\ order' = [order EXCEPT ![i] = new]
    BY <1>0, <1>7, <2>1, OrderSettled
  <2>3. /\ order' \in [Ids -> Order \cup {None}]
        /\ \A j \in Ids : Placed(j)' <=> Placed(j)
    BY <1>0, <2>1, <2>2, OrderWritten
  <2>4. stock' \in [Products -> Nat]
    BY <1>0, <1>7, <2>1, StockWritten
    DEF SettlePayment, Decide, CancelUnpaid, PlacementTypeOK
  <2>5. Concerns'
    BY <1>7, <2>3, ConcernsKept DEF SettlePayment, Decide, CancelUnpaid, Return
  <2>6. PlacementTypeOK'
    BY <1>0, <1>7, <2>3, <2>4, HandlerMoves
    DEF SettlePayment, Decide, CancelUnpaid, Return, PlacementTypeOK
  <2> QED BY <2>5, <2>6 DEF Typed
<1>8. ASSUME NEW w \in Handlers, NEW i \in Ids,
             HearOfPayment(w, i) \/ LookToDecide(w, i) \/ FindUnpaid(w, i)
      PROVE  Typed'
  <2>1. PICK x \in Task : Do(w, x) /\ x.id = i
    BY <1>8 DEF HearOfPayment, LookToDecide, FindUnpaid
  <2>2. Concerns'
    BY <1>8, <2>1, ConcernsKept DEF HearOfPayment, LookToDecide, FindUnpaid, Placed
  <2>3. PlacementTypeOK'
    BY <1>0, <1>8, <2>1, HandlerMoves DEF HearOfPayment, LookToDecide, FindUnpaid, PlacementTypeOK
  <2> QED BY <2>2, <2>3 DEF Typed
<1>9. ASSUME NEW k \in Keys, Expire(k)
      PROVE  Typed'
  BY <1>9 DEF Expire, Typed, PlacementTypeOK, Concerns, Placed
<1>10. CASE Crash
  BY <1>10 DEF Crash, Typed, PlacementTypeOK, Concerns, Placed
<1>11. CASE UNCHANGED vars
  BY <1>11 DEF vars, Typed, PlacementTypeOK, Concerns, Placed
<1> QED
  BY <1>1, <1>2, <1>3, <1>4, <1>5, <1>6, <1>7, <1>8, <1>9, <1>10, <1>11 DEF Next, Resume, Ask
-----------------------------------------------------------------------------
(* One order to a basket.                                                  *)

LEMMA KeysInit == Init => Own /\ Empty /\ Unused /\ AtMostOne
BY DEF Init, Own, Empty, Unused, AtMostOne, Holding, Before, PlacedFor, Placed

(* A handler that goes on to a task which holds no key.                    *)
LEMMA MovedOn ==
  ASSUME IInv, NEW w \in Handlers, NEW x \in Task \cup {None}, Do(w, x),
         x # None => x.op \notin {"prepare", "place", "release", "handoff"},
         UNCHANGED key, lapsed \subseteq lapsed',
         \A k \in Keys : PlacedFor(k)' = PlacedFor(k)
  PROVE  Own' /\ Empty' /\ Unused' /\ AtMostOne'
<1>1. \A v \in Handlers : work'[v] = IF v = w THEN x ELSE work[v]
  BY HandlerMoves DEF IInv, Typed
<1>2. \A v \in Handlers, k \in Keys :
        /\ Holding(work'[v], k) => Holding(work[v], k)
        /\ Before(work'[v], k) => Before(work[v], k)
  BY <1>1 DEF Holding, Before
<1> QED BY <1>2, KeysKept

(* The only order a request places is one of its own basket.               *)
LEMMA HandedOff ==
  ASSUME NEW w \in Handlers, PlaceOrder(w), NEW x, Do(w, x), x.op = "handoff",
         PlacementTypeOK
  PROVE  \E i \in Ids : /\ Fresh(i)
                        /\ order' = [order EXCEPT ![i] = [key |-> work[w].key,
                             status |-> "PENDING", row |-> "PENDING", back |-> 0]]
<1>1. ~ Do(w, [op |-> "release", key |-> work[w].key])
  BY DEF Do, PlacementTypeOK
<1> QED BY <1>1 DEF PlaceOrder

LEMMA KeysNext == IInv /\ [Next]_vars => Own' /\ Empty' /\ Unused' /\ AtMostOne'
<1> SUFFICES ASSUME IInv, [Next]_vars
             PROVE  Own' /\ Empty' /\ Unused' /\ AtMostOne'
  OBVIOUS
<1>0. PlacementTypeOK
  BY DEF IInv, Typed
<1> USE Tasks
<1>1. ASSUME NEW w \in Handlers, NEW k \in Keys, CheckIdempotency(w, k)
      PROVE  Own' /\ Empty' /\ Unused' /\ AtMostOne'
  <2> DEFINE x == [op |-> "lock", key |-> k]
  <2>1. x \in Task /\ Do(w, x)
    BY <1>1 DEF CheckIdempotency
  <2>2. \A j \in Keys : PlacedFor(j)' = PlacedFor(j)
    BY <1>1 DEF CheckIdempotency, PlacedFor, Placed
  <2> QED BY <1>1, <2>1, <2>2, MovedOn DEF CheckIdempotency
<1>2. ASSUME NEW w \in Handlers, TakeLock(w)
      PROVE  Own' /\ Empty' /\ Unused' /\ AtMostOne'
  <2> DEFINE h == work[w].key
             x == [op |-> "prepare", key |-> h]
  <2>1. h \in Keys /\ x \in Task
    BY <1>0, <1>2, TaskFields DEF TakeLock, Doing
  <2>2. \A k \in Keys : PlacedFor(k)' = PlacedFor(k)
    BY <1>2 DEF TakeLock, PlacedFor, Placed
  <2>3. CASE ~ Lockable(h)
    <3>1. Do(w, None) /\ UNCHANGED <<key, lapsed>>
      BY <1>2, <2>3 DEF TakeLock, Return
    <3> QED BY <2>2, <3>1, MovedOn
  <2>4. CASE Lockable(h)
    <3>1. key[h] = None /\ key' = [key EXCEPT ![h] = PROCESSING] /\ Do(w, x) /\ lapsed' = lapsed
      BY <1>2, <2>4 DEF TakeLock, Lockable
    <3>2. \A k \in Keys : key'[k] = IF k = h THEN PROCESSING ELSE key[k]
      BY <1>0, <3>1 DEF PlacementTypeOK
    <3>3. \A v \in Handlers : work'[v] = IF v = w THEN x ELSE work[v]
      BY <1>0, <2>1, <3>1, HandlerMoves
    <3>4. h \notin lapsed => PlacedFor(h) = {} /\ \A v \in Handlers : ~ Holding(work[v], h)
      BY <2>1, <3>1, PlacementAssumption DEF PlacementAssumption, IInv, Unused, Own
    <3>5. \A v \in Handlers, k \in Keys : k # h \/ v # w =>
            /\ Holding(work'[v], k) => Holding(work[v], k)
            /\ Before(work'[v], k) => Before(work[v], k)
      BY <3>3 DEF Holding, Before
    <3>6. Own'
      BY <2>1, <3>1, <3>2, <3>4, <3>5 DEF IInv, Own
    <3>7. Empty'
      BY <2>1, <2>2, <3>1, <3>4, <3>5 DEF IInv, Empty
    <3>8. Unused' /\ AtMostOne'
      BY <2>1, <2>2, <3>1, <3>2, PlacementAssumption
      DEF PlacementAssumption, IInv, Unused, AtMostOne
    <3> QED BY <3>6, <3>7, <3>8
  <2> QED BY <2>3, <2>4
<1>3. ASSUME NEW w \in Handlers, PrepareOrderContext(w)
      PROVE  Own' /\ Empty' /\ Unused' /\ AtMostOne'
  <2> DEFINE h == work[w].key
  <2>1. h \in Keys
    BY <1>0, <1>3, TaskFields DEF PrepareOrderContext, Doing
  <2>2. PICK next \in {"place", "release"} : Do(w, [op |-> next, key |-> h])
    BY <1>3 DEF PrepareOrderContext
  <2>3. \A v \in Handlers : work'[v] = IF v = w THEN [op |-> next, key |-> h] ELSE work[v]
    BY <1>0, <2>1, <2>2, HandlerMoves
  <2>4. work[w] # None /\ work[w].op = "prepare"
    BY <1>3 DEF PrepareOrderContext, Doing
  <2>5. \A v \in Handlers, k \in Keys :
          /\ Holding(work'[v], k) => Holding(work[v], k)
          /\ Before(work'[v], k) => Before(work[v], k)
    BY <2>3, <2>4 DEF Holding, Before
  <2>6. \A k \in Keys : PlacedFor(k)' = PlacedFor(k)
    BY <1>3 DEF PrepareOrderContext, PlacedFor, Placed
  <2> QED BY <1>3, <2>5, <2>6, KeysKept DEF PrepareOrderContext
<1>4. ASSUME NEW w \in Handlers, PlaceOrder(w)
      PROVE  Own' /\ Empty' /\ Unused' /\ AtMostOne'
  <2> DEFINE h == work[w].key
  <2>1. h \in Keys /\ work[w] # None /\ work[w].op = "place"
    BY <1>0, <1>4, TaskFields DEF PlaceOrder, Doing
  <2>2. PICK x \in Task : Do(w, x) /\ x.key = h /\ x.op \in {"handoff", "release"}
                          /\ (x.op = "release" => order' = order)
    BY <1>4, <2>1 DEF PlaceOrder
  <2>3. \A v \in Handlers : work'[v] = IF v = w THEN x ELSE work[v]
    BY <1>0, <2>2, HandlerMoves
  <2>4. UNCHANGED <<key, lapsed>>
    BY <1>4 DEF PlaceOrder
  <2>5. \A v \in Handlers, k \in Keys : Holding(work'[v], k) => Holding(work[v], k)
    BY <2>1, <2>2, <2>3 DEF Holding
  <2>6. Own'
    BY <2>4, <2>5 DEF IInv, Own
  <2>7. CASE x.op = "release"
    <3>1. \A v \in Handlers, k \in Keys : Before(work'[v], k) => Before(work[v], k)
      BY <2>1, <2>2, <2>3, <2>7 DEF Before
    <3>2. \A k \in Keys : PlacedFor(k)' = PlacedFor(k)
      BY <2>2, <2>7 DEF PlacedFor, Placed
    <3> QED BY <2>4, <2>5, <3>1, <3>2, KeysKept
  <2>8. CASE x.op = "handoff"
    <3>1. PICK i \in Ids : /\ Fresh(i)
                          /\ order' = [order EXCEPT ![i] =
                               [key |-> h, status |-> "PENDING", row |-> "PENDING", back |-> 0]]
      BY <1>4, <2>1, <2>2, <2>8, <1>0, HandedOff
    <3>2. [key |-> h, status |-> "PENDING", row |-> "PENDING", back |-> 0] # None
      BY <2>1, PlacementAssumption DEF PlacementAssumption, Order, Status
    <3>3. \A k \in Keys : PlacedFor(k)' = IF k = h THEN PlacedFor(k) \cup {i} ELSE PlacedFor(k)
      BY <1>0, <2>1, <3>1, <3>2 DEF PlacementTypeOK, PlacedFor, Placed, Fresh
    <3>4. h \notin lapsed => PlacedFor(h) = {}
      BY <2>1 DEF IInv, Empty, Before
    <3>5. h \notin lapsed => key[h] = PROCESSING /\ \A v \in Handlers : Holding(work[v], h) => v = w
      BY <2>1 DEF IInv, Own, Holding
    <3>6. \A v \in Handlers, k \in Keys \ lapsed : Before(work'[v], k) => k # h /\ Before(work[v], k)
      BY <2>1, <2>2, <2>3, <2>8, <3>5 DEF Before, Holding
    <3>7. Empty'
      BY <2>4, <3>3, <3>6 DEF IInv, Empty
    <3>8. Unused' /\ AtMostOne'
      BY <2>4, <3>3, <3>4, <3>5, PlacementAssumption
      DEF PlacementAssumption, IInv, Unused, AtMostOne
    <3> QED BY <2>6, <3>7, <3>8
  <2> QED BY <2>2, <2>7, <2>8
<1>5. ASSUME NEW w \in Handlers, CompleteIdempotency(w) \/ FileReminder(w)
      PROVE  Own' /\ Empty' /\ Unused' /\ AtMostOne'
  <2> DEFINE h == work[w].key
             g == [op |-> "release", key |-> h]
             m == [op |-> "remind", key |-> h, id |-> work[w].id]
  <2>1. h \in Keys /\ work[w].id \in Ids /\ g \in Task /\ m \in Task
    BY <1>0, <1>5, TaskFields DEF CompleteIdempotency, FileReminder, Doing
  <2>2. \A k \in Keys : PlacedFor(k)' = PlacedFor(k)
    BY <1>5 DEF CompleteIdempotency, FileReminder, PlacedFor, Placed
  <2>3. CASE Do(w, g) /\ lapsed' = lapsed \cup {h} /\ UNCHANGED key
    <3>1. \A v \in Handlers : work'[v] = IF v = w THEN g ELSE work[v]
      BY <1>0, <2>1, <2>3, HandlerMoves
    <3>2. \A v \in Handlers, k \in Keys \ lapsed' :
            /\ Holding(work'[v], k) => Holding(work[v], k)
            /\ Before(work'[v], k) => Before(work[v], k)
      BY <2>1, <2>3, <3>1 DEF Holding, Before
    <3> QED BY <2>2, <2>3, <3>2, KeysKept
  <2>4. CASE Do(w, None) /\ UNCHANGED <<key, lapsed>>
    BY <2>2, <2>4, MovedOn
  <2>5. CASE /\ Doing(w, "handoff")
             /\ key' = [key EXCEPT ![h] = work[w].id] /\ Do(w, m) /\ UNCHANGED lapsed
    <3>1. \A v \in Handlers : work'[v] = IF v = w THEN m ELSE work[v]
      BY <1>0, <2>1, <2>5, HandlerMoves
    <3>2. \A k \in Keys : key'[k] = IF k = h THEN work[w].id ELSE key[k]
      BY <1>0, <2>5 DEF PlacementTypeOK
    <3>3. h \notin lapsed => \A v \in Handlers : Holding(work[v], h) => v = w
      BY <2>1, <2>5 DEF IInv, Own, Holding, Doing
    <3>4. \A v \in Handlers, k \in Keys \ lapsed :
            /\ Holding(work'[v], k) => k # h /\ Holding(work[v], k)
            /\ Before(work'[v], k) => Before(work[v], k)
      BY <3>1, <3>3 DEF Holding, Before
    <3>5. Own'
      BY <2>5, <3>2, <3>4 DEF IInv, Own
    <3>6. Empty'
      BY <2>2, <2>5, <3>4 DEF IInv, Empty
    <3>7. Unused' /\ AtMostOne'
      BY <2>1, <2>2, <2>5, <3>2, PlacementAssumption
      DEF PlacementAssumption, IInv, Unused, AtMostOne
    <3> QED BY <3>5, <3>6, <3>7
  <2> QED BY <1>5, <2>3, <2>4, <2>5 DEF CompleteIdempotency, FileReminder, Return
<1>6. ASSUME NEW w \in Handlers, ReleaseIdempotencyLock(w)
      PROVE  Own' /\ Empty' /\ Unused' /\ AtMostOne'
  <2> DEFINE h == work[w].key
  <2>1. /\ h \in Keys /\ work[w] # None /\ work[w].op = "release"
        /\ key' = [key EXCEPT ![h] = None] /\ Do(w, None) /\ UNCHANGED lapsed
    BY <1>0, <1>6, TaskFields DEF ReleaseIdempotencyLock, Doing, Return
  <2>2. \A k \in Keys : PlacedFor(k)' = PlacedFor(k)
    BY <1>6 DEF ReleaseIdempotencyLock, PlacedFor, Placed
  <2>3. \A v \in Handlers : work'[v] = IF v = w THEN None ELSE work[v]
    BY <1>0, <2>1, HandlerMoves
  <2>4. \A k \in Keys : key'[k] = IF k = h THEN None ELSE key[k]
    BY <1>0, <2>1 DEF PlacementTypeOK
  <2>5. h \notin lapsed => /\ PlacedFor(h) = {}
                          /\ \A v \in Handlers : Holding(work[v], h) => v = w
    BY <2>1 DEF IInv, Own, Empty, Holding, Before
  <2>6. \A v \in Handlers, k \in Keys \ lapsed :
          /\ Holding(work'[v], k) => k # h /\ Holding(work[v], k)
          /\ Before(work'[v], k) => Before(work[v], k)
    BY <2>3, <2>5 DEF Holding, Before
  <2>7. Own'
    BY <2>1, <2>4, <2>6 DEF IInv, Own
  <2>8. Empty'
    BY <2>1, <2>2, <2>6 DEF IInv, Empty
  <2>9. Unused' /\ AtMostOne'
    BY <2>1, <2>2, <2>4, <2>5 DEF IInv, Unused, AtMostOne
  <2> QED BY <2>7, <2>8, <2>9
<1>7. ASSUME NEW w \in Handlers, SettlePayment(w) \/ Decide(w) \/ CancelUnpaid(w)
      PROVE  Own' /\ Empty' /\ Unused' /\ AtMostOne'
  <2> DEFINE i == work[w].id
  <2>1. i \in Ids /\ Placed(i)
    BY <1>0, <1>7, TaskFields
    DEF SettlePayment, Decide, CancelUnpaid, Doing, IInv, Typed, Concerns
  <2>2. PICK new \in Order : new.key = order[i].key /\ order' = [order EXCEPT ![i] = new]
    BY <1>0, <1>7, <2>1, OrderSettled
  <2>3. \A k \in Keys : PlacedFor(k)' = PlacedFor(k)
    BY <1>0, <2>1, <2>2, OrderWritten
  <2>4. Do(w, None) /\ UNCHANGED <<key, lapsed>>
    BY <1>7 DEF SettlePayment, Decide, CancelUnpaid, Return
  <2> QED BY <2>3, <2>4, MovedOn
<1>8. ASSUME NEW w \in Handlers, NEW i \in Ids,
             HearOfPayment(w, i) \/ LookToDecide(w, i) \/ FindUnpaid(w, i)
      PROVE  Own' /\ Empty' /\ Unused' /\ AtMostOne'
  <2>1. PICK x \in Task : Do(w, x) /\ x.op \in {"settle", "decide", "expire"}
    BY <1>8 DEF HearOfPayment, LookToDecide, FindUnpaid
  <2>2. \A k \in Keys : PlacedFor(k)' = PlacedFor(k)
    BY <1>8 DEF HearOfPayment, LookToDecide, FindUnpaid, PlacedFor, Placed
  <2> QED BY <1>8, <2>1, <2>2, MovedOn DEF HearOfPayment, LookToDecide, FindUnpaid
<1>9. ASSUME NEW k \in Keys, Expire(k)
      PROVE  Own' /\ Empty' /\ Unused' /\ AtMostOne'
  <2>1. /\ lapsed' = lapsed \cup {k} /\ UNCHANGED <<order, work>>
        /\ \A j \in Keys \ {k} : key'[j] = key[j]
    BY <1>0, <1>9 DEF Expire, PlacementTypeOK
  <2>2. \A j \in Keys : PlacedFor(j)' = PlacedFor(j)
    BY <2>1 DEF PlacedFor, Placed
  <2>3. Own'
    BY <2>1 DEF IInv, Own, Holding
  <2>4. Empty'
    BY <2>1, <2>2 DEF IInv, Empty, Before
  <2>5. Unused' /\ AtMostOne'
    BY <2>1, <2>2 DEF IInv, Unused, AtMostOne
  <2> QED BY <2>3, <2>4, <2>5
<1>10. CASE Crash
  <2>1. \A k \in Keys : PlacedFor(k)' = PlacedFor(k)
    BY <1>10 DEF Crash, PlacedFor, Placed
  <2>2. \A v \in Handlers : work'[v] = None
    BY <1>10 DEF Crash
  <2> QED BY <1>10, <2>1, <2>2, KeysKept DEF Crash, Holding, Before
<1>11. CASE UNCHANGED vars
  <2>1. \A k \in Keys : PlacedFor(k)' = PlacedFor(k)
    BY <1>11 DEF vars, PlacedFor, Placed
  <2> QED BY <1>11, <2>1, KeysKept DEF vars, Holding, Before
<1> QED
  BY <1>1, <1>2, <1>3, <1>4, <1>5, <1>6, <1>7, <1>8, <1>9, <1>10, <1>11 DEF Next, Resume, Ask
-----------------------------------------------------------------------------
(* No unit is lost.                                                        *)

TakenOf(p) == [i \in Ids |-> Taken(i, p)]

LEMMA TakenTyped ==
  ASSUME PlacementTypeOK, NEW p \in Products
  PROVE  TakenOf(p) \in [Ids -> Int]
<1> SUFFICES ASSUME NEW i \in Ids, Placed(i)
             PROVE  Wants[order[i].key][p] * (1 - order[i].back) \in Int
  BY DEF TakenOf, Taken
<1>1. order[i].key \in Keys /\ order[i].back \in 0 .. MaxReturns
  BY DEF PlacementTypeOK, Placed, Order
<1>2. Wants[order[i].key][p] \in Nat /\ MaxReturns \in Nat
  BY <1>1, PlacementAssumption DEF PlacementAssumption
<1> QED BY <1>1, <1>2

LEMMA TakenTypedNext ==
  ASSUME PlacementTypeOK', NEW p \in Products
  PROVE  TakenOf(p)' \in [Ids -> Int]
<1> SUFFICES ASSUME NEW i \in Ids, Placed(i)'
             PROVE  Wants[order'[i].key][p] * (1 - order'[i].back) \in Int
  BY DEF TakenOf, Taken
<1>1. order'[i].key \in Keys /\ order'[i].back \in 0 .. MaxReturns
  BY DEF PlacementTypeOK, Placed, Order
<1>2. Wants[order'[i].key][p] \in Nat /\ MaxReturns \in Nat
  BY <1>1, PlacementAssumption DEF PlacementAssumption
<1> QED BY <1>1, <1>2

(* What one order takes comes off the shelf, and goes back on it.          *)
LEMMA OneOrderMoves ==
  ASSUME Typed, Typed', UnitsAccounted, NEW i \in Ids,
         \A j \in Ids \ {i} : order'[j] = order[j],
         \A p \in Products : stock'[p] = stock[p] + (Taken(i, p) - Taken(i, p)')
  PROVE  UnitsAccounted'
<1> SUFFICES ASSUME NEW p \in Products
             PROVE  stock'[p] + SumFunction(TakenOf(p)') = Opening[p]
  BY DEF UnitsAccounted, TakenOf
<1>1. TakenOf(p) \in [Ids -> Int]
  BY TakenTyped DEF Typed
<1>2. TakenOf(p)' \in [Ids -> Int]
  BY TakenTypedNext DEF Typed
<1>3. /\ TakenOf(p)[i] = Taken(i, p) /\ TakenOf(p)'[i] = Taken(i, p)'
      /\ \A j \in Ids \ {i} : TakenOf(p)'[j] = TakenOf(p)[j]
  BY DEF TakenOf, Taken, Placed
<1>4. /\ SumFunction(TakenOf(p)) \in Int
      /\ SumFunction(TakenOf(p)') = SumFunction(TakenOf(p)) + (TakenOf(p)'[i] - TakenOf(p)[i])
  <2>1. ASSUME NEW f \in [Ids -> Int], NEW g \in [Ids -> Int],
               \A j \in Ids \ {i} : g[j] = f[j]
        PROVE  /\ SumFunction(f) \in Int
               /\ SumFunction(g) = SumFunction(f) + (g[i] - f[i])
    <3>1. IsFiniteSet(Ids)
      BY PlacementAssumption DEF PlacementAssumption
    <3> QED BY <2>1, <3>1, TotalChanges
  <2> QED BY <1>1, <1>2, <1>3, <2>1
<1>5. stock[p] + SumFunction(TakenOf(p)) = Opening[p]
  BY DEF UnitsAccounted, TakenOf
<1>6. stock[p] \in Int /\ TakenOf(p)[i] \in Int /\ TakenOf(p)'[i] \in Int
  BY <1>1, <1>2 DEF Typed, PlacementTypeOK
<1> QED BY <1>3, <1>4, <1>5, <1>6

LEMMA UnitsKept ==
  ASSUME UnitsAccounted, UNCHANGED <<stock, order>>
  PROVE  UnitsAccounted'
<1>1. \A p \in Products : TakenOf(p)' = TakenOf(p)
  BY DEF TakenOf, Taken, Placed
<1>2. \A p \in Products : stock[p] + SumFunction(TakenOf(p)) = Opening[p]
  BY DEF UnitsAccounted, TakenOf
<1>3. \A p \in Products : stock'[p] + SumFunction(TakenOf(p)') = Opening[p]
  BY <1>1, <1>2
<1> QED BY <1>3 DEF UnitsAccounted, TakenOf

LEMMA UnitsInit == Init => UnitsAccounted
<1> SUFFICES ASSUME Init, NEW p \in Products
             PROVE  stock[p] + SumFunction(TakenOf(p)) = Opening[p]
  BY DEF UnitsAccounted, TakenOf
<1>1. TakenOf(p) \in [Ids -> {0}]
  BY DEF Init, TakenOf, Taken, Placed
<1>2. SumFunction(TakenOf(p)) = 0
  BY <1>1, TotalOfZeros, PlacementAssumption DEF PlacementAssumption
<1>3. stock[p] = Opening[p] /\ Opening[p] \in Nat
  BY PlacementAssumption DEF PlacementAssumption, Init
<1> QED BY <1>2, <1>3

LEMMA UnitsPlaced ==
  ASSUME Typed, Typed', UnitsAccounted, NEW w \in Handlers, PlaceOrder(w)
  PROVE  UnitsAccounted'
<1> DEFINE k == work[w].key
           new == [key |-> k, status |-> "PENDING", row |-> "PENDING", back |-> 0]
<1>1. k \in Keys
  BY TaskFields DEF Typed, PlaceOrder, Doing
<1>2. CASE UNCHANGED order /\ RolledBack(k)
  BY <1>2, UnitsKept DEF RolledBack
<1>3. ASSUME NEW i \in Ids, Fresh(i), AtomicDecrementStock(k),
             order' = [order EXCEPT ![i] = new]
      PROVE  UnitsAccounted'
  <2>1. /\ \A j \in Ids \ {i} : order'[j] = order[j]
        /\ order'[i] = new /\ ~ Placed(i)
    BY <1>3 DEF Typed, PlacementTypeOK, Fresh
  <2>2. new # None
    BY <1>1, PlacementAssumption DEF PlacementAssumption, Order, Status
  <2>3. ASSUME NEW p \in Products
        PROVE  stock'[p] = stock[p] + (Taken(i, p) - Taken(i, p)')
    <3>1. stock[p] \in Int /\ Wants[k][p] \in Int
      BY <1>1, PlacementAssumption DEF PlacementAssumption, Typed, PlacementTypeOK
    <3>2. stock'[p] = stock[p] - Wants[k][p]
      BY <1>3 DEF AtomicDecrementStock
    <3>3. Taken(i, p) = 0
      BY <2>1 DEF Taken
    <3>4. Taken(i, p)' = Wants[k][p] * (1 - 0)
      BY <2>1, <2>2 DEF Taken, Placed
    <3> QED BY <3>1, <3>2, <3>3, <3>4
  <2> QED BY <2>1, <2>3, OneOrderMoves
<1> QED BY <1>2, <1>3 DEF PlaceOrder

LEMMA UnitsSettled ==
  ASSUME Typed, Typed', UnitsAccounted, NEW w \in Handlers,
         SettlePayment(w) \/ Decide(w) \/ CancelUnpaid(w)
  PROVE  UnitsAccounted'
<1>1. PICK i \in Ids : i = work[w].id /\ Placed(i) /\ order[i] \in Order
  BY TaskFields DEF Typed, PlacementTypeOK, SettlePayment, Decide, CancelUnpaid, Doing,
     Concerns, Placed
<1>2. /\ \A j \in Ids \ {i} : order'[j] = order[j]
      /\ Placed(i)' /\ order'[i].key = order[i].key
  <2>1. PICK new \in Order : new.key = order[i].key /\ order' = [order EXCEPT ![i] = new]
    BY <1>1, OrderSettled DEF Typed
  <2>2. new # None
    BY PlacementAssumption DEF PlacementAssumption
  <2> QED BY <1>1, <2>1, <2>2 DEF Typed, PlacementTypeOK, Placed
<1>3. \/ order'[i].back = order[i].back /\ UNCHANGED stock
      \/ order'[i].back = order[i].back + 1 /\ AtomicIncrementStock(i)
  BY <1>1 DEF SettlePayment, Decide, CancelUnpaid, Typed, PlacementTypeOK, Order
<1>4. ASSUME NEW p \in Products
      PROVE  stock'[p] = stock[p] + (Taken(i, p) - Taken(i, p)')
  <2> DEFINE n == Wants[order[i].key][p]
             b == order[i].back
  <2>1. stock[p] \in Int /\ n \in Int /\ b \in Int
    BY <1>1, PlacementAssumption DEF PlacementAssumption, Typed, PlacementTypeOK, Order
  <2>2. Taken(i, p) = n * (1 - b) /\ Taken(i, p)' = n * (1 - order'[i].back)
    BY <1>1, <1>2 DEF Taken
  <2>3. CASE order'[i].back = b /\ UNCHANGED stock
    <3>1. n * (1 - b) \in Int
      BY <2>1
    <3> QED BY <2>1, <2>2, <2>3, <3>1
  <2>4. CASE order'[i].back = b + 1 /\ stock'[p] = stock[p] + n
    <3>1. n * (1 - b) - n * (1 - (b + 1)) = n
      BY <2>1
    <3> HIDE DEF n, b
    <3> QED BY <2>1, <2>2, <2>4, <3>1
  <2> QED BY <1>3, <2>3, <2>4 DEF AtomicIncrementStock
<1> QED BY <1>1, <1>2, <1>4, OneOrderMoves

LEMMA UnitsNext == Typed /\ UnitsAccounted /\ [Next]_vars => UnitsAccounted'
<1> SUFFICES ASSUME Typed, UnitsAccounted, [Next]_vars
             PROVE  UnitsAccounted'
  OBVIOUS
<1>1. Typed'
  BY TypedNext
<1>2. ASSUME NEW w \in Handlers, PlaceOrder(w)
      PROVE  UnitsAccounted'
  BY <1>1, <1>2, UnitsPlaced
<1>3. ASSUME NEW w \in Handlers, SettlePayment(w) \/ Decide(w) \/ CancelUnpaid(w)
      PROVE  UnitsAccounted'
  BY <1>1, <1>3, UnitsSettled
<1>4. CASE UNCHANGED <<stock, order>>
  BY <1>4, UnitsKept
<1> QED BY <1>2, <1>3, <1>4 DEF Next, Resume, Ask, TakeLock, PrepareOrderContext,
  CompleteIdempotency, FileReminder, ReleaseIdempotencyLock, CheckIdempotency,
  HearOfPayment, LookToDecide, FindUnpaid, Expire, Crash, vars
-----------------------------------------------------------------------------
THEOREM Inductive == Spec => []IInv
<1>1. Init => IInv
  BY TypedInit, KeysInit DEF IInv
<1>2. IInv /\ [Next]_vars => IInv'
  BY TypedNext, KeysNext DEF IInv
<1> QED BY <1>1, <1>2, PTL DEF Spec

(* No sequence of requests, payments, decisions and restarts takes a       *)
(* variable out of its type; the stock never goes below nothing.           *)
THEOREM PlacementTypeCorrect == Spec => []PlacementTypeOK
<1>1. IInv => PlacementTypeOK
  BY DEF IInv, Typed
<1> QED BY <1>1, Inductive, PTL

(* However often a basket is sent and whichever requests crash, it becomes *)
(* a second order only after its key lapsed or was given up.               *)
THEOREM DuplicatesNeedLapse == Spec => []DuplicateNeedsLapse
<1>1. IInv => DuplicateNeedsLapse
  <2> SUFFICES ASSUME IInv, NEW k \in Keys \ lapsed
               PROVE  Cardinality(PlacedFor(k)) <= 1
    BY DEF DuplicateNeedsLapse
  <2>1. \A i, j \in PlacedFor(k) : i = j
    BY DEF IInv, AtMostOne
  <2>2. CASE PlacedFor(k) = {}
    BY <2>2, FS_EmptySet
  <2>3. CASE PlacedFor(k) # {}
    <3>1. PICK i : PlacedFor(k) = {i}
      BY <2>1, <2>3
    <3>2. Cardinality({i}) = 1
      BY FS_Singleton
    <3> QED BY <3>1, <3>2
  <2> QED BY <2>2, <2>3
<1> QED BY <1>1, Inductive, PTL

(* Units taken by orders, given back by failed payments and declines, and  *)
(* those on the shelf always add up, whatever overlaps or breaks off.      *)
THEOREM UnitsAreAccounted == Spec => []UnitsAccounted
<1>1. Init => Typed /\ UnitsAccounted
  BY TypedInit, UnitsInit
<1>2. Typed /\ UnitsAccounted /\ [Next]_vars => (Typed /\ UnitsAccounted)'
  BY TypedNext, UnitsNext
<1> QED BY <1>1, <1>2, PTL DEF Spec
=============================================================================
