-------------------------- MODULE FulfilmentProofs --------------------------
(***************************************************************************)
(* Proofs about Fulfilment, for any group of orders, riders and handlers.  *)
(***************************************************************************)
EXTENDS Fulfilment, FiniteSetTheorems, TLAPS

Stops == Cardinality(Orders)

(* What is under way knows that all the orders were ready.                 *)
KnownReady ==
  /\ \A o \in Orders : order[o] = "READY" => o \in ready
  /\ \A w \in Handlers : Doing(w, "match") \/ Doing(w, "enqueue") => ready = Orders
  /\ starts > 0 => ready = Orders

(* Until an administrator interferes, the legs before the current one were *)
(* collected, and whatever presupposes a pickup comes after all of them.   *)
AllPicked == picked = 0 .. Stops - 1

Collected(leg) == leg < Stops /\ 0 .. leg - 1 \subseteq picked

After(w) == Doing(w, "dispatch") \/ Doing(w, "deliver") \/ Doing(w, "earn") \/ Doing(w, "pay")

ByAdmin(w) == \/ Doing(w, "status") \/ Doing(w, "recheck") \/ Doing(w, "overrule")
              \/ Doing(w, "commit")
              \/ (Doing(w, "earn") \/ Doing(w, "pay")) /\ work[w].outer

Flow == hands = 0 =>
  /\ picked \subseteq 0 .. Stops - 1
  /\ delivery.stops = Stops /\ Collected(delivery.leg)
  /\ delivery.status = "PICKED_UP" => AllPicked
  /\ \A r \in Riders : earned[r] > 0 => AllPicked
  /\ \A o \in Orders : order[o] = "DISPATCHED" => AllPicked
  /\ \A w \in Handlers :
       /\ ~ ByAdmin(w)
       /\ After(w) => AllPicked
       /\ Doing(w, "pickup") => work[w].stops = Stops /\ Collected(work[w].leg)

(* Each search, begun or still to begin, is paid for by the delivery as it *)
(* was created or by an administrator who puts it back.                    *)
Starter(w) == Doing(w, "enqueue") \/ (Doing(w, "status") /\ work[w].to = "PENDING")
Starters   == {w \in Handlers : Starter(w)}
Waiting    == IF delivery.status = "PENDING" THEN 1 ELSE 0
Budget     == starts + Cardinality(Starters) + Waiting <= 1 + hands

IInv == FulfilmentTypeOK /\ KnownReady /\ Flow /\ Budget
-----------------------------------------------------------------------------
LEMMA StopsPositive == Stops \in Nat /\ Stops > 0
BY FulfilmentAssumption, FS_CardinalityType, FS_EmptySet DEF FulfilmentAssumption, Stops

LEMMA TaskFields ==
  ASSUME FulfilmentTypeOK, NEW w \in Handlers, work[w] # None
  PROVE  /\ work[w] \in Task
         /\ work[w].op = "order" => /\ work[w].order \in Orders
                                    /\ work[w].to \in {"CONFIRMED", "REJECTED", "PREPARING", "READY"}
         /\ work[w].op \in {"accept", "assign", "deliver", "earn", "pay"}
              => work[w].rider \in Riders
         /\ work[w].op \in {"recheck", "overrule"} => work[w].rider \in Riders \cup {None}
         /\ work[w].op = "pickup" => work[w].leg \in Legs /\ work[w].stops \in Legs
         /\ work[w].op \in {"earn", "pay"} => work[w].outer \in BOOLEAN
         /\ work[w].op = "status" => work[w].to \in DeliveryStatus \ {"DELIVERED"}
BY DEF FulfilmentTypeOK, Task

LEMMA Tasks ==
  /\ \A o \in Orders : \A to \in {"CONFIRMED", "REJECTED", "PREPARING", "READY"} :
       [op |-> "order", order |-> o, to |-> to] \in Task
  /\ \A op \in {"count", "match", "enqueue", "dispatch", "decline", "cancel", "commit"} :
       [op |-> op] \in Task
  /\ \A r \in Riders : \A op \in {"accept", "assign", "deliver"} :
       [op |-> op, rider |-> r] \in Task
  /\ \A to \in {"COMPLETED", "FAILED", "PENDING"} : [op |-> "settle", to |-> to] \in Task
  /\ \A l, n \in Legs : [op |-> "pickup", leg |-> l, stops |-> n] \in Task
  /\ \A r \in Riders : \A b \in BOOLEAN :
       /\ [op |-> "earn", rider |-> r, outer |-> b] \in Task
       /\ [op |-> "pay", rider |-> r, outer |-> b] \in Task
  /\ \A s \in DeliveryStatus \ {"DELIVERED"} : [op |-> "status", to |-> s] \in Task
  /\ \A r \in Riders \cup {None} : /\ [op |-> "recheck", rider |-> r] \in Task
                                  /\ [op |-> "overrule", rider |-> r] \in Task
BY DEF Task

LEMMA HandlerMoves ==
  ASSUME FulfilmentTypeOK, NEW w \in Handlers, NEW x \in Task \cup {None}, Do(w, x)
  PROVE  /\ work' \in [Handlers -> Task \cup {None}]
         /\ work'[w] = x
         /\ \A v \in Handlers \ {w} : work'[v] = work[v]
BY DEF FulfilmentTypeOK, Do

(* Every step of a handler gives it a task, or frees it.                   *)
LEMMA HandlerTyped ==
  ASSUME FulfilmentTypeOK, NEW w \in Handlers, Ask(w) \/ Resume(w)
  PROVE  \E x \in Task \cup {None} : Do(w, x)
<1> DEFINE Moved == \E x \in Task \cup {None} : Do(w, x)
<1>0. Return(w) => Moved
  BY DEF Return
<1>1. ASSUME NEW o \in Orders, ReadOrder(w, o) PROVE Moved
  BY <1>1, Tasks DEF ReadOrder
<1>2. ASSUME NEW r \in Riders, ReadToAccept(w, r) PROVE Moved
  BY <1>2, Tasks DEF ReadToAccept
<1>3. ASSUME NEW r \in Riders, ReadToCancel(w, r) PROVE Moved
  BY <1>3, Tasks DEF ReadToCancel
<1>4. ASSUME NEW r \in Riders, ReadToPickUp(w, r) PROVE Moved
  <2>1. delivery.leg \in Legs /\ delivery.stops \in Legs
    BY DEF FulfilmentTypeOK
  <2> QED BY <1>4, <2>1, Tasks DEF ReadToPickUp
<1>5. ASSUME NEW r \in Riders, ReadToDeliver(w, r) PROVE Moved
  BY <1>5, Tasks DEF ReadToDeliver
<1>6. ASSUME NEW r \in Riders, ReadToAssign(w, r) PROVE Moved
  BY <1>6, Tasks DEF ReadToAssign
<1>19. CASE ReadToSettle(w)
  BY <1>19, Tasks DEF ReadToSettle
<1>7. CASE ReadToUpdate(w)
  <2>1. delivery.rider \in Riders \cup {None}
    BY DEF FulfilmentTypeOK
  <2> QED BY <1>7, <2>1, Tasks DEF ReadToUpdate
<1>8. CASE WriteOrder(w)
  BY <1>0, <1>8, Tasks DEF WriteOrder
<1>9. CASE HandleGroupOrderReady(w)
  BY <1>0, <1>9, Tasks DEF HandleGroupOrderReady
<1>10. CASE StartDeliveryMatching(w)
  BY <1>0, <1>10, Tasks DEF StartDeliveryMatching
<1>11. CASE \/ EnqueueDeliveryMatching(w) \/ ListenerFails(w) \/ AcceptJob(w) \/ DeclineJob(w)
            \/ CancelJob(w) \/ DispatchOrders(w) \/ SettlePayment(w) \/ AssignRider(w)
            \/ UpdateStatus(w) \/ CommitOverride(w)
  BY <1>0, <1>11 DEF EnqueueDeliveryMatching, ListenerFails, AcceptJob, DeclineJob, CancelJob,
     DispatchOrders, SettlePayment, AssignRider, UpdateStatus, CommitOverride
<1>12. CASE ConfirmPickup(w)
  BY <1>0, <1>12, Tasks DEF ConfirmPickup
<1>13. CASE CompleteJob(w)
  BY <1>13, Tasks, TaskFields DEF CompleteJob, Doing
<1>14. Done(w) => Moved
  BY <1>0, Tasks DEF Done
<1>15. CASE FindEarning(w)
  <2>1. /\ work[w].op = "earn" /\ work[w] \in Task
        /\ work[w].rider \in Riders /\ work[w].outer \in BOOLEAN
    BY <1>15, TaskFields DEF FindEarning, Doing
  <2>2. [work[w] EXCEPT !.op = "pay"] \in Task
    BY <2>1 DEF Task
  <2> QED BY <1>14, <1>15, <2>2 DEF FindEarning
<1>16. CASE RecordDeliveryEarnings(w)
  BY <1>0, <1>14, <1>16 DEF RecordDeliveryEarnings
<1>17. CASE Recheck(w)
  <2>1. work[w].op = "recheck" /\ work[w] \in Task
    BY <1>17, TaskFields DEF Recheck, Doing
  <2>2. [work[w] EXCEPT !.op = "overrule"] \in Task
    BY <2>1 DEF Task
  <2> QED BY <1>0, <1>17, <2>2 DEF Recheck
<1>18. CASE Overrule(w)
  <2>1. work[w].rider \in Riders \cup {None}
    BY <1>18, TaskFields DEF Overrule, Doing
  <2> QED BY <1>18, <2>1, Tasks DEF Overrule
<1> QED
  BY <1>1, <1>2, <1>3, <1>4, <1>5, <1>6, <1>7, <1>8, <1>9, <1>10, <1>11, <1>12, <1>13,
     <1>15, <1>16, <1>17, <1>18, <1>19 DEF Ask, Resume
-----------------------------------------------------------------------------
(* Types.                                                                  *)

LEMMA InitTyped == Init => FulfilmentTypeOK
<1>1. Stops \in Legs /\ 0 \in Legs
  BY StopsPositive DEF Legs, Stops
<1>2. 0 \in 0 .. MaxHands
  BY FulfilmentAssumption DEF FulfilmentAssumption
<1> SUFFICES ASSUME Init PROVE FulfilmentTypeOK
  OBVIOUS
<1>3. order \in [Orders -> OrderStatus] /\ earned \in [Riders -> Nat]
  BY DEF Init, OrderStatus
<1>4. work \in [Handlers -> Task \cup {None}]
  BY DEF Init
<1>5. paid \in BOOLEAN /\ lost \in BOOLEAN
  BY DEF Init
<1>6. delivery \in [status : DeliveryStatus, rider : Riders \cup {None},
                    leg : Legs, stops : Legs]
  BY <1>1 DEF Init, DeliveryStatus, Stops
<1>7. /\ ready \subseteq Orders /\ starts \in Nat /\ picked \subseteq Legs
      /\ hands \in 0 .. MaxHands
  BY <1>2 DEF Init
<1> QED BY <1>3, <1>4, <1>5, <1>6, <1>7 DEF FulfilmentTypeOK

LEMMA NextTyped == FulfilmentTypeOK /\ [Next]_vars => FulfilmentTypeOK'
<1> SUFFICES ASSUME FulfilmentTypeOK, [Next]_vars PROVE FulfilmentTypeOK'
  OBVIOUS
<1> USE DEF OrderStatus, DeliveryStatus
<1>a. 0 \in Legs /\ Stops \in Legs /\ 1 \in Legs
  BY StopsPositive DEF Legs, Stops
<1>1. ASSUME NEW w \in Handlers, Ask(w) PROVE FulfilmentTypeOK'
  <2>1. work' \in [Handlers -> Task \cup {None}]
    BY <1>1, HandlerTyped, HandlerMoves
  <2>2. UNCHANGED rows /\ UNCHANGED <<ready, starts, picked, lost>>
    BY <1>1 DEF Ask, ReadOrder, ReadToAccept, ReadToCancel, ReadToPickUp, ReadToDeliver,
       ReadToAssign, ReadToSettle, ReadToUpdate, Override, past
  <2>3. hands' \in 0 .. MaxHands
    <3>1. \/ hands' = hands
          \/ hands < MaxHands /\ hands' = hands + 1
      BY <1>1 DEF Ask, ReadOrder, ReadToAccept, ReadToCancel, ReadToPickUp, ReadToDeliver,
         ReadToAssign, ReadToSettle, ReadToUpdate, Override, past
    <3> QED BY <3>1, FulfilmentAssumption DEF FulfilmentTypeOK, FulfilmentAssumption
  <2> QED BY <2>1, <2>2, <2>3 DEF FulfilmentTypeOK, rows
<1>2. ASSUME NEW w \in Handlers, Resume(w) PROVE FulfilmentTypeOK'
  <2>0. work' \in [Handlers -> Task \cup {None}]
    BY <1>2, HandlerTyped, HandlerMoves
  <2>1. CASE WriteOrder(w)
    <3>1. work[w].order \in Orders /\ work[w].to \in OrderStatus
      BY <2>1, TaskFields DEF WriteOrder, Doing
    <3> QED BY <2>0, <2>1, <3>1 DEF WriteOrder, FulfilmentTypeOK
  <2>2. CASE \/ HandleGroupOrderReady(w) \/ FindEarning(w) \/ Recheck(w) \/ Overrule(w)
    BY <2>0, <2>2 DEF HandleGroupOrderReady, FindEarning, Recheck, Overrule, rows, past,
                      FulfilmentTypeOK
  <2>3. CASE StartDeliveryMatching(w)
    BY <2>0, <2>3 DEF StartDeliveryMatching, past, FulfilmentTypeOK
  <2>4. CASE EnqueueDeliveryMatching(w)
    <3>1. starts' \in Nat
      BY <2>4 DEF EnqueueDeliveryMatching, FulfilmentTypeOK
    <3>2. UNCHANGED <<rows, ready, picked, lost, hands>>
      BY <2>4 DEF EnqueueDeliveryMatching
    <3> QED BY <2>0, <3>1, <3>2 DEF rows, FulfilmentTypeOK
  <2>11. CASE ListenerFails(w)
    BY <2>0, <2>11 DEF ListenerFails, rows, FulfilmentTypeOK
  <2>12. CASE SettlePayment(w)
    <3>1. order' \in [Orders -> OrderStatus] /\ paid' \in BOOLEAN
      BY <2>12 DEF SettlePayment, FulfilmentTypeOK
    <3> QED BY <2>0, <2>12, <3>1 DEF SettlePayment, past, FulfilmentTypeOK
  <2>5. CASE AcceptJob(w) \/ AssignRider(w)
    <3>1. work[w].rider \in Riders
      BY <2>5, TaskFields DEF AcceptJob, AssignRider, Doing
    <3> QED BY <2>0, <2>5, <3>1 DEF AcceptJob, AssignRider, past, FulfilmentTypeOK
  <2>6. CASE DeclineJob(w) \/ CancelJob(w) \/ CompleteJob(w) \/ CommitOverride(w)
    BY <2>0, <2>6 DEF DeclineJob, CancelJob, CompleteJob, CommitOverride, past,
                      FulfilmentTypeOK
  <2>7. CASE ConfirmPickup(w)
    <3>1. work[w].leg \in Legs /\ work[w].stops \in Legs
      BY <2>7, TaskFields DEF ConfirmPickup, Doing
    <3>2. ~ LastLeg(work[w].leg, work[w].stops) => work[w].leg + 1 \in Legs
      BY <3>1, StopsPositive DEF LastLeg, Legs, Stops
    <3>4. picked' \subseteq Legs
      BY <2>7, <3>1 DEF ConfirmPickup, FulfilmentTypeOK
    <3>5. PICK n \in Legs :
            IF LastLeg(work[w].leg, work[w].stops)
            THEN delivery' = [delivery EXCEPT !.status = "PICKED_UP", !.stops = n]
            ELSE delivery' = [delivery EXCEPT !.leg = work[w].leg + 1, !.stops = n]
      BY <2>7, <3>1 DEF ConfirmPickup, FulfilmentTypeOK
    <3>6. delivery' \in [status : DeliveryStatus, rider : Riders \cup {None},
                         leg : Legs, stops : Legs]
      BY <3>2, <3>5 DEF FulfilmentTypeOK
    <3> QED BY <2>0, <2>7, <3>4, <3>6 DEF ConfirmPickup, FulfilmentTypeOK
  <2>8. CASE DispatchOrders(w)
    BY <2>0, <2>8 DEF DispatchOrders, past, FulfilmentTypeOK
  <2>9. CASE RecordDeliveryEarnings(w)
    <3>1. work[w].rider \in Riders
      BY <2>9, TaskFields DEF RecordDeliveryEarnings, Doing
    <3>2. earned' \in [Riders -> Nat]
      BY <2>9, <3>1 DEF RecordDeliveryEarnings, FulfilmentTypeOK
    <3> QED BY <2>0, <2>9, <3>2 DEF RecordDeliveryEarnings, past, FulfilmentTypeOK
  <2>10. CASE UpdateStatus(w)
    <3>1. work[w].to \in DeliveryStatus
      BY <2>10, TaskFields DEF UpdateStatus, Doing
    <3> QED BY <2>0, <2>10, <3>1 DEF UpdateStatus, past, FulfilmentTypeOK
  <2> QED BY <1>2, <2>1, <2>2, <2>3, <2>4, <2>5, <2>6, <2>7, <2>8, <2>9, <2>10, <2>11, <2>12
           DEF Resume
<1>3. CASE CancelDelivery
  BY <1>3 DEF CancelDelivery, past, FulfilmentTypeOK
<1>4. ASSUME NEW r \in Riders, AssignRiderToGroup(r) PROVE FulfilmentTypeOK'
  BY <1>4, <1>a, FulfilmentAssumption
     DEF AssignRiderToGroup, Override, FulfilmentTypeOK, FulfilmentAssumption
<1>5. CASE ForceStatusChange
  BY <1>5, FulfilmentAssumption
     DEF ForceStatusChange, FulfilmentTypeOK, FulfilmentAssumption
<1>6. CASE Crash
  BY <1>6 DEF Crash, rows, FulfilmentTypeOK
<1>7. CASE UNCHANGED vars
  BY <1>7 DEF vars, FulfilmentTypeOK
<1> QED BY <1>1, <1>2, <1>3, <1>4, <1>5, <1>6, <1>7 DEF Next
-----------------------------------------------------------------------------
(* Where the tasks come from.                                              *)

PickedLast(w) == Doing(w, "pickup") /\ LastLeg(work[w].leg, work[w].stops)

LEMMA NewTask ==
  ASSUME FulfilmentTypeOK, NEW w \in Handlers, Ask(w) \/ Resume(w)
  PROVE  /\ \A v \in Handlers \ {w} : work'[v] = work[v]
         /\ Doing(w, "match")' => AllReady
         /\ Doing(w, "enqueue")' => /\ Doing(w, "match") /\ Startable
                                   /\ delivery'.status = "REQUESTED"
         /\ Doing(w, "pickup")' => /\ work'[w].leg = delivery.leg
                                  /\ work'[w].stops = delivery.stops
         /\ After(w)' => \/ After(w) \/ ByAdmin(w) \/ PickedLast(w)
                        \/ delivery.status = "PICKED_UP"
         /\ ByAdmin(w)' => ByAdmin(w) \/ hands' = hands + 1
         /\ Doing(w, "status")' => hands' = hands + 1
<1> DEFINE Traced ==
      /\ Doing(w, "match")' => AllReady
      /\ Doing(w, "enqueue")' => /\ Doing(w, "match") /\ Startable
                                /\ delivery'.status = "REQUESTED"
      /\ Doing(w, "pickup")' => /\ work'[w].leg = delivery.leg
                               /\ work'[w].stops = delivery.stops
      /\ After(w)' => \/ After(w) \/ ByAdmin(w) \/ PickedLast(w)
                     \/ delivery.status = "PICKED_UP"
      /\ ByAdmin(w)' => ByAdmin(w) \/ hands' = hands + 1
      /\ Doing(w, "status")' => hands' = hands + 1
<1>a. PICK x \in Task \cup {None} : Do(w, x)
  BY HandlerTyped
<1>b. work'[w] = x /\ \A v \in Handlers \ {w} : work'[v] = work[v]
  BY <1>a, HandlerMoves
<1> SUFFICES Traced
  BY <1>b
<1>c. \A y : Do(w, y) => work'[w] = y
  BY DEF Do, FulfilmentTypeOK
<1>d. Return(w) => work'[w] = None
  BY <1>c DEF Return
<1>e. work'[w] = None => Traced
  BY DEF Doing, After, ByAdmin
<1>1. ASSUME NEW o \in Orders, ReadOrder(w, o) PROVE Traced
  BY <1>1, <1>c DEF ReadOrder, Doing, After, ByAdmin
<1>2. ASSUME NEW r \in Riders, ReadToAccept(w, r) PROVE Traced
  BY <1>2, <1>c DEF ReadToAccept, Doing, After, ByAdmin
<1>3. ASSUME NEW r \in Riders, ReadToCancel(w, r) PROVE Traced
  BY <1>3, <1>c DEF ReadToCancel, Doing, After, ByAdmin
<1>4. ASSUME NEW r \in Riders, ReadToPickUp(w, r) PROVE Traced
  BY <1>4, <1>c DEF ReadToPickUp, Doing, After, ByAdmin
<1>5. ASSUME NEW r \in Riders, ReadToDeliver(w, r) PROVE Traced
  BY <1>5, <1>c DEF ReadToDeliver, Doing, After, ByAdmin
<1>6. ASSUME NEW r \in Riders, ReadToAssign(w, r) PROVE Traced
  BY <1>6, <1>c DEF ReadToAssign, Doing, After, ByAdmin
<1>19. CASE ReadToSettle(w)
  BY <1>19, <1>c DEF ReadToSettle, Doing, After, ByAdmin
<1>7. CASE ReadToUpdate(w)
  <2>1. hands' = hands + 1
    BY <1>7 DEF ReadToUpdate, Override
  <2>2. \/ \E st \in DeliveryStatus \ {"DELIVERED"} : Do(w, [op |-> "status", to |-> st])
        \/ Do(w, [op |-> "recheck", rider |-> delivery.rider])
    BY <1>7 DEF ReadToUpdate
  <2>3. ASSUME NEW st, Do(w, [op |-> "status", to |-> st]) PROVE work'[w].op = "status"
    BY <2>3, <1>c
  <2>4. Do(w, [op |-> "recheck", rider |-> delivery.rider]) => work'[w].op = "recheck"
    BY <1>c
  <2>5. work'[w].op \in {"status", "recheck"}
    BY <2>2, <2>3, <2>4
  <2> QED BY <2>1, <2>5 DEF Doing, After, ByAdmin
<1>8. CASE WriteOrder(w)
  <2>1. Do(w, [op |-> "count"]) \/ Return(w)
    BY <1>8 DEF WriteOrder
  <2> QED BY <2>1, <1>c, <1>d, <1>e DEF Doing, After, ByAdmin
<1>9. CASE HandleGroupOrderReady(w)
  BY <1>9, <1>c, <1>d, <1>e DEF HandleGroupOrderReady, Doing, After, ByAdmin
<1>10. CASE StartDeliveryMatching(w)
  BY <1>10, <1>c, <1>d, <1>e DEF StartDeliveryMatching, FulfilmentTypeOK, Doing, After, ByAdmin
<1>11. CASE \/ EnqueueDeliveryMatching(w) \/ ListenerFails(w) \/ AcceptJob(w) \/ DeclineJob(w)
            \/ CancelJob(w) \/ DispatchOrders(w) \/ SettlePayment(w) \/ AssignRider(w)
            \/ UpdateStatus(w) \/ CommitOverride(w)
  BY <1>d, <1>e, <1>11 DEF EnqueueDeliveryMatching, ListenerFails, AcceptJob, DeclineJob,
     CancelJob, DispatchOrders, SettlePayment, AssignRider, UpdateStatus, CommitOverride
<1>12. CASE ConfirmPickup(w)
  BY <1>12, <1>c, <1>d, <1>e DEF ConfirmPickup, PickedLast, Doing, After, ByAdmin
<1>13. CASE CompleteJob(w)
  BY <1>13, <1>c DEF CompleteJob, Doing, After, ByAdmin
<1>14. Done(w) /\ (Doing(w, "earn") \/ Doing(w, "pay")) => Traced
  BY <1>c, <1>d, <1>e DEF Done, Doing, After, ByAdmin
<1>15. CASE FindEarning(w)
  <2>1. CASE Done(w)
    BY <1>14, <1>15, <2>1 DEF FindEarning
  <2>2. CASE Do(w, [work[w] EXCEPT !.op = "pay"])
    <3>1. Doing(w, "earn") /\ work[w] \in Task /\ work[w].outer \in BOOLEAN
      BY <1>15, TaskFields DEF FindEarning, Doing
    <3>2. work'[w].op = "pay" /\ (work'[w].outer <=> work[w].outer)
      BY <1>c, <2>2, <3>1 DEF Task, Doing
    <3> QED BY <3>1, <3>2 DEF Doing, After, ByAdmin
  <2> QED BY <1>15, <2>1, <2>2 DEF FindEarning
<1>16. CASE RecordDeliveryEarnings(w)
  BY <1>14, <1>16, <1>d, <1>e DEF RecordDeliveryEarnings
<1>17. CASE Recheck(w)
  <2>1. Doing(w, "recheck") /\ work[w] \in Task
    BY <1>17, TaskFields DEF Recheck, Doing
  <2>2. [work[w] EXCEPT !.op = "overrule"].op = "overrule"
    BY <2>1 DEF Task, Doing
  <2> QED BY <1>17, <2>1, <2>2, <1>c, <1>d, <1>e DEF Recheck, Doing, After, ByAdmin
<1>18. CASE Overrule(w)
  BY <1>18, <1>c DEF Overrule, Doing, After, ByAdmin
<1> QED
  BY <1>1, <1>2, <1>3, <1>4, <1>5, <1>6, <1>7, <1>8, <1>9, <1>10, <1>11, <1>12, <1>13,
     <1>15, <1>16, <1>17, <1>18, <1>19 DEF Ask, Resume
-----------------------------------------------------------------------------
(* The orders of a group and the start of the search.                      *)

LEMMA InitKnown == Init => KnownReady /\ Budget
<1> SUFFICES ASSUME Init PROVE KnownReady /\ Budget
  OBVIOUS
<1>1. \A w \in Handlers : work[w] = None
  BY DEF Init
<1>2. KnownReady
  BY <1>1 DEF Init, KnownReady, Doing
<1>3. Starters = {}
  BY <1>1 DEF Starters, Starter, Doing
<1>4. Cardinality(Starters) = 0
  BY <1>3, FS_EmptySet
<1>5. Waiting = 1 /\ starts = 0 /\ hands = 0
  BY DEF Init, Waiting
<1> QED BY <1>2, <1>4, <1>5 DEF Budget

(* Who is READY is in the history, and the history only grows.             *)
LEMMA ReadyRecorded ==
  ASSUME FulfilmentTypeOK, KnownReady, [Next]_vars
  PROVE  /\ ready \subseteq ready'
         /\ \A o \in Orders : order'[o] = "READY" => o \in ready'
<1> DEFINE Recorded == /\ ready \subseteq ready'
                       /\ \A o \in Orders : order'[o] = "READY" => o \in ready'
<1>0. \A o \in Orders : order[o] = "READY" => o \in ready
  BY DEF KnownReady
<1>1. ASSUME NEW w \in Handlers, Ask(w) PROVE Recorded
  BY <1>0, <1>1 DEF Ask, ReadOrder, ReadToAccept, ReadToCancel, ReadToPickUp, ReadToDeliver,
     ReadToAssign, ReadToSettle, ReadToUpdate, Override, rows, past
<1>2. ASSUME NEW w \in Handlers, Resume(w) PROVE Recorded
  <2>1. CASE WriteOrder(w)
    BY <1>0, <2>1 DEF WriteOrder, FulfilmentTypeOK
  <2>2. CASE DispatchOrders(w)
    BY <2>2 DEF DispatchOrders, past
  <2>4. CASE SettlePayment(w)
    BY <1>0, <2>4 DEF SettlePayment, past
  <2>3. CASE ~ WriteOrder(w) /\ ~ DispatchOrders(w) /\ ~ SettlePayment(w)
    <3>1. UNCHANGED <<order, ready>>
      BY <1>2, <2>3 DEF Resume, HandleGroupOrderReady, StartDeliveryMatching,
         EnqueueDeliveryMatching, AcceptJob, DeclineJob, CancelJob, ConfirmPickup, CompleteJob,
         ListenerFails, FindEarning, RecordDeliveryEarnings, AssignRider, UpdateStatus, Recheck,
         Overrule, CommitOverride, rows, past
    <3> QED BY <1>0, <3>1
  <2> QED BY <2>1, <2>2, <2>3, <2>4
<1>4. CASE CancelDelivery \/ (\E r \in Riders : AssignRiderToGroup(r)) \/ Crash
  BY <1>0, <1>4 DEF CancelDelivery, AssignRiderToGroup, Override, Crash, rows, past
<1>5. CASE ForceStatusChange
  BY <1>0, <1>5 DEF ForceStatusChange
<1>6. CASE UNCHANGED vars
  BY <1>0, <1>6 DEF vars
<1> QED BY <1>1, <1>2, <1>4, <1>5, <1>6 DEF Next

LEMMA NextKnown == FulfilmentTypeOK /\ KnownReady /\ [Next]_vars => KnownReady'
<1> SUFFICES ASSUME FulfilmentTypeOK, KnownReady, [Next]_vars PROVE KnownReady'
  OBVIOUS
<1>1. /\ ready \subseteq ready' /\ ready' \subseteq Orders
      /\ \A o \in Orders : order'[o] = "READY" => o \in ready'
  BY ReadyRecorded, NextTyped DEF FulfilmentTypeOK
<1>2. ready = Orders => ready' = Orders
  BY <1>1
<1>3. AllReady => ready = Orders
  BY DEF AllReady, KnownReady, FulfilmentTypeOK
<1>4. ASSUME NEW v \in Handlers, Doing(v, "match")' \/ Doing(v, "enqueue")'
      PROVE  ready' = Orders
  <2>1. ASSUME NEW w \in Handlers, Ask(w) \/ Resume(w) PROVE ready' = Orders
    <3>1. CASE v = w
      BY <1>2, <1>3, <1>4, <2>1, <3>1, NewTask DEF KnownReady
    <3>2. CASE v # w
      <4>1. work'[v] = work[v]
        BY <2>1, <3>2, NewTask
      <4> QED BY <1>2, <1>4, <4>1 DEF KnownReady, Doing
    <3> QED BY <3>1, <3>2
  <2>2. CASE ~ \E w \in Handlers : Ask(w) \/ Resume(w)
    <3>1. UNCHANGED work \/ work' = [w \in Handlers |-> None]
      BY <2>2 DEF Next, CancelDelivery, AssignRiderToGroup, ForceStatusChange, Crash, vars
    <3> QED BY <1>2, <1>4, <3>1 DEF KnownReady, Doing
  <2> QED BY <2>1, <2>2
<1>5. ASSUME starts' > 0 PROVE ready' = Orders
  <2>1. CASE starts' = starts
    BY <1>2, <1>5, <2>1 DEF KnownReady
  <2>2. CASE starts' # starts
    <3>1. \E w \in Handlers : EnqueueDeliveryMatching(w)
      BY <2>2 DEF Next, vars, Ask, Resume, ReadOrder, ReadToAccept, ReadToCancel, ReadToPickUp,
         ReadToDeliver, ReadToAssign, ReadToSettle, ReadToUpdate, Override, WriteOrder,
         DispatchOrders, HandleGroupOrderReady, StartDeliveryMatching, AcceptJob, DeclineJob,
         CancelJob, ConfirmPickup, CompleteJob, ListenerFails, FindEarning,
         RecordDeliveryEarnings, SettlePayment, AssignRider, UpdateStatus, Recheck, Overrule,
         CommitOverride, CancelDelivery, AssignRiderToGroup, ForceStatusChange, Crash, past
    <3> QED BY <1>2, <3>1 DEF EnqueueDeliveryMatching, KnownReady
  <2> QED BY <2>1, <2>2
<1> QED BY <1>1, <1>4, <1>5 DEF KnownReady
-----------------------------------------------------------------------------
(* Pickups: what a handler does to the rows, as far as Flow is concerned.  *)

LEMMA CollectedMore ==
  ASSUME FulfilmentTypeOK, NEW leg \in Legs, Collected(leg), picked \subseteq 0 .. Stops - 1
  PROVE  /\ leg + 1 >= Stops => picked \cup {leg} = 0 .. Stops - 1
         /\ leg + 1 < Stops => 0 .. leg \subseteq picked \cup {leg}
         /\ picked \cup {leg} \subseteq 0 .. Stops - 1
<1>1. leg \in Nat /\ Stops \in Nat /\ leg < Stops
  BY StopsPositive DEF Legs, Collected, Stops
<1>2. 0 .. leg - 1 \subseteq picked
  BY DEF Collected
<1>3. 0 .. leg \subseteq picked \cup {leg}
  BY <1>1, <1>2
<1>4. picked \cup {leg} \subseteq 0 .. Stops - 1
  BY <1>1
<1>5. ASSUME leg + 1 >= Stops PROVE picked \cup {leg} = 0 .. Stops - 1
  <2>1. Stops - 1 = leg
    BY <1>1, <1>5
  <2> QED BY <1>3, <1>4, <2>1
<1> QED BY <1>3, <1>4, <1>5

LEMMA InitFlow == Init => Flow
<1> SUFFICES ASSUME Init PROVE Flow
  OBVIOUS
<1>1. \A w \in Handlers : work[w] = None
  BY DEF Init
<1>2. Collected(0)
  BY StopsPositive DEF Collected
<1> QED BY <1>1, <1>2 DEF Init, Flow, Doing, After, ByAdmin, Stops

(* The part of Flow that is about the rows.                                *)
RowsFlow ==
  /\ picked \subseteq 0 .. Stops - 1
  /\ delivery.stops = Stops /\ Collected(delivery.leg)
  /\ delivery.status = "PICKED_UP" => AllPicked
  /\ \A r \in Riders : earned[r] > 0 => AllPicked
  /\ \A o \in Orders : order[o] = "DISPATCHED" => AllPicked

LEMMA PickupFlows ==
  ASSUME FulfilmentTypeOK, Flow, hands = 0, NEW w \in Handlers, ConfirmPickup(w)
  PROVE  RowsFlow' /\ picked \subseteq picked' /\ (PickedLast(w) => AllPicked')
<1> DEFINE leg == work[w].leg
<1>1. /\ leg \in Legs /\ work[w].stops = Stops /\ Collected(leg)
      /\ picked \subseteq 0 .. Stops - 1
  BY TaskFields DEF ConfirmPickup, Doing, Flow
<1>2. leg \in Nat /\ Stops \in Nat
  BY <1>1, StopsPositive DEF Legs, Stops
<1>3. picked' = picked \cup {leg} /\ UNCHANGED <<earned, order>>
  BY DEF ConfirmPickup
<1>8. /\ delivery.stops = Stops
      /\ IF LastLeg(leg, Stops)
         THEN delivery' = [delivery EXCEPT !.status = "PICKED_UP", !.stops = Stops]
         ELSE delivery' = [delivery EXCEPT !.leg = leg + 1, !.stops = Stops]
  BY <1>1 DEF ConfirmPickup, Flow
<1>4. picked' \subseteq 0 .. Stops - 1 /\ picked \subseteq picked'
  BY <1>1, <1>3, CollectedMore
<1>5. AllPicked => AllPicked'
  BY <1>4 DEF AllPicked
<1>6. CASE LastLeg(leg, Stops)
  <2>1. AllPicked'
    BY <1>1, <1>3, <1>6, CollectedMore DEF LastLeg, AllPicked
  <2>2. delivery'.stops = delivery.stops /\ delivery'.leg = delivery.leg
    BY <1>6, <1>8 DEF FulfilmentTypeOK
  <2>3. Collected(delivery.leg)' /\ delivery'.stops = Stops
    BY <1>4, <2>2 DEF Flow, Collected
  <2> QED BY <1>4, <2>1, <2>3 DEF RowsFlow
<1>7. CASE ~ LastLeg(leg, Stops)
  <2>1. /\ delivery'.stops = delivery.stops /\ delivery'.leg = leg + 1
        /\ delivery'.status = delivery.status
    BY <1>7, <1>8 DEF FulfilmentTypeOK
  <2>2. leg + 1 < Stops /\ 0 .. leg \subseteq picked'
    BY <1>1, <1>2, <1>3, <1>7, CollectedMore DEF LastLeg
  <2>3. Collected(delivery.leg)'
    BY <1>2, <2>1, <2>2 DEF Collected
  <2>4. ~ PickedLast(w)
    BY <1>1, <1>7 DEF PickedLast
  <2> QED BY <1>3, <1>4, <1>5, <2>1, <2>3, <2>4 DEF RowsFlow, Flow
<1> QED BY <1>6, <1>7

(* Any other step of a handler collects nothing.                           *)
LEMMA OthersFlow ==
  ASSUME FulfilmentTypeOK, Flow, hands = 0, NEW w \in Handlers, Ask(w) \/ Resume(w),
         ~ ConfirmPickup(w)
  PROVE  RowsFlow' /\ picked' = picked /\ ~ (PickedLast(w) /\ After(w)')
<1>0. RowsFlow /\ ~ ByAdmin(w) /\ (After(w) => AllPicked)
  BY DEF Flow, RowsFlow
<1>1. picked' = picked
  BY DEF Ask, ReadOrder, ReadToAccept, ReadToCancel, ReadToPickUp, ReadToDeliver, ReadToAssign,
     ReadToSettle, ReadToUpdate, Override, Resume, WriteOrder, HandleGroupOrderReady,
     StartDeliveryMatching, EnqueueDeliveryMatching, AcceptJob, DeclineJob, CancelJob,
     DispatchOrders, CompleteJob, ListenerFails, FindEarning, RecordDeliveryEarnings,
     SettlePayment, AssignRider, UpdateStatus, Recheck, Overrule, CommitOverride, past
<1>2. ~ PickedLast(w)
  BY DEF PickedLast, Doing, Free, Ask, ReadOrder, ReadToAccept, ReadToCancel, ReadToPickUp,
     ReadToDeliver, ReadToAssign, ReadToSettle, ReadToUpdate, Resume, WriteOrder,
     HandleGroupOrderReady, StartDeliveryMatching, EnqueueDeliveryMatching, AcceptJob,
     DeclineJob, CancelJob, DispatchOrders, CompleteJob, ListenerFails, FindEarning,
     RecordDeliveryEarnings, SettlePayment, AssignRider, UpdateStatus, Recheck, Overrule,
     CommitOverride, Listening
<1> SUFFICES RowsFlow'
  BY <1>1, <1>2
<1>3. UNCHANGED <<order, delivery, earned>> => RowsFlow'
  BY <1>0, <1>1 DEF RowsFlow, AllPicked, Collected
<1>4. CASE Ask(w)
  BY <1>3, <1>4 DEF Ask, ReadOrder, ReadToAccept, ReadToCancel, ReadToPickUp, ReadToDeliver,
     ReadToAssign, ReadToSettle, ReadToUpdate, rows
<1>5. CASE WriteOrder(w)
  <2>1. work[w].order \in Orders /\ work[w].to # "DISPATCHED"
    BY <1>5, TaskFields DEF WriteOrder, Doing
  <2>2. /\ UNCHANGED <<delivery, earned>>
        /\ \A o \in Orders : order'[o] = "DISPATCHED" => order[o] = "DISPATCHED"
    BY <1>5, <2>1 DEF WriteOrder, FulfilmentTypeOK
  <2> QED BY <1>0, <1>1, <2>2 DEF RowsFlow, AllPicked, Collected
<1>10. CASE SettlePayment(w)
  <2>1. /\ UNCHANGED <<delivery, earned>>
        /\ \A o \in Orders : order'[o] = "DISPATCHED" => order[o] = "DISPATCHED"
    BY <1>10 DEF SettlePayment
  <2> QED BY <1>0, <1>1, <2>1 DEF RowsFlow, AllPicked, Collected
<1>6. CASE DispatchOrders(w) \/ RecordDeliveryEarnings(w)
  <2>1. AllPicked /\ UNCHANGED delivery
    BY <1>0, <1>6 DEF DispatchOrders, RecordDeliveryEarnings, After
  <2> QED BY <1>0, <1>1, <2>1 DEF RowsFlow, AllPicked, Collected
<1>7. CASE \/ StartDeliveryMatching(w) \/ AcceptJob(w) \/ DeclineJob(w) \/ CancelJob(w)
           \/ CompleteJob(w) \/ AssignRider(w)
  <2>1. /\ delivery'.stops = delivery.stops /\ delivery'.leg = delivery.leg
        /\ delivery'.status = "PICKED_UP" => delivery.status = "PICKED_UP"
        /\ UNCHANGED <<order, earned>>
    BY <1>7 DEF StartDeliveryMatching, AcceptJob, DeclineJob, CancelJob, CompleteJob,
                AssignRider, FulfilmentTypeOK
  <2> QED BY <1>0, <1>1, <2>1 DEF RowsFlow, AllPicked, Collected
<1>8. CASE \/ HandleGroupOrderReady(w) \/ EnqueueDeliveryMatching(w) \/ ListenerFails(w)
           \/ FindEarning(w)
  BY <1>3, <1>8 DEF HandleGroupOrderReady, EnqueueDeliveryMatching, ListenerFails, FindEarning,
                    rows
<1>9. CASE UpdateStatus(w) \/ Recheck(w) \/ Overrule(w) \/ CommitOverride(w)
  BY <1>0, <1>9 DEF UpdateStatus, Recheck, Overrule, CommitOverride, ByAdmin
<1> QED BY <1>4, <1>5, <1>6, <1>7, <1>8, <1>9, <1>10 DEF Resume

LEMMA HandsGrow ==
  ASSUME FulfilmentTypeOK, [Next]_vars
  PROVE  hands \in Nat /\ (hands' = hands \/ hands' = hands + 1)
<1> DEFINE Grown == hands' = hands \/ hands' = hands + 1
<1>1. hands \in Nat
  BY FulfilmentAssumption DEF FulfilmentTypeOK, FulfilmentAssumption
<1>2. ASSUME NEW w \in Handlers, Ask(w) PROVE Grown
  BY <1>2 DEF Ask, ReadOrder, ReadToAccept, ReadToCancel, ReadToPickUp, ReadToDeliver,
     ReadToAssign, ReadToSettle, ReadToUpdate, Override, past
<1>3. ASSUME NEW w \in Handlers, Resume(w) PROVE hands' = hands
  BY <1>3 DEF Resume, WriteOrder, DispatchOrders, HandleGroupOrderReady, StartDeliveryMatching,
     EnqueueDeliveryMatching, AcceptJob, DeclineJob, CancelJob, ConfirmPickup, CompleteJob,
     ListenerFails, FindEarning, RecordDeliveryEarnings, SettlePayment, AssignRider,
     UpdateStatus, Recheck, Overrule, CommitOverride, past
<1>4. CASE \/ CancelDelivery \/ ForceStatusChange \/ Crash
           \/ \E r \in Riders : AssignRiderToGroup(r)
  BY <1>1, <1>4 DEF CancelDelivery, AssignRiderToGroup, Override, ForceStatusChange, Crash, past
<1>5. CASE UNCHANGED vars
  BY <1>1, <1>5 DEF vars
<1> QED BY <1>1, <1>2, <1>3, <1>4, <1>5 DEF Next

LEMMA NextFlow == FulfilmentTypeOK /\ Flow /\ [Next]_vars => Flow'
<1> SUFFICES ASSUME FulfilmentTypeOK, Flow, [Next]_vars, hands' = 0
             PROVE  /\ RowsFlow'
                    /\ \A v \in Handlers :
                         /\ ~ ByAdmin(v)'
                         /\ After(v)' => AllPicked'
                         /\ Doing(v, "pickup")' => /\ work'[v].stops = Stops
                                                  /\ Collected(work[v].leg)'
  BY DEF Flow, RowsFlow, Collected, AllPicked
<1>1. hands = 0 /\ hands' # hands + 1
  BY HandsGrow
<1>2. /\ RowsFlow
      /\ \A v \in Handlers : /\ ~ ByAdmin(v) /\ (After(v) => AllPicked)
                             /\ Doing(v, "pickup") => /\ work[v].stops = Stops
                                                     /\ Collected(work[v].leg)
  BY <1>1 DEF Flow, RowsFlow
<1>3. ASSUME NEW w \in Handlers, Ask(w) \/ Resume(w)
      PROVE  /\ RowsFlow'
             /\ \A v \in Handlers : /\ ~ ByAdmin(v)'
                                    /\ After(v)' => AllPicked'
                                    /\ Doing(v, "pickup")' => /\ work'[v].stops = Stops
                                                             /\ Collected(work[v].leg)'
  <2>1. RowsFlow' /\ picked \subseteq picked' /\ (PickedLast(w) /\ After(w)' => AllPicked')
    BY <1>1, <1>3, PickupFlows, OthersFlow
  <2>2. picked' \subseteq 0 .. Stops - 1
    BY <2>1 DEF RowsFlow
  <2>3. AllPicked => AllPicked'
    BY <2>1, <2>2 DEF AllPicked
  <2>4. ASSUME NEW v \in Handlers, v # w
        PROVE  /\ ~ ByAdmin(v)'
               /\ After(v)' => AllPicked'
               /\ Doing(v, "pickup")' => /\ work'[v].stops = Stops
                                        /\ Collected(work[v].leg)'
    <3>1. work'[v] = work[v]
      BY <1>3, <2>4, NewTask
    <3> QED BY <1>2, <2>1, <2>3, <3>1 DEF Doing, After, ByAdmin, Collected
  <2>5. ~ ByAdmin(w)'
    BY <1>1, <1>2, <1>3, NewTask
  <2>6. ASSUME After(w)' PROVE AllPicked'
    <3>1. After(w) \/ PickedLast(w) \/ delivery.status = "PICKED_UP"
      BY <1>2, <1>3, <2>6, NewTask
    <3>2. delivery.status = "PICKED_UP" => AllPicked
      BY <1>2 DEF RowsFlow
    <3> QED BY <1>2, <2>1, <2>3, <2>6, <3>1, <3>2
  <2>7. ASSUME Doing(w, "pickup")' PROVE work'[w].stops = Stops /\ Collected(work[w].leg)'
    <3>1. work'[w].leg = delivery.leg /\ work'[w].stops = delivery.stops
      BY <1>3, <2>7, NewTask
    <3> QED BY <1>2, <2>1, <3>1 DEF RowsFlow, Collected
  <2> QED BY <2>1, <2>4, <2>5, <2>6, <2>7
<1>4. ASSUME UNCHANGED work \/ work' = [w \in Handlers |-> None], picked' = picked, RowsFlow'
      PROVE  \A v \in Handlers : /\ ~ ByAdmin(v)'
                                 /\ After(v)' => AllPicked'
                                 /\ Doing(v, "pickup")' => /\ work'[v].stops = Stops
                                                          /\ Collected(work[v].leg)'
  BY <1>2, <1>4 DEF Doing, After, ByAdmin, AllPicked, Collected
<1>5. CASE CancelDelivery \/ Crash \/ UNCHANGED vars
  <2>1. /\ UNCHANGED work \/ work' = [w \in Handlers |-> None]
        /\ picked' = picked /\ UNCHANGED earned
    BY <1>5 DEF CancelDelivery, Crash, vars, rows, past
  <2>2. /\ delivery'.stops = delivery.stops /\ delivery'.leg = delivery.leg
        /\ delivery'.status = "PICKED_UP" => delivery.status = "PICKED_UP"
        /\ \A o \in Orders : order'[o] = "DISPATCHED" => order[o] = "DISPATCHED"
    BY <1>5 DEF CancelDelivery, Crash, vars, rows, FulfilmentTypeOK
  <2>3. RowsFlow'
    BY <1>2, <2>1, <2>2 DEF RowsFlow, AllPicked, Collected
  <2> QED BY <1>4, <2>1, <2>3
<1>6. CASE (\E r \in Riders : AssignRiderToGroup(r)) \/ ForceStatusChange
  BY <1>1, <1>6 DEF AssignRiderToGroup, ForceStatusChange, Override
<1> QED BY <1>3, <1>5, <1>6 DEF Next
-----------------------------------------------------------------------------
(* The budget of searches.                                                 *)

LEMMA StartersFinite == IsFiniteSet(Starters) /\ Cardinality(Starters) \in Nat
<1>1. Starters \subseteq Handlers
  BY DEF Starters
<1> QED BY <1>1, FulfilmentAssumption, FS_Subset, FS_CardinalityType DEF FulfilmentAssumption

LEMMA StarterGone ==
  ASSUME NEW w \in Handlers, Starter(w), Starters' = Starters \ {w}
  PROVE  Cardinality(Starters)' = Cardinality(Starters) - 1
BY StartersFinite, FS_RemoveElement DEF Starters

LEMMA StarterCome ==
  ASSUME NEW w \in Handlers, ~ Starter(w), Starters' = Starters \cup {w}
  PROVE  Cardinality(Starters)' = Cardinality(Starters) + 1
BY StartersFinite, FS_AddElement DEF Starters

(* What a step of a handler does to its own part of the budget.            *)
LEMMA HandlerBudget ==
  ASSUME FulfilmentTypeOK, Budget, NEW w \in Handlers, Ask(w) \/ Resume(w)
  PROVE  Budget'
<1> DEFINE C == Cardinality(Starters)
           D == Cardinality(Starters)'
<1>0. /\ C \in Nat /\ starts \in Nat /\ hands \in Nat /\ Waiting \in {0, 1}
      /\ Waiting' \in {0, 1} /\ starts + C + Waiting <= 1 + hands
      /\ hands' = hands \/ hands' = hands + 1
  BY StartersFinite, HandsGrow DEF FulfilmentTypeOK, Waiting, Budget, Next
<1>1. \A v \in Handlers \ {w} : Starter(v)' <=> Starter(v)
  BY NewTask DEF Starter, Doing
<1>2. Starter(w)' /\ ~ Starter(w) => D = C + 1
  <2>1. Starter(w)' /\ ~ Starter(w) => Starters' = Starters \cup {w}
    BY <1>1 DEF Starters
  <2> QED BY <2>1, StarterCome
<1>3. Starter(w) /\ ~ Starter(w)' => D = C - 1
  <2>1. Starter(w) /\ ~ Starter(w)' => Starters' = Starters \ {w}
    BY <1>1 DEF Starters
  <2> QED BY <2>1, StarterGone
<1>4. (Starter(w)' <=> Starter(w)) => D = C
  <2>1. (Starter(w)' <=> Starter(w)) => Starters' = Starters
    BY <1>1 DEF Starters
  <2> QED BY <2>1
<1>6. \A x : Do(w, x) => work'[w] = x
  BY DEF Do, FulfilmentTypeOK
<1>7. CASE EnqueueDeliveryMatching(w)
  <2>1. Starter(w) /\ ~ Starter(w)'
    BY <1>6, <1>7 DEF EnqueueDeliveryMatching, Return, Starter, Doing
  <2>2. /\ starts' = starts \/ starts' = starts + 1
        /\ hands' = hands /\ Waiting' = Waiting
    BY <1>7 DEF EnqueueDeliveryMatching, rows, Waiting
  <2> QED BY <1>0, <1>3, <2>1, <2>2 DEF Budget
<1>12. CASE ListenerFails(w)
  <2>1. ~ Starter(w)'
    BY <1>6, <1>12 DEF ListenerFails, Return, Starter, Doing
  <2>2. starts' = starts /\ hands' = hands /\ Waiting' = Waiting
    BY <1>12 DEF ListenerFails, rows, Waiting
  <2> QED BY <1>0, <1>3, <1>4, <2>1, <2>2 DEF Budget
<1>8. CASE StartDeliveryMatching(w)
  <2>1. starts' = starts /\ hands' = hands /\ ~ Starter(w)
    BY <1>8 DEF StartDeliveryMatching, past, Starter, Doing
  <2>2. CASE Startable
    <3>1. Waiting = 1 /\ Waiting' = 0
      BY <1>8, <2>2 DEF StartDeliveryMatching, Startable, Waiting, FulfilmentTypeOK
    <3> QED BY <1>0, <1>2, <1>4, <2>1, <3>1 DEF Budget
  <2>3. CASE ~ Startable
    <3>1. Waiting' = Waiting /\ ~ Starter(w)'
      BY <1>6, <1>8, <2>3 DEF StartDeliveryMatching, Waiting, Return, Starter, Doing
    <3> QED BY <1>0, <1>4, <2>1, <3>1 DEF Budget
  <2> QED BY <2>2, <2>3
<1>9. CASE ReadToUpdate(w)
  <2>1. starts' = starts /\ hands' = hands + 1 /\ Waiting' = Waiting /\ ~ Starter(w)
    BY <1>9 DEF ReadToUpdate, Override, rows, Waiting, Starter, Doing, Free
  <2> QED BY <1>0, <1>2, <1>4, <2>1 DEF Budget
<1>10. CASE UpdateStatus(w)
  <2>1. starts' = starts /\ hands' = hands /\ ~ Starter(w)'
    BY <1>6, <1>10 DEF UpdateStatus, past, Return, Starter, Doing
  <2>2. Waiting' = 1 => Starter(w)
    BY <1>10 DEF UpdateStatus, FulfilmentTypeOK, Waiting, Starter
  <2> QED BY <1>0, <1>3, <1>4, <2>1, <2>2 DEF Budget
<1>11. CASE ~ \/ EnqueueDeliveryMatching(w) \/ ListenerFails(w) \/ StartDeliveryMatching(w)
              \/ ReadToUpdate(w) \/ UpdateStatus(w)
  <2>1. starts' = starts /\ hands' = hands
    BY <1>11 DEF Ask, ReadOrder, ReadToAccept, ReadToCancel, ReadToPickUp, ReadToDeliver,
       ReadToAssign, ReadToSettle, Resume, WriteOrder, DispatchOrders, HandleGroupOrderReady,
       AcceptJob, DeclineJob, CancelJob, ConfirmPickup, CompleteJob, FindEarning,
       RecordDeliveryEarnings, SettlePayment, AssignRider, Recheck, Overrule, CommitOverride,
       past
  <2>2. delivery'.status = "PENDING" => delivery.status = "PENDING"
    BY <1>11 DEF Ask, ReadOrder, ReadToAccept, ReadToCancel, ReadToPickUp, ReadToDeliver,
       ReadToAssign, ReadToSettle, Resume, WriteOrder, DispatchOrders, HandleGroupOrderReady,
       AcceptJob, DeclineJob, CancelJob, ConfirmPickup, CompleteJob, FindEarning,
       RecordDeliveryEarnings, SettlePayment, AssignRider, Recheck, Overrule, CommitOverride,
       rows, FulfilmentTypeOK
  <2>3. ~ Starter(w)
    BY <1>11 DEF Ask, ReadOrder, ReadToAccept, ReadToCancel, ReadToPickUp, ReadToDeliver,
       ReadToAssign, ReadToSettle, Resume, WriteOrder, DispatchOrders, HandleGroupOrderReady,
       AcceptJob, DeclineJob, CancelJob, ConfirmPickup, CompleteJob, FindEarning,
       RecordDeliveryEarnings, SettlePayment, AssignRider, Recheck, Overrule, CommitOverride,
       Starter, Doing, Free
  <2>4. ~ Doing(w, "match")
    BY <1>11 DEF Ask, ReadOrder, ReadToAccept, ReadToCancel, ReadToPickUp, ReadToDeliver,
       ReadToAssign, ReadToSettle, Resume, WriteOrder, DispatchOrders, HandleGroupOrderReady,
       AcceptJob, DeclineJob, CancelJob, ConfirmPickup, CompleteJob, FindEarning,
       RecordDeliveryEarnings, SettlePayment, AssignRider, Recheck, Overrule, CommitOverride,
       Doing, Free
  <2>5. ~ Doing(w, "enqueue")' /\ ~ Doing(w, "status")'
    BY <1>0, <2>1, <2>4, NewTask
  <2>6. ~ Starter(w)'
    BY <2>5 DEF Starter
  <2>7. Waiting' <= Waiting
    BY <2>2 DEF Waiting
  <2> QED BY <1>0, <1>4, <2>1, <2>3, <2>6, <2>7 DEF Budget
<1> QED BY <1>7, <1>8, <1>9, <1>10, <1>11, <1>12

LEMMA NextBudget == FulfilmentTypeOK /\ Budget /\ [Next]_vars => Budget'
<1> SUFFICES ASSUME FulfilmentTypeOK, Budget, [Next]_vars PROVE Budget'
  OBVIOUS
<1>1. ASSUME NEW w \in Handlers, Ask(w) \/ Resume(w) PROVE Budget'
  BY <1>1, HandlerBudget
<1>2. CASE ~ \E w \in Handlers : Ask(w) \/ Resume(w)
  <2>1. starts' = starts /\ (hands' = hands \/ hands' = hands + 1) /\ hands \in Nat
    BY <1>2, HandsGrow DEF Next, CancelDelivery, AssignRiderToGroup, Override,
       ForceStatusChange, Crash, vars, past
  <2>2. delivery'.status = "PENDING" => delivery.status = "PENDING"
    BY <1>2 DEF Next, CancelDelivery, AssignRiderToGroup, ForceStatusChange, Crash, vars, rows,
       FulfilmentTypeOK
  <2>3. Waiting' <= Waiting /\ Waiting \in {0, 1} /\ Waiting' \in {0, 1}
    BY <2>2 DEF Waiting
  <2>4. Starters' = Starters \/ Starters' = {}
    <3>1. UNCHANGED work \/ work' = [w \in Handlers |-> None]
      BY <1>2 DEF Next, CancelDelivery, AssignRiderToGroup, ForceStatusChange, Crash, vars
    <3> QED BY <3>1 DEF Starters, Starter, Doing
  <2>5. Cardinality(Starters)' <= Cardinality(Starters) /\ Cardinality(Starters)' \in Nat
    BY <2>4, StartersFinite, FS_EmptySet
  <2> QED BY <2>1, <2>3, <2>5, StartersFinite DEF Budget, FulfilmentTypeOK
<1> QED BY <1>1, <1>2
-----------------------------------------------------------------------------
(* The group is not forgotten.                                             *)

(* Whoever found, or will find, all the orders ready is at work on it.     *)
Counting(w) == Doing(w, "count") \/ Doing(w, "match")

InHand == hands = 0 /\ ~ lost /\ AllReady /\ delivery.status = "PENDING"
            => \E w \in Handlers : Counting(w)

LEMMA InitInHand == Init => InHand
BY FulfilmentAssumption DEF FulfilmentAssumption, Init, InHand, AllReady

(* Without an administrator only the first delivery is PENDING.            *)
LEMMA NotPutBack ==
  ASSUME FulfilmentTypeOK, Flow, hands = 0, NEW w \in Handlers, Ask(w) \/ Resume(w),
         ~ WriteOrder(w), ~ DispatchOrders(w), AllReady', delivery'.status = "PENDING"
  PROVE  delivery.status = "PENDING" /\ UNCHANGED order /\ (~ lost' => ~ lost)
<1>1. ~ ByAdmin(w)
  BY DEF Flow
<1>2. ~ (UpdateStatus(w) \/ Recheck(w) \/ Overrule(w) \/ CommitOverride(w))
  BY <1>1 DEF UpdateStatus, Recheck, Overrule, CommitOverride, ByAdmin
<1>6. ~ SettlePayment(w) \/ UNCHANGED order
  BY FulfilmentAssumption DEF FulfilmentAssumption, SettlePayment, AllReady
<1>3. UNCHANGED order
  BY <1>2, <1>6 DEF Ask, ReadOrder, ReadToAccept, ReadToCancel, ReadToPickUp, ReadToDeliver,
     ReadToAssign, ReadToSettle, ReadToUpdate, Resume, HandleGroupOrderReady,
     StartDeliveryMatching, EnqueueDeliveryMatching, AcceptJob, DeclineJob, CancelJob,
     ConfirmPickup, CompleteJob, ListenerFails, FindEarning, RecordDeliveryEarnings,
     SettlePayment, AssignRider, rows
<1>4. delivery.status = "PENDING"
  BY <1>2 DEF Ask, ReadOrder, ReadToAccept, ReadToCancel, ReadToPickUp, ReadToDeliver,
     ReadToAssign, ReadToSettle, ReadToUpdate, Resume, HandleGroupOrderReady,
     StartDeliveryMatching, EnqueueDeliveryMatching, AcceptJob, DeclineJob, CancelJob,
     ConfirmPickup, CompleteJob, ListenerFails, FindEarning, RecordDeliveryEarnings,
     SettlePayment, AssignRider, rows, FulfilmentTypeOK
<1>5. ~ lost' => ~ lost
  BY <1>2 DEF Ask, ReadOrder, ReadToAccept, ReadToCancel, ReadToPickUp, ReadToDeliver,
     ReadToAssign, ReadToSettle, ReadToUpdate, Override, Resume, HandleGroupOrderReady,
     StartDeliveryMatching, EnqueueDeliveryMatching, AcceptJob, DeclineJob, CancelJob,
     ConfirmPickup, CompleteJob, ListenerFails, FindEarning, RecordDeliveryEarnings,
     SettlePayment, AssignRider, past
<1> QED BY <1>3, <1>4, <1>5

LEMMA HandlerInHand ==
  ASSUME FulfilmentTypeOK, Flow, InHand, NEW w \in Handlers, Ask(w) \/ Resume(w),
         hands = 0, ~ lost', AllReady', delivery'.status = "PENDING"
  PROVE  \E v \in Handlers : Counting(v)'
<1>1. \A x : Do(w, x) => work'[w] = x
  BY DEF Do, FulfilmentTypeOK
<1>2. CASE WriteOrder(w)
  <2>1. work[w].order \in Orders
    BY <1>2, TaskFields DEF WriteOrder, Doing
  <2>2. work[w].to = "READY"
    BY <1>2, <2>1 DEF WriteOrder, AllReady, FulfilmentTypeOK
  <2>3. Do(w, [op |-> "count"])
    BY <1>2, <2>2 DEF WriteOrder, Rings
  <2>4. work'[w] # None /\ work'[w].op = "count"
    BY <1>1, <2>3, Tasks, NoTask
  <2> QED BY <2>4 DEF Counting, Doing
<1>3. ~ DispatchOrders(w)
  BY FulfilmentAssumption DEF FulfilmentAssumption, DispatchOrders, AllReady
<1>4. CASE ~ WriteOrder(w)
  <2>1. delivery.status = "PENDING" /\ UNCHANGED order /\ ~ lost
    BY <1>3, <1>4, NotPutBack
  <2>2. AllReady
    BY <2>1 DEF AllReady
  <2>3. PICK v \in Handlers : Counting(v)
    BY <2>1, <2>2 DEF InHand
  <2>4. CASE v # w
    BY <2>3, <2>4, NewTask DEF Counting, Doing
  <2>5. CASE v = w
    <3>1. HandleGroupOrderReady(w) \/ StartDeliveryMatching(w)
      BY <1>4, <2>3, <2>5 DEF Counting, Doing, Free, Ask, ReadOrder, ReadToAccept, ReadToCancel,
         ReadToPickUp, ReadToDeliver, ReadToAssign, ReadToSettle, ReadToUpdate, Resume,
         EnqueueDeliveryMatching, AcceptJob, DeclineJob, CancelJob, ConfirmPickup,
         DispatchOrders, CompleteJob, ListenerFails, FindEarning, RecordDeliveryEarnings,
         SettlePayment, AssignRider, UpdateStatus, Recheck, Overrule, CommitOverride, Listening
    <3>2. ~ StartDeliveryMatching(w)
      BY <2>1 DEF StartDeliveryMatching, Startable, FulfilmentTypeOK
    <3>3. Do(w, [op |-> "match"])
      BY <2>2, <3>1, <3>2 DEF HandleGroupOrderReady
    <3>4. work'[w] # None /\ work'[w].op = "match"
      BY <1>1, <3>3, Tasks, NoTask
    <3> QED BY <3>4 DEF Counting, Doing
  <2> QED BY <2>4, <2>5
<1> QED BY <1>2, <1>4

LEMMA NextInHand == FulfilmentTypeOK /\ Flow /\ InHand /\ [Next]_vars => InHand'
<1> SUFFICES ASSUME FulfilmentTypeOK, Flow, InHand, [Next]_vars,
                    hands' = 0, ~ lost', AllReady', delivery'.status = "PENDING"
             PROVE  \E v \in Handlers : Counting(v)'
  BY DEF InHand
<1>1. hands = 0 /\ hands' # hands + 1
  BY HandsGrow
<1>2. ASSUME NEW w \in Handlers, Ask(w) \/ Resume(w) PROVE \E v \in Handlers : Counting(v)'
  BY <1>1, <1>2, HandlerInHand
<1>3. ~ (CancelDelivery \/ ForceStatusChange
         \/ \E r \in Riders : AssignRiderToGroup(r))
  BY <1>1, FulfilmentAssumption DEF FulfilmentAssumption, CancelDelivery, AllReady,
     ForceStatusChange, AssignRiderToGroup, Override, FulfilmentTypeOK
<1>4. CASE Crash
  <2>1. ~ lost /\ ~ \E w \in Handlers : Counting(w)
    BY <1>4 DEF Crash, Counting, Listening
  <2>2. UNCHANGED <<order, delivery>>
    BY <1>4 DEF Crash, rows
  <2> QED BY <1>1, <2>1, <2>2 DEF InHand, AllReady
<1>5. CASE UNCHANGED vars
  BY <1>1, <1>5 DEF vars, InHand, AllReady, Counting, Doing
<1> QED BY <1>2, <1>3, <1>4, <1>5 DEF Next
-----------------------------------------------------------------------------
LEMMA Inductive == Spec => []IInv
<1>1. Init => IInv
  BY InitTyped, InitKnown, InitFlow DEF IInv
<1>2. IInv /\ [Next]_vars => IInv'
  BY NextTyped, NextKnown, NextFlow, NextBudget DEF IInv
<1> QED BY <1>1, <1>2, PTL DEF Spec

(* Orders, delivery and tasks keep their types: no operation writes a leg  *)
(* beyond the last stop or a task for something unknown.                   *)
THEOREM FulfilmentTypeCorrect == Spec => []FulfilmentTypeOK
<1>1. IInv => FulfilmentTypeOK
  BY DEF IInv
<1> QED BY <1>1, Inductive, PTL

(* However many listeners, administrators and crashes there are, the       *)
(* search of a group starts when all its orders were ready, and once.      *)
THEOREM SearchStartsOnce == Spec => []SearchedOnceWhenReady
<1>1. IInv => SearchedOnceWhenReady
  <2> SUFFICES ASSUME IInv PROVE SearchedOnceWhenReady
    OBVIOUS
  <2>1. starts + Cardinality(Starters) + Waiting <= 1 + hands /\ starts \in Nat /\ hands \in Nat
    BY FulfilmentAssumption DEF IInv, Budget, FulfilmentTypeOK, FulfilmentAssumption
  <2>2. Cardinality(Starters) \in Nat /\ Waiting \in {0, 1}
    BY StartersFinite DEF Waiting
  <2>3. starts > 0 => ready = Orders
    BY DEF IInv, KnownReady
  <2> QED BY <2>1, <2>2, <2>3 DEF SearchedOnceWhenReady
<1> QED BY <1>1, Inductive, PTL

(* No rider is credited and no order dispatched before every stop of the   *)
(* delivery was collected, for any number of stores, riders and requests.  *)
THEOREM CreditAfterPickup == Spec => []HandedOver
<1>1. IInv => HandedOver
  BY FulfilmentAssumption DEF IInv, FulfilmentTypeOK, FulfilmentAssumption, Flow, HandedOver, AllPicked, Stops
<1> QED BY <1>1, Inductive, PTL

(* A group whose orders are all READY has left PENDING once the server is  *)
(* at rest, whichever store was last and whatever the riders and the       *)
(* customer did, if no event was lost and no administrator intervened.     *)
THEOREM GroupIsFound == Spec => []NoGroupForgotten
<1>1. Init => InHand
  BY InitInHand
<1>2. FulfilmentTypeOK /\ Flow /\ InHand /\ [Next]_vars => InHand'
  BY NextInHand
<1>3. InHand => NoGroupForgotten
  BY DEF InHand, NoGroupForgotten, Quiet, Free, Counting, Doing
<1>4. IInv => FulfilmentTypeOK /\ Flow
  BY DEF IInv
<1> QED BY <1>1, <1>2, <1>3, <1>4, Inductive, PTL DEF Spec
=============================================================================
