----------------------------- MODULE Fulfilment -----------------------------
(***************************************************************************)
(* An order group after checkout: its stores prepare their orders, the     *)
(* last one that is ready starts the search for a rider of the one shared  *)
(* delivery, riders accept, collect stop by stop and deliver, the wallet   *)
(* is credited; customer and administrators step in at any moment.         *)
(*                                                                         *)
(* Nothing ties the orders to their delivery but the event order.ready,    *)
(* which lives in the memory of the server, and nearly every operation     *)
(* reads the row, tests it, and writes by id in a later step.  A handler   *)
(* therefore keeps in its task what it writes, decided when it read.       *)
(*                                                                         *)
(* The search itself (Redis, queues, offers) leaves the database alone: it *)
(* is only counted here when it is started, and any rider may accept.      *)
(***************************************************************************)
EXTENDS Integers, FiniteSets

CONSTANTS Orders,   \* the orders of the group, one stop of the delivery each
          Riders,
          Handlers, \* the requests the server works on at once
          None,
          MaxHands  \* administrators override so many times

ASSUME FulfilmentAssumption ==
  /\ IsFiniteSet(Orders) /\ Orders # {}
  /\ IsFiniteSet(Handlers)
  /\ None \notin Riders
  /\ MaxHands \in Nat

OrderStatus    == {"PENDING", "CONFIRMED", "PREPARING", "READY", "DISPATCHED",
                   "DELIVERED", "CANCELLED", "REJECTED"}
DeliveryStatus == {"PENDING", "REQUESTED", "ASSIGNED", "ACCEPTED", "PICKED_UP",
                   "IN_TRANSIT", "DELIVERED", "CANCELLED"}
Terminal       == {"DELIVERED", "CANCELLED"}
Legs           == 0 .. Cardinality(Orders)
Task == [op : {"order"}, order : Orders, to : {"CONFIRMED", "REJECTED", "PREPARING", "READY"}]
        \cup [op : {"count", "match", "enqueue", "dispatch", "decline", "cancel", "commit"}]
        \cup [op : {"accept", "assign", "deliver"}, rider : Riders]
        \cup [op : {"settle"}, to : {"COMPLETED", "FAILED", "PENDING"}]
        \cup [op : {"pickup"}, leg : Legs, stops : Legs]
        \cup [op : {"earn", "pay"}, rider : Riders, outer : BOOLEAN]
        \cup [op : {"status"}, to : DeliveryStatus \ {"DELIVERED"}]
        \cup [op : {"recheck", "overrule"}, rider : Riders \cup {None}]

ASSUME NoTask == None \notin Task

VARIABLES
  order,    \* the status of each order
  paid,     \* the payment of the group is COMPLETED
  delivery, \* the shared delivery: its status, its rider, its stops
  earned,   \* how often each rider was credited for the delivery
  work,     \* what each handler has still to do
  ready,    \* history: the orders a store, or an administrator, made READY
  starts,   \* history: how often the search was started
  picked,   \* history: the legs at which a pickup was confirmed
  lost,     \* history: an event or the start of a search came to nothing
  hands     \* history: how often an administrator overrode the flow

vars == <<order, paid, delivery, earned, work, ready, starts, picked, lost, hands>>
rows == <<order, paid, delivery, earned>>
past == <<ready, starts, picked, lost, hands>>

FulfilmentTypeOK ==
  /\ order \in [Orders -> OrderStatus]
  /\ paid \in BOOLEAN
  /\ delivery \in [status : DeliveryStatus, rider : Riders \cup {None},
                   leg : Legs, stops : Legs]
  /\ earned \in [Riders -> Nat]
  /\ work \in [Handlers -> Task \cup {None}]
  /\ ready \subseteq Orders
  /\ starts \in Nat
  /\ picked \subseteq Legs
  /\ lost \in BOOLEAN
  /\ hands \in 0 .. MaxHands

Init ==
  /\ order = [o \in Orders |-> "PENDING"]
  /\ paid = FALSE
  /\ delivery = [status |-> "PENDING", rider |-> None, leg |-> 0,
                 stops |-> Cardinality(Orders)]
  /\ earned = [r \in Riders |-> 0]
  /\ work = [w \in Handlers |-> None]
  /\ ready = {} /\ starts = 0 /\ picked = {} /\ lost = FALSE /\ hands = 0

Free(w)      == work[w] = None
Do(w, x)     == work' = [work EXCEPT ![w] = x]
Return(w)    == Do(w, None)
Doing(w, op) == work[w] # None /\ work[w].op = op

\* The transaction of an administrator has written the delivery and holds its row.
Locked == \E w \in Handlers :
  \/ Doing(w, "commit")
  \/ (Doing(w, "earn") \/ Doing(w, "pay")) /\ work[w].outer
-----------------------------------------------------------------------------
(* The stores: accept or decline, start preparing, mark ready.             *)

From(to) == CASE to \in {"CONFIRMED", "REJECTED"} -> {"PENDING"}
              [] to = "PREPARING"                 -> {"CONFIRMED"}
              [] to = "READY"                     -> {"CONFIRMED", "PREPARING"}

ReadOrder(w, o) ==
  /\ Free(w)
  /\ \E to \in {"CONFIRMED", "REJECTED", "PREPARING", "READY"} :
       order[o] \in From(to) /\ Do(w, [op |-> "order", order |-> o, to |-> to])
  /\ UNCHANGED <<rows, past>>

\* Mutant: only an order that was seen PREPARING rings the listener.
RingsOncePrepared(o, to) == to = "READY" /\ order[o] = "PREPARING"

Rings(o, to) == to = "READY"

\* markReady emits order.ready: the handler goes on as its listener.
WriteOrder(w) ==
  /\ Doing(w, "order")
  /\ LET o  == work[w].order
         to == work[w].to
     IN /\ order' = [order EXCEPT ![o] = to]
        /\ ready' = IF to = "READY" THEN ready \cup {o} ELSE ready
        /\ IF Rings(o, to) THEN Do(w, [op |-> "count"]) ELSE Return(w)
  /\ UNCHANGED <<paid, delivery, earned, starts, picked, lost, hands>>

\* Mutant: one store that is ready is enough.
SomeReady == \E o \in Orders : order[o] = "READY"

AllReady == \A o \in Orders : order[o] = "READY"

HandleGroupOrderReady(w) ==
  /\ Doing(w, "count")
  /\ IF AllReady THEN Do(w, [op |-> "match"]) ELSE Return(w)
  /\ UNCHANGED <<rows, past>>

Startable == delivery.status = "PENDING"

StartDeliveryMatching(w) ==
  /\ Doing(w, "match")
  /\ ~ Locked
  /\ IF Startable
     THEN /\ delivery' = [delivery EXCEPT !.status = "REQUESTED"]
          /\ Do(w, [op |-> "enqueue"])
     ELSE UNCHANGED delivery /\ Return(w)
  /\ UNCHANGED <<order, paid, earned, past>>

EnqueueDeliveryMatching(w) ==
  /\ Doing(w, "enqueue")
  /\ starts' = starts + 1
  /\ Return(w)
  /\ UNCHANGED <<rows, ready, picked, lost, hands>>

Listening(w) == Doing(w, "count") \/ Doing(w, "match") \/ Doing(w, "enqueue")

\* The listener swallows what the database or the queue throws.
ListenerFails(w) ==
  /\ Listening(w)
  /\ lost' = TRUE
  /\ Return(w)
  /\ UNCHANGED <<rows, ready, starts, picked, hands>>
-----------------------------------------------------------------------------
(* The riders.                                                             *)

ReadToAccept(w, r) ==
  /\ Free(w)
  /\ delivery.rider \in {r, None} /\ delivery.status \in {"ASSIGNED", "REQUESTED"}
  /\ Do(w, [op |-> "accept", rider |-> r]) \/ Do(w, [op |-> "decline"])
  /\ UNCHANGED <<rows, past>>

ReadToCancel(w, r) ==
  /\ Free(w)
  /\ delivery.rider = r /\ delivery.status \in {"ASSIGNED", "ACCEPTED", "PICKED_UP"}
  /\ Do(w, [op |-> "cancel"])
  /\ UNCHANGED <<rows, past>>

\* Mutant: the next leg is compared to the last index, one too early.
LastLegEarly(leg, stops) == leg + 1 >= stops - 1

\* Mutant: strictly greater, and without the leg just made.
LastLegLate(leg, stops) == leg > stops

LastLeg(leg, stops) == leg + 1 >= stops

ReadToPickUp(w, r) ==
  /\ Free(w)
  /\ delivery.rider = r /\ delivery.status = "ACCEPTED"
  /\ Do(w, [op |-> "pickup", leg |-> delivery.leg, stops |-> delivery.stops])
  /\ UNCHANGED <<rows, past>>

ReadToDeliver(w, r) ==
  /\ Free(w)
  /\ delivery.rider = r /\ delivery.status = "PICKED_UP"
  /\ Do(w, [op |-> "deliver", rider |-> r])
  /\ UNCHANGED <<rows, past>>

AcceptJob(w) ==
  /\ Doing(w, "accept") /\ ~ Locked
  /\ delivery' = [delivery EXCEPT !.status = "ACCEPTED", !.rider = work[w].rider]
  /\ Return(w)
  /\ UNCHANGED <<order, paid, earned, past>>

DeclineJob(w) ==
  /\ Doing(w, "decline") /\ ~ Locked
  /\ delivery' = [delivery EXCEPT !.status = "REQUESTED", !.rider = None]
  /\ Return(w)
  /\ UNCHANGED <<order, paid, earned, past>>

CancelJob(w) ==
  /\ Doing(w, "cancel") /\ ~ Locked
  /\ delivery' = [delivery EXCEPT !.status = "CANCELLED", !.rider = None]
  /\ Return(w)
  /\ UNCHANGED <<order, paid, earned, past>>

\* Several stops are written back as they were read, a single one is not.
ConfirmPickup(w) ==
  /\ Doing(w, "pickup") /\ ~ Locked
  /\ picked' = picked \cup {work[w].leg}
  /\ LET stops == IF work[w].stops > 1 THEN work[w].stops ELSE delivery.stops  IN
     IF LastLeg(work[w].leg, work[w].stops)
     THEN /\ delivery' = [delivery EXCEPT !.status = "PICKED_UP", !.stops = stops]
          /\ IF work[w].stops > 1 THEN Do(w, [op |-> "dispatch"]) ELSE Return(w)
     ELSE /\ delivery' = [delivery EXCEPT !.leg = work[w].leg + 1, !.stops = stops]
          /\ Return(w)
  /\ UNCHANGED <<order, paid, earned, ready, starts, lost, hands>>

\* All the orders of the group, whatever their status.
DispatchOrders(w) ==
  /\ Doing(w, "dispatch")
  /\ order' = [o \in Orders |-> "DISPATCHED"]
  /\ Return(w)
  /\ UNCHANGED <<paid, delivery, earned, past>>

\* The orders of a group keep their status: the code updates delivery.orderId.
CompleteJob(w) ==
  /\ Doing(w, "deliver") /\ ~ Locked
  /\ delivery' = [delivery EXCEPT !.status = "DELIVERED"]
  /\ Do(w, [op |-> "earn", rider |-> work[w].rider, outer |-> FALSE])
  /\ UNCHANGED <<order, paid, earned, past>>

\* recordDeliveryEarnings, in a transaction of its own: the look ...
Done(w) == IF work[w].outer THEN Do(w, [op |-> "commit"]) ELSE Return(w)

FindEarning(w) ==
  /\ Doing(w, "earn")
  /\ IF \E r \in Riders : earned[r] > 0
     THEN Done(w)
     ELSE Do(w, [work[w] EXCEPT !.op = "pay"])
  /\ UNCHANGED <<rows, past>>

\* ... and the credit, which may fail; the rider's handler swallows that.
RecordDeliveryEarnings(w) ==
  /\ Doing(w, "pay")
  /\ \/ earned' = [earned EXCEPT ![work[w].rider] = @ + 1] /\ Done(w)
     \/ UNCHANGED earned /\ Return(w)
  /\ UNCHANGED <<order, paid, delivery, past>>
-----------------------------------------------------------------------------
(* The payment, the customer and the administrators.                       *)

\* updatePaymentStatus reads the row of the payment before its transaction, so a
\* settlement may be written over a later one: all the orders of the group,
\* whatever their status.
ReadToSettle(w) ==
  /\ Free(w)
  /\ ~ paid
  /\ \E to \in {"COMPLETED", "FAILED", "PENDING"} : Do(w, [op |-> "settle", to |-> to])
  /\ UNCHANGED <<rows, past>>

SettlePayment(w) ==
  /\ Doing(w, "settle")
  /\ paid' = (work[w].to = "COMPLETED")
  /\ order' = CASE work[w].to = "COMPLETED" -> [o \in Orders |-> "CONFIRMED"]
                [] work[w].to = "FAILED"    -> [o \in Orders |-> "CANCELLED"]
                [] OTHER                    -> order
  /\ Return(w)
  /\ UNCHANGED <<delivery, earned, past>>

CancelDelivery ==
  /\ ~ Locked
  /\ delivery.status \notin Terminal
  /\ delivery' = [delivery EXCEPT !.status = "CANCELLED"]
  /\ UNCHANGED <<order, paid, earned, work, past>>

ReadToAssign(w, r) ==
  /\ Free(w)
  /\ delivery.rider = None /\ delivery.status \notin Terminal
  /\ Do(w, [op |-> "assign", rider |-> r])
  /\ UNCHANGED <<rows, past>>

AssignRider(w) ==
  /\ Doing(w, "assign") /\ ~ Locked
  /\ delivery' = [delivery EXCEPT !.status = "ASSIGNED", !.rider = work[w].rider]
  /\ Return(w)
  /\ UNCHANGED <<order, paid, earned, past>>

Override == hands < MaxHands /\ hands' = hands + 1
            /\ UNCHANGED <<ready, starts, picked, lost>>

\* No status is read, and the stops are built anew from the deliveries of
\* the group, of which there is one.
AssignRiderToGroup(r) ==
  /\ ~ Locked
  /\ delivery' = [status |-> "ASSIGNED", rider |-> r, leg |-> 0, stops |-> 1]
  /\ Override
  /\ UNCHANGED <<order, paid, earned, work>>

\* updateStatus of an administrator; DELIVERED has a transaction of its own.
ReadToUpdate(w) ==
  /\ Free(w)
  /\ delivery.status \notin Terminal
  /\ \/ \E s \in DeliveryStatus \ {"DELIVERED"} : Do(w, [op |-> "status", to |-> s])
     \/ Do(w, [op |-> "recheck", rider |-> delivery.rider])
  /\ Override
  /\ UNCHANGED rows

UpdateStatus(w) ==
  /\ Doing(w, "status") /\ ~ Locked
  /\ delivery' = [delivery EXCEPT !.status = work[w].to]
  /\ Return(w)
  /\ UNCHANGED <<order, paid, earned, past>>

Recheck(w) ==
  /\ Doing(w, "recheck")
  /\ IF delivery.status = "DELIVERED" THEN Return(w)
     ELSE Do(w, [work[w] EXCEPT !.op = "overrule"])
  /\ UNCHANGED <<rows, past>>

\* The status is written, uncommitted; the earnings do not take part in
\* the transaction.
Overrule(w) ==
  /\ Doing(w, "overrule") /\ ~ Locked
  /\ IF work[w].rider = None THEN Do(w, [op |-> "commit"])
     ELSE Do(w, [op |-> "earn", rider |-> work[w].rider, outer |-> TRUE])
  /\ UNCHANGED <<rows, past>>

CommitOverride(w) ==
  /\ Doing(w, "commit")
  /\ delivery' = [delivery EXCEPT !.status = "DELIVERED"] \/ UNCHANGED delivery
  /\ Return(w)
  /\ UNCHANGED <<order, paid, earned, past>>

\* forceStatusChange of one order or of the group: any status, no event.
ForceStatusChange ==
  /\ \E os \in {Orders} \cup {{o} : o \in Orders}, to \in OrderStatus :
       /\ order' = [o \in Orders |-> IF o \in os THEN to ELSE order[o]]
       /\ ready' = IF to = "READY" THEN ready \cup os ELSE ready
  /\ hands < MaxHands /\ hands' = hands + 1
  /\ UNCHANGED <<paid, delivery, earned, work, starts, picked, lost>>

Crash ==
  /\ lost' = (lost \/ \E w \in Handlers : Listening(w))
  /\ work' = [w \in Handlers |-> None]
  /\ UNCHANGED <<rows, ready, starts, picked, hands>>
-----------------------------------------------------------------------------
Ask(w) == \/ \E o \in Orders : ReadOrder(w, o)
          \/ \E r \in Riders : \/ ReadToAccept(w, r)
                               \/ ReadToCancel(w, r)
                               \/ ReadToPickUp(w, r)
                               \/ ReadToDeliver(w, r)
                               \/ ReadToAssign(w, r)
          \/ ReadToSettle(w)
          \/ ReadToUpdate(w)

Resume(w) == \/ WriteOrder(w)
             \/ HandleGroupOrderReady(w)
             \/ StartDeliveryMatching(w)
             \/ EnqueueDeliveryMatching(w)
             \/ ListenerFails(w)
             \/ AcceptJob(w)
             \/ DeclineJob(w)
             \/ CancelJob(w)
             \/ ConfirmPickup(w)
             \/ DispatchOrders(w)
             \/ CompleteJob(w)
             \/ FindEarning(w)
             \/ RecordDeliveryEarnings(w)
             \/ SettlePayment(w)
             \/ AssignRider(w)
             \/ UpdateStatus(w)
             \/ Recheck(w)
             \/ Overrule(w)
             \/ CommitOverride(w)

Next == \/ \E w \in Handlers : Ask(w) \/ Resume(w)
        \/ CancelDelivery
        \/ \E r \in Riders : AssignRiderToGroup(r)
        \/ ForceStatusChange
        \/ Crash

Spec == Init /\ [][Next]_vars
-----------------------------------------------------------------------------
(* Properties.                                                             *)

Quiet == \A w \in Handlers : Free(w)

(* No rider is searched for before every store of the group was ready, and *)
(* two listeners that both see the last one do not search twice: a second  *)
(* search needs an administrator who put the delivery back.                *)
SearchedOnceWhenReady == starts > 0 => ready = Orders /\ starts <= 1 + hands

(* A group all of whose orders are ready is not forgotten: whoever counted *)
(* last started the search, unless its event was lost or an administrator  *)
(* went past the flow.                                                     *)
NoGroupForgotten ==
  Quiet /\ AllReady /\ ~ lost /\ hands = 0 => delivery.status # "PENDING"

(* No rider is credited, and no order leaves its store, before the pickup  *)
(* was confirmed at the stop of every store, whatever accepts, declines,   *)
(* cancellations and repeated calls came in between.                       *)
HandedOver ==
  (\E r \in Riders : earned[r] > 0) \/ (\E o \in Orders : order[o] = "DISPATCHED")
    => hands > 0 \/ picked = 0 .. Cardinality(Orders) - 1
=============================================================================
