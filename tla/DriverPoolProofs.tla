-------------------------- MODULE DriverPoolProofs --------------------------
(***************************************************************************)
(* Proofs about DriverPool for any drivers, trips and hexes.  The scripts  *)
(* are shown to preserve DataInv one by one; a step of a request is then a *)
(* script together with what it does to the bookkeeping.                   *)
(***************************************************************************)
EXTENDS DriverPool, TLAPS

(* Whoever is filed in some hex set has a hex: the link that makes         *)
(* JobHasHex inductive, since a driver is locked out of a hex set.         *)
FiledHasHex == \A h \in Places : \A d \in available[h] : hex[d] # None

DataType == /\ status \in [Drivers -> Statuses]
            /\ pending \in [Drivers -> Jobs]
            /\ current \in [Drivers -> Jobs]
            /\ hex \in [Drivers -> Places]
            /\ available \in [Places -> SUBSET Drivers]
            /\ declined \in [Trips -> SUBSET Drivers]

BookType == /\ lastSeen \in [Drivers -> {"none", "fresh", "stale"}]
            /\ active \in SUBSET Drivers
            /\ pinged \in SUBSET Drivers
            /\ calls \in SUBSET Call

DataInv == /\ DataType
           /\ OneJob
           /\ NoReoffer
           /\ JobHasHex
           /\ ActiveHasJob
           /\ FiledHasHex

IInv == DataInv /\ BookType

dataVars == <<status, pending, current, hex, available, declined>>

USE DEF Places, Jobs, Statuses
-----------------------------------------------------------------------------
(* The scripts.                                                            *)

LEMMA SetOnlineScript ==
  ASSUME NEW d \in Drivers, NEW h \in Hexes, DataInv, ATOMIC_SET_ONLINE(d, h)
  PROVE  DataInv'
<1>1. DataType'
  BY DEF DataInv, DataType, ATOMIC_SET_ONLINE, jobVars
<1>2. OneJob' /\ NoReoffer'
  BY DEF DataInv, OneJob, NoReoffer, ATOMIC_SET_ONLINE, jobVars
<1>3. JobHasHex' /\ ActiveHasJob' /\ FiledHasHex'
  BY NoneAssumption DEF DataInv, DataType, JobHasHex, ActiveHasJob, FiledHasHex,
     ATOMIC_SET_ONLINE, jobVars
<1> QED BY <1>1, <1>2, <1>3 DEF DataInv

LEMMA SetOfflineScript ==
  ASSUME NEW d \in Drivers, DataInv, ATOMIC_SET_OFFLINE(d)
  PROVE  DataInv'
<1>1. DataType'
  BY DEF DataInv, DataType, ATOMIC_SET_OFFLINE
<1>2. OneJob' /\ NoReoffer'
  BY NoneAssumption DEF DataInv, DataType, OneJob, NoReoffer, ATOMIC_SET_OFFLINE
<1>3. JobHasHex' /\ ActiveHasJob' /\ FiledHasHex'
  BY DEF DataInv, DataType, JobHasHex, ActiveHasJob, FiledHasHex, ATOMIC_SET_OFFLINE
<1> QED BY <1>1, <1>2, <1>3 DEF DataInv

LEMMA LockScript ==
  ASSUME NEW d \in Drivers, NEW t \in Trips, NEW h \in Hexes, DataInv,
         ATOMIC_LOCK_DRIVER(d, t, h)
  PROVE  DataInv'
<1>1. DataType'
  BY DEF DataInv, DataType, ATOMIC_LOCK_DRIVER
<1>2. OneJob' /\ NoReoffer'
  BY DEF DataInv, DataType, OneJob, NoReoffer, ATOMIC_LOCK_DRIVER, Lockable
<1>3. hex[d] # None
  BY DEF DataInv, FiledHasHex, ATOMIC_LOCK_DRIVER, Lockable
<1>4. JobHasHex' /\ ActiveHasJob' /\ FiledHasHex'
  BY <1>3 DEF DataInv, DataType, JobHasHex, ActiveHasJob, FiledHasHex,
     ATOMIC_LOCK_DRIVER
<1> QED BY <1>1, <1>2, <1>4 DEF DataInv

LEMMA AcceptScript ==
  ASSUME NEW d \in Drivers, NEW t \in Trips, DataInv, ATOMIC_ACCEPT_TRIP(d, t)
  PROVE  DataInv'
<1>1. DataType'
  BY DEF DataInv, DataType, ATOMIC_ACCEPT_TRIP
<1>2. OneJob' /\ NoReoffer'
  BY NoneAssumption DEF DataInv, DataType, OneJob, NoReoffer, ATOMIC_ACCEPT_TRIP
<1>3. hex[d] # None
  BY NoneAssumption DEF DataInv, JobHasHex, ATOMIC_ACCEPT_TRIP
<1>4. JobHasHex' /\ ActiveHasJob' /\ FiledHasHex'
  BY <1>3, NoneAssumption DEF DataInv, DataType, JobHasHex, ActiveHasJob,
     FiledHasHex, ATOMIC_ACCEPT_TRIP
<1> QED BY <1>1, <1>2, <1>4 DEF DataInv

LEMMA DeclineScript ==
  ASSUME NEW d \in Drivers, NEW t \in Trips, NEW h \in Places, DataInv,
         ATOMIC_DECLINE_TRIP(d, t, h)
  PROVE  DataInv'
<1>1. DataType'
  BY DEF DataInv, DataType, ATOMIC_DECLINE_TRIP
<1>2. OneJob' /\ NoReoffer'
  BY NoneAssumption DEF DataInv, DataType, OneJob, NoReoffer, ATOMIC_DECLINE_TRIP
<1>3. hex[d] # None
  BY NoneAssumption DEF DataInv, JobHasHex, ATOMIC_DECLINE_TRIP
<1>4. JobHasHex' /\ ActiveHasJob' /\ FiledHasHex'
  BY <1>3 DEF DataInv, DataType, JobHasHex, ActiveHasJob, FiledHasHex,
     ATOMIC_DECLINE_TRIP
<1> QED BY <1>1, <1>2, <1>4 DEF DataInv

LEMMA CompleteScript ==
  ASSUME NEW d \in Drivers, NEW t \in Trips, NEW h \in Places, DataInv,
         ATOMIC_COMPLETE_TRIP(d, t, h)
  PROVE  DataInv'
<1>1. DataType'
  BY DEF DataInv, DataType, ATOMIC_COMPLETE_TRIP
<1>2. OneJob' /\ NoReoffer'
  BY DEF DataInv, DataType, OneJob, NoReoffer, ATOMIC_COMPLETE_TRIP
<1>3. hex[d] # None
  BY NoneAssumption DEF DataInv, JobHasHex, ATOMIC_COMPLETE_TRIP
<1>4. JobHasHex' /\ ActiveHasJob' /\ FiledHasHex'
  BY <1>3 DEF DataInv, DataType, JobHasHex, ActiveHasJob, FiledHasHex,
     ATOMIC_COMPLETE_TRIP
<1> QED BY <1>1, <1>2, <1>4 DEF DataInv

LEMMA UpdateLocationScript ==
  ASSUME NEW d \in Drivers, NEW h \in Hexes, DataInv, ATOMIC_UPDATE_LOCATION(d, h)
  PROVE  DataInv'
<1>1. available' \in [Places -> SUBSET Drivers]
  BY DEF DataInv, DataType, ATOMIC_UPDATE_LOCATION, Filed
<1>2. DataType'
  BY <1>1 DEF DataInv, DataType, ATOMIC_UPDATE_LOCATION, jobVars
<1>3. OneJob' /\ NoReoffer'
  BY DEF DataInv, OneJob, NoReoffer, ATOMIC_UPDATE_LOCATION, jobVars
<1>4. hex' = [hex EXCEPT ![d] = h] /\ h # None
  BY NoneAssumption DEF ATOMIC_UPDATE_LOCATION
<1>5. JobHasHex' /\ ActiveHasJob'
  BY <1>4 DEF DataInv, DataType, JobHasHex, ActiveHasJob,
     ATOMIC_UPDATE_LOCATION, jobVars
<1>6. FiledHasHex'
  <2> SUFFICES ASSUME NEW x \in Places, NEW e \in available'[x]
               PROVE  hex'[e] # None
    BY DEF FiledHasHex
  <2>1. e \in Drivers
    BY <1>1
  <2>2. CASE e = d
    BY <1>4, <2>1, <2>2 DEF DataInv, DataType
  <2>3. CASE e # d
    <3>1. e \in available[x]
      BY <2>3 DEF DataInv, DataType, ATOMIC_UPDATE_LOCATION, Filed
    <3> QED BY <1>4, <2>1, <2>3, <3>1 DEF DataInv, DataType, FiledHasHex
  <2> QED BY <2>2, <2>3
<1> QED BY <1>2, <1>3, <1>5, <1>6 DEF DataInv
-----------------------------------------------------------------------------
(* The inductive invariant.                                                *)

LEMMA DataUnchanged == DataInv /\ UNCHANGED dataVars => DataInv'
BY DEF DataInv, DataType, OneJob, NoReoffer, JobHasHex, ActiveHasJob, FiledHasHex,
   dataVars

LEMMA StartCalls ==
  ASSUME NEW d \in Drivers, NEW op \in DriverOps
  PROVE  On(op, d) \in Call
BY DEF On, Call

LEMMA TripCalls ==
  ASSUME NEW d \in Drivers, NEW t \in Trips, NEW op \in TripOps, DataInv
  PROVE  OnTrip(op, d, t) \in Call
BY DEF OnTrip, Call, DataInv, DataType

LEMMA CallFields ==
  ASSUME NEW c \in Call
  PROVE  /\ c.d \in Drivers
         /\ c.h \in Places
         /\ c.op \in TripOps => c.t \in Trips
         /\ c.op \in {"decline", "complete", "release"} => c.t \in Trips
BY DEF Call, TripOps, DriverOps

THEOREM InitIInv == Init => IInv
BY NoneAssumption DEF Init, IInv, DataInv, DataType, BookType, OneJob, NoReoffer,
   JobHasHex, ActiveHasJob, FiledHasHex

(* The scripts and what else may touch the data, over one step.            *)
LEMMA NextDataInv ==
  ASSUME IInv, [Next]_vars
  PROVE  DataInv'
<1>0. DataInv /\ calls \subseteq Call
  BY DEF IInv, BookType
<1> USE <1>0
<1>1. CASE UNCHANGED vars
  BY <1>1, DataUnchanged DEF vars, dataVars
<1>2. ASSUME NEW d \in Drivers, Request(d)
      PROVE  DataInv'
  <2>1. ASSUME NEW h \in Hexes, SetOnline(d, h)  PROVE DataInv'
    BY <2>1, SetOnlineScript DEF SetOnline
  <2>2. ASSUME NEW h \in Hexes, UpdateLocation(d, h)  PROVE DataInv'
    BY <2>2, UpdateLocationScript DEF UpdateLocation
  <2>3. CASE SetOffline(d)
    BY <2>3, SetOfflineScript DEF SetOffline
  <2>4. ASSUME NEW t \in Trips, NEW h \in Hexes, LockDriver(d, t, h)
        PROVE  DataInv'
    BY <2>4, LockScript DEF LockDriver
  <2>5. ASSUME NEW t \in Trips, ReadForDecline(d, t) \/ ReadForRelease(d, t)
        PROVE  DataInv'
    BY <2>5, DataUnchanged
    DEF ReadForDecline, ReadForRelease, fileVars, jobVars, dataVars
  <2>6. CASE ListInactive(d) \/ HandleEndOfDay(d)
    BY <2>6, DataUnchanged DEF ListInactive, HandleEndOfDay, fileVars, jobVars, dataVars
  <2> QED BY <1>2, <2>1, <2>2, <2>3, <2>4, <2>5, <2>6 DEF Request
<1>3. ASSUME NEW c \in calls, Resume(c)
      PROVE  DataInv'
  <2>0. c \in Call /\ c.d \in Drivers /\ c.h \in Places
    BY <1>3, CallFields
  <2>1. CASE \/ UpdateLastSeen(c) \/ AddToDriverActiveSet(c)
             \/ RemoveFromDriverActiveSet(c)
             \/ Ping(c) \/ StillInGrace(c) \/ GraceOver(c) \/ Evicted(c)
    BY <2>1, DataUnchanged
    DEF UpdateLastSeen, AddToDriverActiveSet, RemoveFromDriverActiveSet, Ping,
        StillInGrace, GraceOver, Evicted, fileVars, jobVars, dataVars
  <2>2. CASE DeclineJob(c)
    <3>1. c.t \in Trips
      BY <2>0, <2>2, CallFields DEF DeclineJob
    <3> QED BY <2>0, <2>2, <3>1, DeclineScript, DataUnchanged
            DEF DeclineJob, fileVars, jobVars, dataVars
  <2>3. CASE ReleaseDriver(c)
    <3>1. c.t \in Trips
      BY <2>0, <2>3, CallFields DEF ReleaseDriver
    <3> QED BY <2>0, <2>3, <3>1, CompleteScript, DataUnchanged
            DEF ReleaseDriver, fileVars, jobVars, dataVars
  <2>4. CASE ForceOnline(c)
    BY <2>0, <2>4
    DEF ForceOnline, DataInv, DataType, OneJob, NoReoffer, JobHasHex, ActiveHasJob,
        FiledHasHex, jobVars
  <2>5. CASE HandleDriverInactivity(c) \/ EndOfDayOffline(c)
    BY <2>0, <2>5, SetOfflineScript, DataUnchanged
    DEF HandleDriverInactivity, EndOfDayOffline, fileVars, jobVars, dataVars
  <2> QED BY <1>3, <2>1, <2>2, <2>3, <2>4, <2>5 DEF Resume
<1>4. ASSUME NEW d \in Drivers, PendingExpires(d)
      PROVE  DataInv'
  BY <1>4, NoneAssumption DEF PendingExpires, fileVars, DataInv, DataType, OneJob, NoReoffer,
     JobHasHex, ActiveHasJob, FiledHasHex
<1>5. ASSUME NEW d \in Drivers, PingExpires(d) \/ FallSilent(d)
      PROVE  DataInv'
  BY <1>5, DataUnchanged DEF PingExpires, FallSilent, fileVars, jobVars, dataVars
<1>6. ASSUME NEW t \in Trips, DeclinedExpires(t)
      PROVE  DataInv'
  BY <1>6 DEF DeclinedExpires, fileVars, DataInv, DataType, OneJob, NoReoffer,
     JobHasHex, ActiveHasJob, FiledHasHex
<1>7. CASE Restart
  BY <1>7 DEF Restart, jobVars, DataInv, DataType, OneJob, NoReoffer, JobHasHex,
     ActiveHasJob, FiledHasHex
<1>8. ASSUME NEW d \in Drivers, NEW t \in Trips, AcceptJob(d, t) \/ ReadForComplete(d, t)
      PROVE  DataInv'
  BY <1>8, AcceptScript, DataUnchanged
  DEF AcceptJob, ReadForComplete, fileVars, jobVars, dataVars
<1>9. ASSUME NEW c \in calls, CompleteJob(c)
      PROVE  DataInv'
  <2>1. c \in Call /\ c.d \in Drivers /\ c.h \in Places
    BY CallFields
  <2>2. c.t \in Trips
    BY <1>9, <2>1, CallFields DEF CompleteJob
  <2> QED BY <1>9, <2>1, <2>2, CompleteScript, DataUnchanged
          DEF CompleteJob, fileVars, jobVars, dataVars
<1>10. ASSUME NEW d \in Drivers, NEW h \in Hexes, RestoreOnline(d, h)
       PROVE  DataInv'
  BY <1>10, SetOnlineScript DEF RestoreOnline
<1> QED BY <1>1, <1>2, <1>3, <1>4, <1>5, <1>6, <1>7, <1>8, <1>9, <1>10
        DEF Next, WiredNext, UnwiredNext, Elapse

(* Every step leaves the bookkeeping well typed.                           *)
LEMMA NextBookType ==
  ASSUME IInv, [Next]_vars
  PROVE  BookType'
<1>0. BookType /\ DataInv /\ calls \subseteq Call
  BY DEF IInv, BookType
<1> USE <1>0
<1>1. CASE UNCHANGED vars
  BY <1>1 DEF vars, BookType
<1>2. ASSUME NEW d \in Drivers, Request(d)
      PROVE  BookType'
  <2>1. \A op \in DriverOps : On(op, d) \in Call
    BY StartCalls
  <2>2. \A t \in Trips : OnTrip("decline", d, t) \in Call /\ OnTrip("release", d, t) \in Call
    BY TripCalls DEF TripOps
  <2>3. ASSUME NEW h \in Hexes, SetOnline(d, h)  PROVE BookType'
    BY <2>1, <2>3 DEF SetOnline, Begin, seenVars, BookType, DriverOps
  <2>4. ASSUME NEW h \in Hexes, UpdateLocation(d, h)  PROVE BookType'
    BY <2>1, <2>4 DEF UpdateLocation, ATOMIC_UPDATE_LOCATION, Begin, BookType, DriverOps
  <2>5. CASE SetOffline(d)
    BY <2>1, <2>5 DEF SetOffline, Begin, seenVars, BookType, DriverOps
  <2>6. ASSUME NEW t \in Trips, NEW h \in Hexes, LockDriver(d, t, h)
        PROVE  BookType'
    BY <2>6 DEF LockDriver, seenVars, BookType
  <2>7. ASSUME NEW t \in Trips, ReadForDecline(d, t) \/ ReadForRelease(d, t)
        PROVE  BookType'
    BY <2>2, <2>7 DEF ReadForDecline, ReadForRelease, Begin, seenVars, BookType
  <2>8. CASE ListInactive(d) \/ HandleEndOfDay(d)
    BY <2>1, <2>8 DEF ListInactive, HandleEndOfDay, Begin, seenVars, BookType, DriverOps
  <2> QED BY <1>2, <2>3, <2>4, <2>5, <2>6, <2>7, <2>8 DEF Request
<1>3. ASSUME NEW c \in calls, Resume(c)
      PROVE  BookType'
  <2>0. c \in Call /\ c.d \in Drivers
    BY <1>3, CallFields
  <2>1. \A op \in DriverOps : On(op, c.d) \in Call
    BY <2>0, StartCalls
  <2>2. CASE UpdateLastSeen(c) \/ AddToDriverActiveSet(c) \/ RemoveFromDriverActiveSet(c)
    BY <2>0, <2>1, <2>2
    DEF UpdateLastSeen, AddToDriverActiveSet, RemoveFromDriverActiveSet, Continue,
        Return, BookType, DriverOps
  <2>3. CASE DeclineJob(c) \/ ReleaseDriver(c) \/ ForceOnline(c)
    BY <2>0, <2>1, <2>3
    DEF DeclineJob, ReleaseDriver, ForceOnline, Continue, Return, seenVars, BookType,
        DriverOps
  <2>4. CASE Ping(c) \/ StillInGrace(c) \/ GraceOver(c)
    BY <2>0, <2>1, <2>4
    DEF Ping, StillInGrace, GraceOver, Continue, Return, seenVars, BookType, DriverOps
  <2>5. CASE HandleDriverInactivity(c) \/ Evicted(c) \/ EndOfDayOffline(c)
    BY <2>0, <2>1, <2>5
    DEF HandleDriverInactivity, Evicted, EndOfDayOffline, Continue, Return, seenVars,
        BookType, DriverOps
  <2> QED BY <1>3, <2>2, <2>3, <2>4, <2>5 DEF Resume
<1>4. CASE Elapse
  BY <1>4 DEF Elapse, PendingExpires, PingExpires, FallSilent, DeclinedExpires,
     seenVars, BookType
<1>5. CASE Restart
  BY <1>5 DEF Restart, BookType
<1>6. ASSUME NEW d \in Drivers, NEW t \in Trips, AcceptJob(d, t) \/ ReadForComplete(d, t)
      PROVE  BookType'
  <2>1. OnTrip("complete", d, t) \in Call
    BY TripCalls DEF TripOps
  <2> QED BY <1>6, <2>1 DEF AcceptJob, ReadForComplete, Begin, seenVars, BookType
<1>7. ASSUME NEW c \in calls, CompleteJob(c)
      PROVE  BookType'
  BY <1>7 DEF CompleteJob, Return, seenVars, BookType
<1>8. ASSUME NEW d \in Drivers, NEW h \in Hexes, RestoreOnline(d, h)
      PROVE  BookType'
  BY <1>8, StartCalls DEF RestoreOnline, Begin, seenVars, BookType, DriverOps
<1> QED BY <1>1, <1>2, <1>3, <1>4, <1>5, <1>6, <1>7, <1>8 DEF Next, WiredNext, UnwiredNext

(* The invariant holds of every reachable state.                           *)
THEOREM Inductive == Spec => []IInv
<1>1. IInv /\ [Next]_vars => IInv'
  BY NextDataInv, NextBookType DEF IInv
<1> QED BY InitIInv, <1>1, PTL DEF Spec

(* Every variable keeps its type, for any number of requests in flight.    *)
THEOREM TypeCorrect == Spec => []TypeOK
<1>1. IInv => TypeOK
  BY DEF IInv, DataInv, DataType, BookType, TypeOK
<1> QED BY <1>1, Inductive, PTL

(* lua-scripts.ts:5-6: an offer and a job are never held together.         *)
THEOREM SingleJob == Spec => []OneJob
<1>1. IInv => OneJob
  BY DEF IInv, DataInv
<1> QED BY <1>1, Inductive, PTL

(* No driver holds an offer for a ride it has declined.                    *)
THEOREM NeverReoffered == Spec => []NoReoffer
<1>1. IInv => NoReoffer
  BY DEF IInv, DataInv
<1> QED BY <1>1, Inductive, PTL

(* A driver with an offer or a job has a hex, so the offer can be undone.  *)
THEOREM OffersCanBeUndone == Spec => []JobHasHex
<1>1. IInv => JobHasHex
  BY DEF IInv, DataInv
<1> QED BY <1>1, Inductive, PTL

(* No driver is ACTIVE without a job.                                      *)
THEOREM ActiveServes == Spec => []ActiveHasJob
<1>1. IInv => ActiveHasJob
  BY DEF IInv, DataInv
<1> QED BY <1>1, Inductive, PTL
-----------------------------------------------------------------------------
(* The pool implements JobSlot: every script is a step of a slot or leaves *)
(* the slots alone.                                                        *)

slots == [d \in Drivers |-> SlotOf(d)]

LEMMA SlotsKept ==
  ASSUME UNCHANGED jobVars
  PROVE  UNCHANGED Slot!slotVars
BY DEF jobVars, Slot!slotVars, SlotOf

LEMMA IdleSlot ==
  ASSUME NEW d \in Drivers, pending[d] = None, current[d] = None
  PROVE  slots[d] = Slot!Idle
BY DEF slots, SlotOf, Slot!Idle

LEMMA OfferedSlot ==
  ASSUME NEW d \in Drivers, NEW t \in Trips, pending[d] = t, OneJob
  PROVE  slots[d] = Slot!Offered(t)
BY NoneAssumption DEF slots, SlotOf, Slot!Offered, OneJob

LEMMA ServingSlot ==
  ASSUME NEW d \in Drivers, NEW t \in Trips, current[d] = t
  PROVE  slots[d] = Slot!Serving(t)
BY NoneAssumption DEF slots, SlotOf, Slot!Serving

\* The slots of the other drivers follow their keys.
LEMMA BecomesIdle ==
  ASSUME NEW d \in Drivers, DataType,
         pending' = [pending EXCEPT ![d] = None],
         current' = [current EXCEPT ![d] = None]
  PROVE  slots' = [slots EXCEPT ![d] = Slot!Idle]
BY DEF slots, SlotOf, DataType, Slot!Idle

LEMMA BecomesOffered ==
  ASSUME NEW d \in Drivers, NEW t \in Trips, DataType,
         pending' = [pending EXCEPT ![d] = t],
         current' = [current EXCEPT ![d] = None]
  PROVE  slots' = [slots EXCEPT ![d] = Slot!Offered(t)]
BY NoneAssumption DEF slots, SlotOf, DataType, Slot!Offered

LEMMA BecomesServing ==
  ASSUME NEW d \in Drivers, NEW t \in Trips, DataType,
         pending' = [pending EXCEPT ![d] = None],
         current' = [current EXCEPT ![d] = t]
  PROVE  slots' = [slots EXCEPT ![d] = Slot!Serving(t)]
BY NoneAssumption DEF slots, SlotOf, DataType, Slot!Serving

LEMMA LockOffers ==
  ASSUME NEW d \in Drivers, NEW t \in Trips, NEW h \in Hexes, DataInv,
         ATOMIC_LOCK_DRIVER(d, t, h)
  PROVE  Slot!Offer(d, t)
<1>1. current' = [current EXCEPT ![d] = None]
  BY DEF ATOMIC_LOCK_DRIVER, Lockable, DataInv, DataType
<1>2. slots' = [slots EXCEPT ![d] = Slot!Offered(t)]
  BY <1>1, BecomesOffered DEF ATOMIC_LOCK_DRIVER, DataInv
<1>3. slots[d] = Slot!Idle
  BY IdleSlot DEF ATOMIC_LOCK_DRIVER, Lockable
<1> QED BY <1>2, <1>3 DEF Slot!Offer, ATOMIC_LOCK_DRIVER, Lockable, slots

LEMMA AcceptAccepts ==
  ASSUME NEW d \in Drivers, NEW t \in Trips, DataInv, ATOMIC_ACCEPT_TRIP(d, t)
  PROVE  Slot!Accept(d, t)
<1>1. slots' = [slots EXCEPT ![d] = Slot!Serving(t)]
  BY BecomesServing DEF ATOMIC_ACCEPT_TRIP, DataInv
<1>2. slots[d] = Slot!Offered(t)
  BY OfferedSlot DEF ATOMIC_ACCEPT_TRIP, DataInv
<1> QED BY <1>1, <1>2 DEF Slot!Accept, ATOMIC_ACCEPT_TRIP, slots

LEMMA DeclineRefuses ==
  ASSUME NEW d \in Drivers, NEW t \in Trips, NEW h \in Places, DataInv,
         ATOMIC_DECLINE_TRIP(d, t, h)
  PROVE  Slot!Refuse(d, t)
<1>1. current' = [current EXCEPT ![d] = None]
  BY NoneAssumption DEF ATOMIC_DECLINE_TRIP, DataInv, DataType, OneJob
<1>2. slots' = [slots EXCEPT ![d] = Slot!Idle]
  BY <1>1, BecomesIdle DEF ATOMIC_DECLINE_TRIP, DataInv
<1>3. slots[d] = Slot!Offered(t)
  BY OfferedSlot DEF ATOMIC_DECLINE_TRIP, DataInv
<1> QED BY <1>2, <1>3 DEF Slot!Refuse, ATOMIC_DECLINE_TRIP, slots

LEMMA CompleteFinishes ==
  ASSUME NEW d \in Drivers, NEW t \in Trips, NEW h \in Places, DataInv,
         ATOMIC_COMPLETE_TRIP(d, t, h)
  PROVE  Slot!Finish(d, t)
<1>1. pending' = [pending EXCEPT ![d] = None]
  BY NoneAssumption DEF ATOMIC_COMPLETE_TRIP, DataInv, DataType, OneJob
<1>2. slots' = [slots EXCEPT ![d] = Slot!Idle]
  BY <1>1, BecomesIdle DEF ATOMIC_COMPLETE_TRIP, DataInv
<1>3. slots[d] = Slot!Serving(t)
  BY ServingSlot DEF ATOMIC_COMPLETE_TRIP
<1> QED BY <1>2, <1>3 DEF Slot!Finish, ATOMIC_COMPLETE_TRIP, slots

\* Dropping the pending key, with no job held, withdraws the offer if any.
LEMMA DroppedOffer ==
  ASSUME NEW d \in Drivers, DataInv, current[d] = None,
         pending' = [pending EXCEPT ![d] = None], UNCHANGED <<current, declined>>
  PROVE  [Slot!SlotNext]_Slot!slotVars
<1>1. current' = [current EXCEPT ![d] = None]
  BY DEF DataInv, DataType
<1>2. slots' = [slots EXCEPT ![d] = Slot!Idle]
  BY <1>1, BecomesIdle DEF DataInv
<1>3. CASE pending[d] = None
  BY <1>1, <1>3, SlotsKept DEF DataInv, DataType, jobVars
<1>4. CASE pending[d] # None
  <2>1. PICK t \in Trips : pending[d] = t
    BY <1>4 DEF DataInv, DataType
  <2>2. slots[d] = Slot!Offered(t)
    BY <2>1, OfferedSlot DEF DataInv
  <2>3. Slot!Withdraw(d, t)
    BY <1>2, <2>2 DEF Slot!Withdraw, slots
  <2> QED BY <2>3 DEF Slot!SlotNext
<1> QED BY <1>3, <1>4

LEMMA OfflineWithdraws ==
  ASSUME NEW d \in Drivers, DataInv, ATOMIC_SET_OFFLINE(d)
  PROVE  [Slot!SlotNext]_Slot!slotVars
BY DroppedOffer DEF ATOMIC_SET_OFFLINE, MayGoOffline

LEMMA SlotStep ==
  ASSUME IInv, [Next]_vars
  PROVE  [Slot!SlotNext]_Slot!slotVars
<1>0. DataInv /\ calls \subseteq Call
  BY DEF IInv, BookType
<1>1. CASE UNCHANGED vars
  BY <1>1, SlotsKept DEF vars, jobVars
<1>2. ASSUME NEW d \in Drivers, Request(d)
      PROVE  [Slot!SlotNext]_Slot!slotVars
  <2>1. ASSUME NEW t \in Trips, NEW h \in Hexes, LockDriver(d, t, h)
        PROVE  Slot!SlotNext
    <3>1. Slot!Offer(d, t)
      BY <1>0, <2>1, LockOffers DEF LockDriver
    <3> QED BY <3>1 DEF Slot!SlotNext
  <2>2. CASE SetOffline(d)
    BY <1>0, <2>2, OfflineWithdraws DEF SetOffline
  <2>3. ASSUME NEW h \in Hexes, SetOnline(d, h) \/ UpdateLocation(d, h)
        PROVE  UNCHANGED Slot!slotVars
    BY <2>3, SlotsKept DEF SetOnline, UpdateLocation, ATOMIC_SET_ONLINE,
       ATOMIC_UPDATE_LOCATION
  <2>4. ASSUME NEW t \in Trips, ReadForDecline(d, t) \/ ReadForRelease(d, t)
        PROVE  UNCHANGED Slot!slotVars
    BY <2>4, SlotsKept DEF ReadForDecline, ReadForRelease, jobVars
  <2>5. ASSUME ListInactive(d) \/ HandleEndOfDay(d)
        PROVE  UNCHANGED Slot!slotVars
    BY <2>5, SlotsKept DEF ListInactive, HandleEndOfDay, jobVars
  <2> QED BY <1>2, <2>1, <2>2, <2>3, <2>4, <2>5 DEF Request
<1>3. ASSUME NEW c \in calls, Resume(c)
      PROVE  [Slot!SlotNext]_Slot!slotVars
  <2>0. c \in Call /\ c.d \in Drivers /\ c.h \in Places
    BY <1>0, CallFields
  <2>1. ASSUME \/ UpdateLastSeen(c) \/ AddToDriverActiveSet(c)
               \/ RemoveFromDriverActiveSet(c) \/ ForceOnline(c)
               \/ Ping(c) \/ StillInGrace(c) \/ GraceOver(c) \/ Evicted(c)
        PROVE  UNCHANGED Slot!slotVars
    BY <2>1, SlotsKept
    DEF UpdateLastSeen, AddToDriverActiveSet, RemoveFromDriverActiveSet, ForceOnline,
        Ping, StillInGrace, GraceOver, Evicted, jobVars
  <2>2. CASE DeclineJob(c)
    <3>1. c.t \in Trips
      BY <2>0, <2>2, CallFields DEF DeclineJob
    <3>2. CASE ATOMIC_DECLINE_TRIP(c.d, c.t, c.h)
      <4>1. Slot!Refuse(c.d, c.t)
        BY <1>0, <2>0, <3>1, <3>2, DeclineRefuses
      <4> QED BY <2>0, <3>1, <4>1 DEF Slot!SlotNext
    <3>3. CASE UNCHANGED <<fileVars, jobVars>>
      BY <3>3, SlotsKept
    <3> QED BY <2>2, <3>2, <3>3 DEF DeclineJob
  <2>3. CASE ReleaseDriver(c)
    <3>1. c.t \in Trips
      BY <2>0, <2>3, CallFields DEF ReleaseDriver
    <3>2. CASE ATOMIC_COMPLETE_TRIP(c.d, c.t, c.h)
      <4>1. Slot!Finish(c.d, c.t)
        BY <1>0, <2>0, <3>1, <3>2, CompleteFinishes
      <4> QED BY <2>0, <3>1, <4>1 DEF Slot!SlotNext
    <3>3. CASE UNCHANGED <<fileVars, jobVars>>
      BY <3>3, SlotsKept
    <3> QED BY <2>3, <3>2, <3>3 DEF ReleaseDriver
  <2>4. CASE HandleDriverInactivity(c) \/ EndOfDayOffline(c)
    <3>1. CASE ATOMIC_SET_OFFLINE(c.d)
      BY <1>0, <2>0, <3>1, OfflineWithdraws
    <3>2. CASE UNCHANGED <<fileVars, jobVars>>
      BY <3>2, SlotsKept
    <3> QED BY <2>4, <3>1, <3>2 DEF HandleDriverInactivity, EndOfDayOffline
  <2> QED BY <1>3, <2>1, <2>2, <2>3, <2>4 DEF Resume
<1>4. ASSUME NEW d \in Drivers, PendingExpires(d)
      PROVE  [Slot!SlotNext]_Slot!slotVars
  <2>1. current[d] = None
    BY <1>0, <1>4 DEF PendingExpires, DataInv, OneJob
  <2> QED BY <1>0, <1>4, <2>1, DroppedOffer DEF PendingExpires
<1>5. ASSUME NEW d \in Drivers, PingExpires(d) \/ FallSilent(d)
      PROVE  UNCHANGED Slot!slotVars
  BY <1>5, SlotsKept DEF PingExpires, FallSilent, jobVars
<1>6. ASSUME NEW t \in Trips, DeclinedExpires(t)
      PROVE  Slot!SlotNext
  <2>1. Slot!Forget(t)
    BY <1>6 DEF DeclinedExpires, Slot!Forget, SlotOf
  <2> QED BY <2>1 DEF Slot!SlotNext
<1>7. ASSUME Restart
      PROVE  UNCHANGED Slot!slotVars
  BY <1>7, SlotsKept DEF Restart
<1>8. ASSUME NEW d \in Drivers, NEW t \in Trips, AcceptJob(d, t)
      PROVE  Slot!SlotNext
  <2>1. Slot!Accept(d, t)
    BY <1>0, <1>8, AcceptAccepts DEF AcceptJob
  <2> QED BY <2>1 DEF Slot!SlotNext
<1>9. ASSUME NEW d \in Drivers, NEW t \in Trips, ReadForComplete(d, t)
      PROVE  UNCHANGED Slot!slotVars
  BY <1>9, SlotsKept DEF ReadForComplete, jobVars
<1>10. ASSUME NEW c \in calls, CompleteJob(c)
       PROVE  [Slot!SlotNext]_Slot!slotVars
  <2>1. c \in Call /\ c.d \in Drivers /\ c.h \in Places
    BY <1>0, CallFields
  <2>2. c.t \in Trips
    BY <1>10, <2>1, CallFields DEF CompleteJob
  <2>3. CASE ATOMIC_COMPLETE_TRIP(c.d, c.t, c.h)
    <3>1. Slot!Finish(c.d, c.t)
      BY <1>0, <2>1, <2>2, <2>3, CompleteFinishes
    <3> QED BY <2>1, <2>2, <3>1 DEF Slot!SlotNext
  <2>4. CASE UNCHANGED <<fileVars, jobVars>>
    BY <2>4, SlotsKept
  <2> QED BY <1>10, <2>3, <2>4 DEF CompleteJob
<1>11. ASSUME NEW d \in Drivers, NEW h \in Hexes, RestoreOnline(d, h)
       PROVE  UNCHANGED Slot!slotVars
  BY <1>11, SlotsKept DEF RestoreOnline, ATOMIC_SET_ONLINE
<1> QED BY <1>1, <1>2, <1>3, <1>4, <1>5, <1>6, <1>7, <1>8, <1>9, <1>10, <1>11
        DEF Next, WiredNext, UnwiredNext, Elapse

(* Every behaviour of the pool is a behaviour of one job slot per driver.  *)
THEOREM PoolImplementsJobSlot == Spec => SlotRefined
<1>1. Init => Slot!SlotInit
  BY DEF Init, Slot!SlotInit, Slot!Idle, SlotOf
<1>2. IInv /\ [Next]_vars => [Slot!SlotNext]_Slot!slotVars
  BY SlotStep
<1> QED BY <1>1, <1>2, Inductive, PTL DEF Spec, SlotRefined, Slot!SlotSpec
=============================================================================
