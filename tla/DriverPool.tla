----------------------------- MODULE DriverPool -----------------------------
(***************************************************************************)
(* The live state of the ride drivers that the matching engine keeps in    *)
(* Redis (matching/driver-state, matching/redis, the inactivity worker and *)
(* the startup reconciliation).  A Lua script is one atomic step and keeps *)
(* the name it has in lua-scripts.ts.  A TypeScript method is a sequence   *)
(* of Redis calls with an await between them: what it still has to do is a *)
(* record of `calls', so the calls of other requests run in between.       *)
(*                                                                         *)
(* Left out: the location, role and geo index (read by no guard), the      *)
(* lock:... key and the hex count (written, never read) and the delivery   *)
(* keys of drivers (never written: a driver is only locked for a ride).    *)
(***************************************************************************)
EXTENDS Naturals, FiniteSets

CONSTANTS Drivers, Trips, Hexes,
          None,        \* an absent Redis key, and the hex '' of releaseDriver
          MaxCalls     \* bound on the requests in flight at once

ASSUME NoneAssumption == None \notin Trips /\ None \notin Hexes

VARIABLES
  status,     \* driver:{id}:status, "MISSING" while the key is absent
  pending,    \* driver:{id}:pendingRide
  current,    \* driver:{id}:currentRide
  hex,        \* driver:{id}:hex
  available,  \* hex:{hex}:drivers, by hex
  declined,   \* matching:ride:{id}:declined, by trip
  lastSeen,   \* driver:{id}:lastSeen, against the inactivity threshold
  active,     \* drivers:active
  pinged,     \* the drivers whose inactivityPing key is set
  calls       \* what the requests in flight still have to do

jobVars  == <<pending, current, declined>>
fileVars == <<status, hex, available>>
seenVars == <<lastSeen, active, pinged>>
vars     == <<status, pending, current, hex, available, declined, lastSeen,
              active, pinged, calls>>

Statuses == {"MISSING", "OFFLINE", "ONLINE", "ACTIVE"}
Places   == Hexes \cup {None}
Jobs     == Trips \cup {None}

TripOps   == {"decline", "complete", "release"}
DriverOps == {"seen", "index", "deindex", "force", "inactive", "evict", "evicted", "eod"}
Call      == [op : TripOps, d : Drivers, t : Trips, h : Places]
               \cup [op : DriverOps, d : Drivers, t : {None}, h : {None}]

\* The continuations: after the read or the script of a request.
On(op, d)        == [op |-> op, d |-> d, t |-> None, h |-> None]
OnTrip(op, d, t) == [op |-> op, d |-> d, t |-> t, h |-> hex[d]]

Room           == Cardinality(calls) < MaxCalls
Begin(c)       == Room /\ calls' = calls \cup {c}
Continue(c, n) == calls' = (calls \ {c}) \cup {n}
Return(c)      == calls' = calls \ {c}

TypeOK == /\ status \in [Drivers -> Statuses]
          /\ pending \in [Drivers -> Jobs]
          /\ current \in [Drivers -> Jobs]
          /\ hex \in [Drivers -> Places]
          /\ available \in [Places -> SUBSET Drivers]
          /\ declined \in [Trips -> SUBSET Drivers]
          /\ lastSeen \in [Drivers -> {"none", "fresh", "stale"}]
          /\ active \in SUBSET Drivers
          /\ pinged \in SUBSET Drivers
          /\ calls \in SUBSET Call

Init == /\ status = [d \in Drivers |-> "MISSING"]
        /\ pending = [d \in Drivers |-> None]
        /\ current = [d \in Drivers |-> None]
        /\ hex = [d \in Drivers |-> None]
        /\ available = [h \in Places |-> {}]
        /\ declined = [t \in Trips |-> {}]
        /\ lastSeen = [d \in Drivers |-> "none"]
        /\ active = {}
        /\ pinged = {}
        /\ calls = {}

-----------------------------------------------------------------------------
(* The Lua scripts.  A script that returns 0 or -1 changes nothing.        *)

ATOMIC_SET_ONLINE(d, h) ==
  /\ status' = [status EXCEPT ![d] = "ONLINE"]
  /\ hex' = [hex EXCEPT ![d] = h]
  /\ available' = [available EXCEPT ![h] = @ \cup {d}]
  /\ UNCHANGED jobVars

MayGoOffline(d) == current[d] = None

\* Mutant: the hex key goes first, so the script cannot unfile the driver.
SetOfflineForgetsHex(d) ==
  /\ MayGoOffline(d)
  /\ hex' = [hex EXCEPT ![d] = None]
  /\ pending' = [pending EXCEPT ![d] = None]
  /\ status' = [status EXCEPT ![d] = "OFFLINE"]
  /\ UNCHANGED <<available, current, declined>>

ATOMIC_SET_OFFLINE(d) ==
  /\ MayGoOffline(d)
  /\ available' = [h \in Places |-> IF h = hex[d] /\ h # None
                                    THEN available[h] \ {d} ELSE available[h]]
  /\ pending' = [pending EXCEPT ![d] = None]
  /\ status' = [status EXCEPT ![d] = "OFFLINE"]
  /\ UNCHANGED <<hex, current, declined>>

\* Mutants: one of the script's checks is dropped.
LockableAfterRefusal(d, t, h) ==
  status[d] = "ONLINE" /\ pending[d] = None /\ current[d] = None /\ d \in available[h]
LockableWhilePending(d, t, h) ==
  d \notin declined[t] /\ status[d] = "ONLINE" /\ current[d] = None /\ d \in available[h]

Lockable(d, t, h) == /\ d \notin declined[t]
                     /\ status[d] = "ONLINE"
                     /\ pending[d] = None
                     /\ current[d] = None
                     /\ d \in available[h]

ATOMIC_LOCK_DRIVER(d, t, h) ==
  /\ Lockable(d, t, h)
  /\ pending' = [pending EXCEPT ![d] = t]
  /\ available' = [available EXCEPT ![h] = @ \ {d}]
  /\ UNCHANGED <<status, hex, current, declined>>

\* Mutant: the pending key is left to its time to live.
AcceptKeepsOffer(d, t) ==
  /\ pending[d] = t
  /\ current' = [current EXCEPT ![d] = t]
  /\ status' = [status EXCEPT ![d] = "ACTIVE"]
  /\ UNCHANGED <<hex, available, pending, declined>>

ATOMIC_ACCEPT_TRIP(d, t) ==
  /\ pending[d] = t
  /\ pending' = [pending EXCEPT ![d] = None]
  /\ current' = [current EXCEPT ![d] = t]
  /\ status' = [status EXCEPT ![d] = "ACTIVE"]
  /\ UNCHANGED <<hex, available, declined>>

ATOMIC_DECLINE_TRIP(d, t, h) ==
  /\ pending[d] = t
  /\ pending' = [pending EXCEPT ![d] = None]
  /\ declined' = [declined EXCEPT ![t] = @ \cup {d}]
  /\ available' = IF status[d] = "ONLINE"
                  THEN [available EXCEPT ![h] = @ \cup {d}] ELSE available
  /\ UNCHANGED <<status, hex, current>>

\* Mutants: the name of the event is written as the status, or nothing is.
CompleteSetsAvailable(d, t, h) ==
  /\ current[d] = t
  /\ current' = [current EXCEPT ![d] = None]
  /\ status' = [status EXCEPT ![d] = "AVAILABLE"]
  /\ UNCHANGED <<hex, available, pending, declined>>
CompleteKeepsStatus(d, t, h) ==
  /\ current[d] = t
  /\ current' = [current EXCEPT ![d] = None]
  /\ UNCHANGED <<status, hex, available, pending, declined>>

ATOMIC_COMPLETE_TRIP(d, t, h) ==
  /\ current[d] = t
  /\ current' = [current EXCEPT ![d] = None]
  /\ status' = [status EXCEPT ![d] = "ONLINE"]
  /\ available' = [available EXCEPT ![h] = @ \cup {d}]
  /\ UNCHANGED <<hex, pending, declined>>

\* Only a job being served keeps the script from restoring the driver.
Restorable(d) == status[d] \notin {"ONLINE", "ACTIVE"} /\ current[d] = None

Filed(d) == IF pending[d] = None THEN {d} ELSE {}

\* Mutant: only a driver that changed its hex is filed.
UpdateWithoutHealing(d, h) ==
  /\ hex' = [hex EXCEPT ![d] = h]
  /\ lastSeen' = [lastSeen EXCEPT ![d] = "fresh"]
  /\ status' = [status EXCEPT ![d] = IF Restorable(d) THEN "ONLINE" ELSE @]
  /\ available' = IF h = hex[d] THEN available
                  ELSE [x \in Places |-> IF x = h THEN available[x] \cup Filed(d)
                                         ELSE available[x] \ {d}]
  /\ UNCHANGED jobVars

ATOMIC_UPDATE_LOCATION(d, h) ==
  /\ hex' = [hex EXCEPT ![d] = h]
  /\ lastSeen' = [lastSeen EXCEPT ![d] = "fresh"]
  /\ status' = [status EXCEPT ![d] = IF Restorable(d) THEN "ONLINE" ELSE @]
  /\ available' =
       [x \in Places |->
          IF x = h /\ (Restorable(d) \/ status[d] = "ONLINE")
          THEN available[x] \cup Filed(d)
          ELSE IF x = hex[d] /\ x # None /\ status[d] = "ONLINE"
          THEN available[x] \ {d}
          ELSE available[x]]
  /\ UNCHANGED jobVars
-----------------------------------------------------------------------------
(* DriverStateService.                                                     *)

SetOnline(d, h) ==
  /\ ATOMIC_SET_ONLINE(d, h)
  /\ Begin(On("seen", d))
  /\ UNCHANGED seenVars

RestoreOnline(d, h) ==
  /\ ATOMIC_SET_ONLINE(d, h)
  /\ Begin(On("index", d))
  /\ UNCHANGED seenVars

UpdateLastSeen(c) ==
  /\ c.op = "seen"
  /\ lastSeen' = [lastSeen EXCEPT ![c.d] = "fresh"]
  /\ Continue(c, On("index", c.d))
  /\ UNCHANGED <<fileVars, jobVars, active, pinged>>

AddToDriverActiveSet(c) ==
  /\ c.op = "index"
  /\ active' = active \cup {c.d}
  /\ Return(c)
  /\ UNCHANGED <<fileVars, jobVars, lastSeen, pinged>>

\* The script refuses while a job is served: setOffline then throws.
SetOffline(d) ==
  /\ ATOMIC_SET_OFFLINE(d)
  /\ Begin(On("deindex", d))
  /\ UNCHANGED seenVars

RemoveFromDriverActiveSet(c) ==
  /\ c.op = "deindex"
  /\ active' = active \ {c.d}
  /\ Return(c)
  /\ UNCHANGED <<fileVars, jobVars, lastSeen, pinged>>

UpdateLocation(d, h) ==
  /\ ATOMIC_UPDATE_LOCATION(d, h)
  /\ IF Restorable(d) THEN Begin(On("index", d)) ELSE UNCHANGED calls
  /\ UNCHANGED <<active, pinged>>

LockDriver(d, t, h) ==
  /\ ATOMIC_LOCK_DRIVER(d, t, h)
  /\ UNCHANGED <<seenVars, calls>>

AcceptJob(d, t) ==
  /\ ATOMIC_ACCEPT_TRIP(d, t)
  /\ UNCHANGED <<seenVars, calls>>

\* getDriverState of declineJob, handleAssignmentTimeout, completeJob and
\* releaseDriver: the hex they hand to the script later.
HasState(d) == status[d] # "MISSING"

ReadForDecline(d, t) ==
  /\ HasState(d) /\ hex[d] # None
  /\ Begin(OnTrip("decline", d, t))
  /\ UNCHANGED <<fileVars, jobVars, seenVars>>

DeclineJob(c) ==
  /\ c.op = "decline"
  /\ IF pending[c.d] = c.t THEN ATOMIC_DECLINE_TRIP(c.d, c.t, c.h)
                           ELSE UNCHANGED <<fileVars, jobVars>>
  /\ Return(c)
  /\ UNCHANGED seenVars

ReadForComplete(d, t) ==
  /\ HasState(d) /\ hex[d] # None
  /\ Begin(OnTrip("complete", d, t))
  /\ UNCHANGED <<fileVars, jobVars, seenVars>>

CompleteJob(c) ==
  /\ c.op = "complete"
  /\ IF current[c.d] = c.t THEN ATOMIC_COMPLETE_TRIP(c.d, c.t, c.h)
                           ELSE UNCHANGED <<fileVars, jobVars>>
  /\ Return(c)
  /\ UNCHANGED seenVars

ReadForRelease(d, t) ==
  /\ HasState(d)
  /\ Begin(OnTrip("release", d, t))
  /\ UNCHANGED <<fileVars, jobVars, seenVars>>

ReleaseDriver(c) ==
  /\ c.op = "release"
  /\ IF current[c.d] = c.t
     THEN ATOMIC_COMPLETE_TRIP(c.d, c.t, c.h) /\ Return(c)
     ELSE Continue(c, On("force", c.d)) /\ UNCHANGED <<fileVars, jobVars>>
  /\ UNCHANGED seenVars

\* The script found no such job: the status alone is reset.
ForceOnline(c) ==
  /\ c.op = "force"
  /\ status' = [status EXCEPT ![c.d] = "ONLINE"]
  /\ Return(c)
  /\ UNCHANGED <<hex, available, jobVars, seenVars>>
-----------------------------------------------------------------------------
(* The inactivity worker (one job at a time) and the end-of-day cron.      *)

ListInactive(d) ==
  /\ d \in active
  /\ status[d] = "ONLINE"
  /\ lastSeen[d] = "stale"
  /\ Begin(On("inactive", d))
  /\ UNCHANGED <<fileVars, jobVars, seenVars>>

WorkerFree == \A c \in calls : c.op \notin {"evict", "evicted"}

Ping(c) ==
  /\ c.op = "inactive" /\ WorkerFree
  /\ c.d \notin pinged
  /\ pinged' = pinged \cup {c.d}
  /\ Return(c)
  /\ UNCHANGED <<fileVars, jobVars, lastSeen, active>>

\* Less than GRACE_PERIOD since the ping.
StillInGrace(c) ==
  /\ c.op = "inactive" /\ WorkerFree
  /\ c.d \in pinged
  /\ Return(c)
  /\ UNCHANGED <<fileVars, jobVars, seenVars>>

Evictable(d) == HasState(d) /\ hex[d] # None /\ current[d] = None

GraceOver(c) ==
  /\ c.op = "inactive" /\ WorkerFree
  /\ c.d \in pinged
  /\ IF Evictable(c.d)
     THEN Continue(c, On("evict", c.d)) /\ UNCHANGED pinged
     ELSE Return(c) /\ pinged' = pinged \ {c.d}
  /\ UNCHANGED <<fileVars, jobVars, lastSeen, active>>

HandleDriverInactivity(c) ==
  /\ c.op = "evict"
  /\ IF MayGoOffline(c.d)
     THEN /\ ATOMIC_SET_OFFLINE(c.d)
          /\ Continue(c, On("evicted", c.d))
          /\ UNCHANGED pinged
     ELSE /\ UNCHANGED <<fileVars, jobVars>>
          /\ Return(c)
          /\ pinged' = pinged \ {c.d}
  /\ UNCHANGED <<lastSeen, active>>

Evicted(c) ==
  /\ c.op = "evicted"
  /\ active' = active \ {c.d}
  /\ pinged' = pinged \ {c.d}
  /\ Return(c)
  /\ UNCHANGED <<fileVars, jobVars, lastSeen>>

HandleEndOfDay(d) ==
  /\ d \in active
  /\ current[d] = None
  /\ Begin(On("eod", d))
  /\ UNCHANGED <<fileVars, jobVars, seenVars>>

EndOfDayOffline(c) ==
  /\ c.op = "eod"
  /\ IF MayGoOffline(c.d)
     THEN ATOMIC_SET_OFFLINE(c.d) /\ Continue(c, On("deindex", c.d))
     ELSE UNCHANGED <<fileVars, jobVars>> /\ Return(c)
  /\ UNCHANGED seenVars
-----------------------------------------------------------------------------
(* Time passing, and a restart of the process with its reconciliation.     *)

PendingExpires(d) ==
  /\ pending[d] # None
  /\ pending' = [pending EXCEPT ![d] = None]
  /\ UNCHANGED <<fileVars, current, declined, seenVars, calls>>

DeclinedExpires(t) ==
  /\ declined[t] # {}
  /\ declined' = [declined EXCEPT ![t] = {}]
  /\ UNCHANGED <<fileVars, pending, current, seenVars, calls>>

PingExpires(d) ==
  /\ d \in pinged
  /\ pinged' = pinged \ {d}
  /\ UNCHANGED <<fileVars, jobVars, lastSeen, active, calls>>

FallSilent(d) ==
  /\ lastSeen[d] = "fresh"
  /\ lastSeen' = [lastSeen EXCEPT ![d] = "stale"]
  /\ UNCHANGED <<fileVars, jobVars, active, pinged, calls>>

\* The requests in flight die with the process; Redis survives, and
\* reconcileRedis clears the active set and every status key, nothing else.
Restart ==
  /\ calls' = {}
  /\ active' = {}
  /\ status' = [d \in Drivers |-> IF HasState(d) THEN "OFFLINE" ELSE "MISSING"]
  /\ UNCHANGED <<hex, available, jobVars, lastSeen, pinged>>
-----------------------------------------------------------------------------
Resume(c) ==
  \/ UpdateLastSeen(c)
  \/ AddToDriverActiveSet(c)
  \/ RemoveFromDriverActiveSet(c)
  \/ DeclineJob(c)
  \/ ReleaseDriver(c)
  \/ ForceOnline(c)
  \/ Ping(c)
  \/ StillInGrace(c)
  \/ GraceOver(c)
  \/ HandleDriverInactivity(c)
  \/ Evicted(c)
  \/ EndOfDayOffline(c)

Request(d) ==
  \/ \E h \in Hexes : SetOnline(d, h) \/ UpdateLocation(d, h)
  \/ SetOffline(d)
  \/ \E t \in Trips, h \in Hexes : LockDriver(d, t, h)
  \/ \E t \in Trips : ReadForDecline(d, t) \/ ReadForRelease(d, t)
  \/ ListInactive(d)
  \/ HandleEndOfDay(d)

Elapse == \/ \E d \in Drivers : PendingExpires(d) \/ PingExpires(d) \/ FallSilent(d)
          \/ \E t \in Trips : DeclinedExpires(t)

\* The steps the application takes ...
WiredNext == \/ \E d \in Drivers : Request(d)
             \/ \E c \in calls : Resume(c)
             \/ Elapse
             \/ Restart

\* ... and the methods of DriverStateService that nothing calls yet.
UnwiredNext == \/ \E d \in Drivers, t \in Trips : AcceptJob(d, t) \/ ReadForComplete(d, t)
               \/ \E c \in calls : CompleteJob(c)
               \/ \E d \in Drivers, h \in Hexes : RestoreOnline(d, h)

Next == WiredNext \/ UnwiredNext

Spec      == Init /\ [][Next]_vars
WiredSpec == Init /\ [][WiredNext]_vars

\* The driver application streams its position while it is open.
Heartbeat(d) == \E h \in Hexes : UpdateLocation(d, h)
LiveSpec     == Spec /\ \A d \in Drivers : WF_vars(Heartbeat(d))
-----------------------------------------------------------------------------
(* Properties.                                                             *)

(* A driver never has an offer and a job at once: what the header of       *)
(* lua-scripts.ts promises (lines 5-6), over every interleaving of the     *)
(* scripts with the stale reads of their callers.                          *)
OneJob == \A d \in Drivers : pending[d] = None \/ current[d] = None

(* A driver is never holding an offer for a ride it has declined, so a     *)
(* retry of the search cannot return to it while the refusal is remembered.*)
NoReoffer == \A d \in Drivers, t \in Trips : pending[d] = t => d \notin declined[t]

(* Whoever is offered or serves a job has a hex: declineJob, completeJob   *)
(* and the timeout, which give up without one, can always undo the offer.  *)
JobHasHex == \A d \in Drivers : (pending[d] # None \/ current[d] # None) => hex[d] # None

(* ACTIVE is only reached and kept with a job: no driver is left ACTIVE,   *)
(* out of the reach of matching and of eviction, with nothing to serve.    *)
ActiveHasJob == \A d \in Drivers : status[d] = "ACTIVE" => current[d] # None

(* The job slot each driver presents to the rest of the application.       *)
SlotOf(d) == IF current[d] # None THEN [phase |-> "serving", trip |-> current[d]]
             ELSE IF pending[d] # None THEN [phase |-> "offered", trip |-> pending[d]]
             ELSE [phase |-> "idle"]

Slot == INSTANCE JobSlot WITH slot <- [d \in Drivers |-> SlotOf(d)], refused <- declined

(* The pool implements the one-slot-per-driver specification: a job is     *)
(* never lost, overwritten or handed over except by a step that ends it.   *)
SlotRefined == Slot!SlotSpec

(* A driver that is ONLINE without an offer, whose application keeps       *)
(* sending positions, is filed in the set of its hex sooner or later,      *)
(* whatever left it out (a lapsed offer, a forced ONLINE): the self-heal   *)
(* of ATOMIC_UPDATE_LOCATION.                                              *)
Waiting(d)      == status[d] = "ONLINE" /\ pending[d] = None
HeartbeatHeals == \A d \in Drivers :
                     Waiting(d) ~> (~ Waiting(d) \/ d \in available[hex[d]])
=============================================================================
