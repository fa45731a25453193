---------------------------- MODULE RideMatching ----------------------------
(***************************************************************************)
(* The search for a driver: the row of a ride in the database, the BullMQ  *)
(* queues of matching and timeout jobs, their workers, and the customer,   *)
(* driver and cron operations that run against them, over the live driver  *)
(* state of DriverPool.                                                    *)
(*                                                                         *)
(* A handler that reads the row, decides, and later updates it without a   *)
(* condition is a read step that leaves a "write" task and an UpdateRide   *)
(* step that performs it.  A worker is a task that carries its job until   *)
(* the queue hears that it has finished: BullMQ runs the job again if the  *)
(* worker throws before, or is lost in a restart.                          *)
(***************************************************************************)
EXTENDS DriverPool

CONSTANTS MaxTasks,     \* bound on the handlers and workers at work at once
          MaxCrashes,   \* bound on the restarts of the process
          MaxThrows,    \* bound on the calls of Redis, queue or database that throw
          MaxPayments   \* bound on the answers to payments of rides

VARIABLES
  ride,          \* ride[r]: status and riderId of the row
  updatedAt,     \* the age of the row, as the cleanup crons read it
  pendingDriver, \* ride:{id}:pendingDriver
  attempts,      \* matching:{id}:attempts
  matchQueue,    \* waiting jobs of the ride-matching queue
  matchIds,      \* every jobId ever added: completed jobs stay in BullMQ
  timeoutQueue,  \* delayed jobs of the assignment-timeout queue
  timeoutIds,    \* likewise, timeout-ride-{id}
  notified,      \* the drivers whose application showed the ride
  tasks,         \* handlers and workers between two of their steps
  crashes,
  throws,
  payments,
  repeated,      \* history: rides with a job that is run again although it had
                 \* locked a driver, or had handed the search on
  resumed        \* history: rides whose search a settled payment asked for

noteVars == <<crashes, throws, payments, repeated, resumed>>
queueVars == <<matchQueue, matchIds, timeoutQueue, timeoutIds>>
rowVars   == <<ride, updatedAt>>
rideVars  == <<ride, updatedAt, pendingDriver, attempts, matchQueue, matchIds,
               timeoutQueue, timeoutIds, notified, tasks, noteVars>>
allVars   == <<vars, rideVars>>

MAX_MATCHING_RETRIES == 3
MAX_ATTEMPTS == 20
JOB_ATTEMPTS == 5    \* QUEUE_OPTIONS.rideMatching

Cancelled  == {"CANCELLED_BY_USER", "CANCELLED_BY_DRIVER", "CANCELLED_BY_SYSTEM",
               "CANCELLED"}
Terminal   == Cancelled \cup {"COMPLETED"}
Matchable  == {"REQUESTED", "SEARCHING_DRIVER"}
Startable  == {"DRIVER_ACCEPTED", "PAID"}
Serving    == Startable \cup {"IN_PROGRESS"}
RideStatus == {"NONE"} \cup Matchable \cup Serving \cup Terminal

Someone    == Drivers \cup {None}
MatchJob   == [r : Trips, n : Nat, excl : SUBSET Drivers]
TimeoutJob == [r : Trips, n : Nat, d : Drivers]

SearchTask == [kind : {"search"}, job : MatchJob, excl : SUBSET Drivers,
               hexes : SUBSET Hexes, h : {None}, cands : {{}}]
              \cup [kind : {"search"}, job : MatchJob, excl : SUBSET Drivers,
                    hexes : SUBSET Hexes, h : Hexes, cands : SUBSET Drivers]
MatchTask  == SearchTask
              \cup [kind : {"locked", "offer"}, job : MatchJob, d : Drivers]
              \cup [kind : {"retry"}, job : MatchJob, n : Nat]
              \cup [kind : {"giveup", "done"}, job : MatchJob]
TimeoutTask == [kind : {"timeout"}, job : TimeoutJob, call : Call]
               \cup [kind : {"rematch", "answered"}, job : TimeoutJob]
RowTask    == [kind : {"trigger", "enqueue"}, r : Trips]
              \cup [kind : {"accept"}, r : Trips, d : Drivers]
              \cup [kind : {"release"}, r : Trips, d : Someone]
              \cup [kind : {"write"}, r : Trips, to : Serving \cup Terminal, d : Someone]
Task       == MatchTask \cup TimeoutTask \cup RowTask

RideTypeOK ==
  /\ ride \in [Trips -> [status : RideStatus, rider : Someone]]
  /\ updatedAt \in [Trips -> {"new", "stuck", "abandoned"}]
  /\ pendingDriver \in [Trips -> Someone]
  /\ attempts \in [Trips -> Nat]
  /\ matchQueue \subseteq MatchJob
  /\ matchIds \subseteq Trips \X Nat
  /\ timeoutQueue \subseteq TimeoutJob
  /\ timeoutIds \subseteq Trips
  /\ notified \in [Trips -> SUBSET Drivers]
  /\ tasks \subseteq Task
  /\ crashes \in Nat
  /\ throws \in Nat
  /\ payments \in Nat
  /\ repeated \subseteq Trips
  /\ resumed \subseteq Trips

RideInit ==
  /\ Init
  /\ ride = [r \in Trips |-> [status |-> "NONE", rider |-> None]]
  /\ updatedAt = [r \in Trips |-> "new"]
  /\ pendingDriver = [r \in Trips |-> None]
  /\ attempts = [r \in Trips |-> 0]
  /\ matchQueue = {}
  /\ matchIds = {}
  /\ timeoutQueue = {}
  /\ timeoutIds = {}
  /\ notified = [r \in Trips |-> {}]
  /\ tasks = {}
  /\ crashes = 0
  /\ throws = 0
  /\ payments = 0
  /\ repeated = {}
  /\ resumed = {}

Start(x)      == Cardinality(tasks) < MaxTasks /\ tasks' = tasks \cup {x}
GoOn(x, y)    == tasks' = (tasks \ {x}) \cup {y}
Finish(x)     == tasks' = tasks \ {x}

\* An update of the row also moves its updatedAt.
SetRow(r, st, d) == /\ ride' = [ride EXCEPT ![r] = [status |-> st, rider |-> d]]
                    /\ updatedAt' = [updatedAt EXCEPT ![r] = "new"]

\* BullMQ ignores a job whose id it still holds.
EnqueueAgain(r, n, excl) == \* Mutant: without the jobId.
  /\ matchQueue' = matchQueue \cup {[r |-> r, n |-> n, excl |-> excl]}
  /\ matchIds' = matchIds \cup {<<r, n>>}

EnqueueRideMatching(r, n, excl) ==
  IF <<r, n>> \in matchIds THEN UNCHANGED <<matchQueue, matchIds>>
  ELSE /\ matchQueue' = matchQueue \cup {[r |-> r, n |-> n, excl |-> excl]}
       /\ matchIds' = matchIds \cup {<<r, n>>}

ScheduleAgain(r, n, d) == \* Mutant: without the jobId.
  /\ timeoutQueue' = timeoutQueue \cup {[r |-> r, n |-> n, d |-> d]}
  /\ timeoutIds' = timeoutIds \cup {r}

ScheduleAssignmentTimeout(r, n, d) ==
  IF r \in timeoutIds THEN UNCHANGED <<timeoutQueue, timeoutIds>>
  ELSE /\ timeoutQueue' = timeoutQueue \cup {[r |-> r, n |-> n, d |-> d]}
       /\ timeoutIds' = timeoutIds \cup {r}
-----------------------------------------------------------------------------
(* The request of a ride; triggerMatchingSideEffects is not awaited.       *)

RequestRide(r) ==
  /\ ride[r].status = "NONE"
  /\ SetRow(r, "REQUESTED", None)
  /\ Start([kind |-> "trigger", r |-> r])
  /\ UNCHANGED <<vars, queueVars, pendingDriver, attempts, notified, noteVars>>

TriggerMatchingSideEffects(x) ==
  /\ x.kind = "trigger"
  /\ SetRow(x.r, "SEARCHING_DRIVER", ride[x.r].rider)
  /\ GoOn(x, [kind |-> "enqueue", r |-> x.r])
  /\ UNCHANGED <<vars, queueVars, pendingDriver, attempts, notified, noteVars>>

EnqueueFirst(x) ==
  /\ x.kind = "enqueue"
  /\ EnqueueRideMatching(x.r, 1, {})
  /\ Finish(x)
  /\ UNCHANGED <<vars, rowVars, timeoutQueue, timeoutIds, pendingDriver, attempts,
                 notified, noteVars>>

Answer == payments < MaxPayments /\ payments' = payments + 1

\* A payment of the ride was settled: a ride a driver has accepted becomes
\* PAID, the search of any other that is not over is started, again or not.
SettlePayment(r) ==
  /\ ride[r].status = "DRIVER_ACCEPTED"
  /\ Answer
  /\ Start([kind |-> "write", r |-> r, to |-> "PAID", d |-> ride[r].rider])
  /\ UNCHANGED <<vars, rowVars, queueVars, pendingDriver, attempts, notified, crashes,
                 throws, repeated, resumed>>

StartRideMatching(r) ==
  /\ ride[r].status \notin Startable \cup {"NONE", "COMPLETED"}
  /\ Answer
  /\ Start([kind |-> "trigger", r |-> r])
  /\ resumed' = resumed \cup {r}
  /\ UNCHANGED <<vars, rowVars, queueVars, pendingDriver, attempts, notified, crashes,
                 throws, repeated>>

\* A payment that failed cancels its ride by one conditional update.
FailPayment(r) ==
  /\ ride[r].status \notin {"NONE", "COMPLETED", "IN_PROGRESS", "CANCELLED"}
  /\ Answer
  /\ SetRow(r, "CANCELLED", ride[r].rider)
  /\ UNCHANGED <<vars, queueVars, pendingDriver, attempts, notified, tasks, crashes,
                 throws, repeated, resumed>>
-----------------------------------------------------------------------------
(* RideMatchingProcessor.                                                  *)

\* The queue hears that a worker has finished.
Acknowledge(x) ==
  /\ x.kind \in {"done", "answered"}
  /\ Finish(x)
  /\ UNCHANGED <<vars, rowVars, queueVars, pendingDriver, attempts, notified, noteVars>>

Search(j) == [kind |-> "search", job |-> j, hexes |-> Hexes, h |-> None,
              cands |-> {}, excl |-> j.excl \cup declined[j.r]]

\* The row and the declined set are read here, the hex sets one by one later.
ProcessMatch(j) ==
  /\ matchQueue' = matchQueue \ {j}
  /\ IF ride[j.r].status \in Matchable THEN Start(Search(j)) ELSE UNCHANGED tasks
  /\ UNCHANGED <<vars, rowVars, matchIds, timeoutQueue, timeoutIds, pendingDriver,
                 attempts, notified, noteVars>>

\* The next hex of the rings, in any order.
SearchInRings(x) ==
  /\ x.kind = "search" /\ x.cands = {}
  /\ \E h \in x.hexes :
       GoOn(x, [x EXCEPT !.h = h, !.hexes = @ \ {h}, !.cands = available[h] \ x.excl])
  /\ UNCHANGED <<vars, rowVars, queueVars, pendingDriver, attempts, notified, noteVars>>

\* Mutant: the lock is a plain write for a driver found in the set before.
AssignWithoutLock(x) ==
  /\ x.kind = "search"
  /\ \E d \in x.cands :
       /\ pending' = [pending EXCEPT ![d] = x.job.r]
       /\ GoOn(x, [kind |-> "locked", job |-> x.job, d |-> d])
  /\ UNCHANGED <<status, current, hex, available, declined, seenVars, calls>>
  /\ UNCHANGED <<rowVars, queueVars, pendingDriver, attempts, notified, noteVars>>

AttemptAssignment(x) ==
  /\ x.kind = "search"
  /\ \E d \in x.cands :
       \/ /\ LockDriver(d, x.job.r, x.h)
          /\ GoOn(x, [kind |-> "locked", job |-> x.job, d |-> d])
       \/ /\ ~ Lockable(d, x.job.r, x.h)
          /\ GoOn(x, [x EXCEPT !.cands = @ \ {d}])
          /\ UNCHANGED vars
  /\ UNCHANGED <<rowVars, queueVars, pendingDriver, attempts, notified, noteVars>>

WritePendingDriver(x) ==
  /\ x.kind = "locked"
  /\ pendingDriver' = [pendingDriver EXCEPT ![x.job.r] = x.d]
  /\ GoOn(x, [kind |-> "offer", job |-> x.job, d |-> x.d])
  /\ UNCHANGED <<vars, rowVars, queueVars, attempts, notified, noteVars>>

OfferRide(x) ==
  /\ x.kind = "offer"
  /\ ScheduleAssignmentTimeout(x.job.r, x.job.n, x.d)
  /\ notified' = [notified EXCEPT ![x.job.r] = @ \cup {x.d}]
  /\ GoOn(x, [kind |-> "done", job |-> x.job])
  /\ UNCHANGED <<vars, rowVars, matchQueue, matchIds, pendingDriver, attempts, noteVars>>

\* MAX_ATTEMPTS locks end a search with candidates left, if there are so many.
SearchOver(x) == \/ x.cands = {} /\ x.hexes = {}
                 \/ Cardinality(Drivers \X Hexes) > MAX_ATTEMPTS

HandleNoDriverFound(x) ==
  /\ x.kind = "search" /\ SearchOver(x)
  /\ attempts' = [attempts EXCEPT ![x.job.r] = @ + 1]
  /\ IF attempts[x.job.r] + 1 < MAX_MATCHING_RETRIES
     THEN GoOn(x, [kind |-> "retry", job |-> x.job, n |-> attempts[x.job.r] + 2])
     ELSE GoOn(x, [kind |-> "giveup", job |-> x.job])
  /\ UNCHANGED <<vars, rowVars, queueVars, pendingDriver, notified, noteVars>>

RetryLater(x) ==
  /\ x.kind = "retry"
  /\ EnqueueRideMatching(x.job.r, x.n, {})
  /\ GoOn(x, [kind |-> "done", job |-> x.job])
  /\ UNCHANGED <<vars, rowVars, timeoutQueue, timeoutIds, pendingDriver, attempts,
                 notified, noteVars>>

\* Mutant: the status the header of the worker names, which the row has not.
MarkNoDriverFound(x) ==
  /\ x.kind = "giveup"
  /\ SetRow(x.job.r, "NO_DRIVER_FOUND", ride[x.job.r].rider)
  /\ GoOn(x, [kind |-> "done", job |-> x.job])
  /\ UNCHANGED <<vars, queueVars, pendingDriver, attempts, notified, noteVars>>

CancelBySystem(x) ==
  /\ x.kind = "giveup"
  /\ SetRow(x.job.r, "CANCELLED_BY_SYSTEM", ride[x.job.r].rider)
  /\ GoOn(x, [kind |-> "done", job |-> x.job])
  /\ UNCHANGED <<vars, queueVars, pendingDriver, attempts, notified, noteVars>>
-----------------------------------------------------------------------------
(* AssignmentTimeoutProcessor, 90 seconds after an offer.                  *)

ProcessTimeout(j) ==
  /\ timeoutQueue' = timeoutQueue \ {j}
  /\ IF HasState(j.d) /\ hex[j.d] # None
     THEN /\ ReadForDecline(j.d, j.r)
          /\ Start([kind |-> "timeout", job |-> j, call |-> OnTrip("decline", j.d, j.r)])
     ELSE /\ UNCHANGED vars
          /\ Start([kind |-> "rematch", job |-> j])
  /\ UNCHANGED <<rowVars, matchQueue, matchIds, timeoutIds, pendingDriver, attempts,
                 notified, noteVars>>

HandleAssignmentTimeout(x) ==
  /\ x.kind = "timeout" /\ x.call \in calls
  /\ DeclineJob(x.call)
  /\ GoOn(x, [kind |-> "rematch", job |-> x.job])
  /\ UNCHANGED <<rowVars, queueVars, pendingDriver, attempts, notified, noteVars>>

RetryRideMatching(x) ==
  /\ x.kind = "rematch"
  /\ IF ride[x.job.r].status \in Matchable
     THEN EnqueueRideMatching(x.job.r, x.job.n + 1, {x.job.d})
     ELSE UNCHANGED <<matchQueue, matchIds>>
  /\ GoOn(x, [kind |-> "answered", job |-> x.job])
  /\ UNCHANGED <<vars, rowVars, timeoutQueue, timeoutIds, pendingDriver, attempts,
                 notified, noteVars>>
-----------------------------------------------------------------------------
(* The driver's and the customer's handlers, and the cleanup crons.        *)

AcceptRide(d, r) ==
  /\ d \in notified[r]
  /\ ride[r].status = "SEARCHING_DRIVER"
  /\ ride[r].rider \in {None, d}
  /\ Start([kind |-> "accept", r |-> r, d |-> d])
  /\ UNCHANGED <<vars, rowVars, queueVars, pendingDriver, attempts, notified, noteVars>>

\* Mutant: an update that does not repeat the check.
TakeAnyway(x) ==
  /\ x.kind = "accept"
  /\ SetRow(x.r, "DRIVER_ACCEPTED", x.d)
  /\ Finish(x)
  /\ UNCHANGED <<vars, queueVars, pendingDriver, attempts, notified, noteVars>>

\* updateMany: the one update of the row that repeats the check on its status.
TakeRide(x) ==
  /\ x.kind = "accept"
  /\ IF ride[x.r].status = "SEARCHING_DRIVER"
     THEN SetRow(x.r, "DRIVER_ACCEPTED", x.d) ELSE UNCHANGED rowVars
  /\ Finish(x)
  /\ UNCHANGED <<vars, queueVars, pendingDriver, attempts, notified, noteVars>>

\* The row passed the checks of a handler that will now update it.
Decide(r, to) ==
  /\ Start([kind |-> "write", r |-> r, to |-> to, d |-> ride[r].rider])
  /\ UNCHANGED <<vars, rowVars, queueVars, pendingDriver, attempts, notified, noteVars>>

ConfirmPickup(d, r) ==
  ride[r].rider = d /\ ride[r].status \in Startable /\ Decide(r, "IN_PROGRESS")

CompleteRide(d, r) ==
  ride[r].rider = d /\ ride[r].status = "IN_PROGRESS" /\ Decide(r, "COMPLETED")

CancelJob(d, r) ==
  ride[r].rider = d /\ ride[r].status \in Serving /\ Decide(r, "CANCELLED_BY_DRIVER")

CancelRide(r) ==
  /\ ride[r].status \in Matchable \cup Startable
  /\ Decide(r, "CANCELLED_BY_USER")

CancelAbandoned(r) ==
  /\ ride[r].status \in Matchable \cup Startable
  /\ updatedAt[r] = "abandoned"
  /\ Decide(r, "CANCELLED_BY_SYSTEM")

\* Mutant: a driver that cancels puts the ride back, but stays on its row.
UpdateBackToSearch(x) ==
  /\ x.kind = "write"
  /\ SetRow(x.r, IF x.to = "CANCELLED_BY_DRIVER" THEN "SEARCHING_DRIVER" ELSE x.to,
                 ride[x.r].rider)
  /\ Finish(x)
  /\ UNCHANGED <<vars, queueVars, pendingDriver, attempts, notified, noteVars>>

\* The update itself is not conditional; two handlers go on to releaseDriver.
UpdateRide(x) ==
  /\ x.kind = "write"
  /\ SetRow(x.r, x.to, IF x.to = "CANCELLED_BY_DRIVER" THEN None ELSE ride[x.r].rider)
  /\ IF x.to \in {"CANCELLED_BY_USER", "CANCELLED_BY_DRIVER"}
     THEN GoOn(x, [kind |-> "release", r |-> x.r, d |-> x.d])
     ELSE Finish(x)
  /\ UNCHANGED <<vars, queueVars, pendingDriver, attempts, notified, noteVars>>

AssignedDriver(x) == IF x.d # None THEN x.d ELSE pendingDriver[x.r]

ReleaseAssigned(x) ==
  /\ x.kind = "release"
  /\ IF AssignedDriver(x) # None /\ HasState(AssignedDriver(x))
     THEN ReadForRelease(AssignedDriver(x), x.r)
     ELSE UNCHANGED vars
  /\ Finish(x)
  /\ UNCHANGED <<rowVars, queueVars, pendingDriver, attempts, notified, noteVars>>

\* Mutant: only rides whose search was announced are recovered.
RecoverSearching(r) ==
  /\ ride[r].status = "SEARCHING_DRIVER"
  /\ updatedAt[r] = "stuck"
  /\ EnqueueRideMatching(r, 1, {})
  /\ updatedAt' = [updatedAt EXCEPT ![r] = "new"]
  /\ UNCHANGED <<vars, ride, timeoutQueue, timeoutIds, pendingDriver, attempts, notified,
                 tasks, noteVars>>

RecoverStuck(r) ==
  /\ ride[r].status \in Matchable
  /\ updatedAt[r] = "stuck"
  /\ EnqueueRideMatching(r, 1, {})
  /\ updatedAt' = [updatedAt EXCEPT ![r] = "new"]
  /\ UNCHANGED <<vars, ride, timeoutQueue, timeoutIds, pendingDriver, attempts, notified,
                 tasks, noteVars>>

\* The recovery cron runs every minute: it reaches a stuck row long before
\* the row is 30 minutes old.
GrowOld(r) ==
  /\ \/ ride[r].status \in Matchable /\ updatedAt' = [updatedAt EXCEPT ![r] = "stuck"]
     \/ ride[r].status \in Startable /\ updatedAt' = [updatedAt EXCEPT ![r] = "abandoned"]
  /\ UNCHANGED <<vars, ride, queueVars, pendingDriver, attempts, notified, tasks,
                 noteVars>>

PendingDriverExpires(r) ==
  /\ pendingDriver[r] # None
  /\ pendingDriver' = [pendingDriver EXCEPT ![r] = None]
  /\ UNCHANGED <<vars, rowVars, queueVars, attempts, notified, tasks, noteVars>>
-----------------------------------------------------------------------------
(* The drivers between two searches: one shift each, positions, leaving.   *)

PoolStep ==
  \/ \E d \in Drivers, h \in Hexes :
       (status[d] = "MISSING" /\ SetOnline(d, h)) \/ UpdateLocation(d, h)
  \/ \E d \in Drivers : SetOffline(d) \/ PendingExpires(d)
  \/ \E c \in calls : c.op # "decline" /\ Resume(c)
-----------------------------------------------------------------------------
(* What fails: a call of a worker or a handler, or the process.            *)

MatchKinds   == {"search", "locked", "offer", "retry", "giveup", "done"}
TimeoutKinds == {"timeout", "rematch", "answered"}

\* The job of such a worker has a lock out, or a timer or another job behind it.
Passed == {"locked", "offer", "done", "answered"}

PassedOn(S) == {x.job.r : x \in {y \in S : y.kind \in Passed}}

Throw == throws < MaxThrows /\ throws' = throws + 1

\* The worker throws: BullMQ runs the job again, JOB_ATTEMPTS times in all.
RunAgain(x) ==
  /\ x.kind \in MatchKinds
  /\ Throw
  /\ \E again \in IF throws + 1 < JOB_ATTEMPTS THEN {{x.job}} ELSE {{}, {x.job}} :
       matchQueue' = matchQueue \cup again
  /\ repeated' = repeated \cup PassedOn({x})
  /\ Finish(x)
  /\ UNCHANGED <<vars, rowVars, matchIds, timeoutQueue, timeoutIds, pendingDriver,
                 attempts, notified, crashes, payments, resumed>>

\* Nobody awaits these, or the error is caught and logged: the rest is not done.
LoseRest(x) ==
  /\ x.kind \in {"trigger", "enqueue", "release", "rematch"}
  /\ Throw
  /\ Finish(x)
  /\ UNCHANGED <<vars, rowVars, queueVars, pendingDriver, attempts, notified, crashes,
                 payments, repeated, resumed>>

\* The timer's worker fails at the state of the driver: it catches the error too.
LoseTimeout(j) ==
  /\ Throw
  /\ timeoutQueue' = timeoutQueue \ {j}
  /\ UNCHANGED <<vars, rowVars, matchQueue, matchIds, timeoutIds, pendingDriver, attempts,
                 notified, tasks, crashes, payments, repeated, resumed>>

\* A restart: BullMQ runs stalled jobs again, but none that stalled before.
Crash ==
  /\ crashes < MaxCrashes
  /\ crashes' = crashes + 1
  /\ Restart
  /\ \E again \in IF crashes = 0 THEN {tasks} ELSE SUBSET tasks :
       /\ matchQueue' = matchQueue \cup
            {x.job : x \in {y \in again : y.kind \in MatchKinds}}
       /\ timeoutQueue' = timeoutQueue \cup
            {x.job : x \in {y \in again : y.kind \in TimeoutKinds}}
  /\ repeated' = repeated \cup PassedOn(tasks)
  /\ tasks' = {}
  /\ UNCHANGED <<rowVars, matchIds, timeoutIds, pendingDriver, attempts, notified, throws,
                 payments, resumed>>
-----------------------------------------------------------------------------
Work(x) == \/ TriggerMatchingSideEffects(x)
           \/ EnqueueFirst(x)
           \/ SearchInRings(x)
           \/ AttemptAssignment(x)
           \/ WritePendingDriver(x)
           \/ OfferRide(x)
           \/ Acknowledge(x)
           \/ HandleNoDriverFound(x)
           \/ RetryLater(x)
           \/ CancelBySystem(x)
           \/ HandleAssignmentTimeout(x)
           \/ RetryRideMatching(x)
           \/ TakeRide(x)
           \/ UpdateRide(x)
           \/ ReleaseAssigned(x)

Worker == \/ \E j \in matchQueue : ProcessMatch(j)
          \/ \E j \in timeoutQueue : ProcessTimeout(j)

Paid(r) == SettlePayment(r) \/ StartRideMatching(r) \/ FailPayment(r)

Failure == \/ \E x \in tasks : RunAgain(x) \/ LoseRest(x)
           \/ \E j \in timeoutQueue : LoseTimeout(j)
           \/ Crash

Cron(r) == RecoverStuck(r) \/ CancelAbandoned(r)

Ask(r) == \/ RequestRide(r)
          \/ CancelRide(r)
          \/ \E d \in Drivers : \/ AcceptRide(d, r)
                                \/ ConfirmPickup(d, r)
                                \/ CompleteRide(d, r)
                                \/ CancelJob(d, r)

RideNext == \/ \E x \in tasks : Work(x)
            \/ Worker
            \/ \E r \in Trips : \/ Ask(r) \/ Paid(r) \/ Cron(r)
                               \/ GrowOld(r) \/ PendingDriverExpires(r)
            \/ PoolStep /\ UNCHANGED rideVars
            \/ Failure

RideSpec == RideInit /\ [][RideNext]_allVars

\* Workers, queues and crons keep running and time passes; the customer and
\* the driver need not do anything.  Strong fairness where the bounds on
\* tasks and calls, which the code does not have, may close a guard again.
Kinds == MatchKinds \cup TimeoutKinds
           \cup {"trigger", "enqueue", "accept", "write", "release"}

Fairness ==
  /\ \A k \in Kinds : WF_allVars(\E x \in tasks : x.kind = k /\ Work(x))
  /\ WF_allVars(\E c \in calls : c.op # "decline" /\ Resume(c) /\ UNCHANGED rideVars)
  /\ SF_allVars(\E j \in matchQueue : ProcessMatch(j))
  /\ SF_allVars(\E j \in timeoutQueue : ProcessTimeout(j))
  /\ \A r \in Trips : /\ WF_allVars(GrowOld(r))
                      /\ SF_allVars(RecoverStuck(r))
                      /\ SF_allVars(CancelAbandoned(r))

RideLiveSpec == RideSpec /\ Fairness
-----------------------------------------------------------------------------
(* Properties.                                                             *)

(* The matching engine moves the driver state by the steps of DriverPool   *)
(* only, so what holds of the pool holds of the composition: in particular *)
(* the lock of AttemptAssignment and the decline of a timeout are the      *)
(* atomic scripts, whatever was read before them.                          *)
PoolImplemented == WiredSpec

(* Two drivers hold an offer for the same ride only if the queue has run a *)
(* job of the ride again after it had locked a driver or handed the search *)
(* on (an exception or a restart there: the rethrow of the worker and the  *)
(* attempts of the queue).  Otherwise the job ids make the searches of a   *)
(* ride follow each other, and a timeout takes the offer back before it    *)
(* asks for the next: no other failure, restart, cron or payment matters.  *)
OneOfferPerRide == \A r \in Trips \ repeated :
  Cardinality({d \in Drivers : pending[d] = r}) <= 1

(* A ride is searched in at most one round more than the retries of the    *)
(* worker, however often offers time out, the recovery cron adds it again  *)
(* and stalled jobs are run again: the retries and the timeout number their*)
(* rounds apart, but the ids they share make the second of them a no-op.   *)
RoundsBounded == \A id \in matchIds : id[2] <= MAX_MATCHING_RETRIES + 1

(* While a ride is looking for a driver nobody is on its row, whatever the *)
(* order of the trigger, the recovery cron, the acceptance and a failure,  *)
(* unless a settled payment asked for the search: startRideMatching puts   *)
(* the row back to SEARCHING_DRIVER whoever is on it.                      *)
NobodyYet == \A r \in Trips \ resumed :
  ride[r].status \in Matchable => ride[r].rider = None

(* Of several drivers that were shown a ride only one ever gets it: unless *)
(* a payment resumed the search, the driver of a row is never replaced.    *)
RiderStable == [][\A r \in Trips \ resumed : ride[r].rider # None =>
                    ride'[r].rider \in {ride[r].rider, None}]_allVars

(* A requested ride is shown to a driver, or given up, even if the process *)
(* restarts anywhere in between: the recovery cron and the stalled jobs.   *)
RequestConcludes == \A r \in Trips :
  ride[r].status = "REQUESTED" ~> (notified[r] # {} \/ ride[r].status \notin Matchable)

(* assignment-timeout.processor.ts:21-22 and rides-cleanup.service.ts:77:  *)
(* an unanswered offer is declined and matching retried, and a ride stuck  *)
(* for more than 30 minutes is cancelled: no ride searches forever.        *)
SearchEnds == \A r \in Trips :
  ride[r].status = "SEARCHING_DRIVER" ~> ride[r].status # "SEARCHING_DRIVER"

(* lua-scripts.ts:5: a driver serves one ride at a time.                   *)
OneRidePerDriver == \A d \in Drivers :
  Cardinality({r \in Trips : ride[r].status \in Serving /\ ride[r].rider = d}) <= 1
=============================================================================
