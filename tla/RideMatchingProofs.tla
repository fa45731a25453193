------------------------- MODULE RideMatchingProofs -------------------------
(***************************************************************************)
(* Proofs about RideMatching, for any drivers, rides, hexes and bounds: the*)
(* types of its tasks, that it moves the driver state by steps of the pool *)
(* only (so that the theorems of DriverPoolProofs carry over), that a ride *)
(* keeps the driver that took it until a payment resumes its search, that  *)
(* it is offered to one driver at a time unless a job of it that had passed*)
(* the search on is run again, and that its search takes a bounded number  *)
(* of rounds.                                                              *)
(***************************************************************************)
EXTENDS RideMatching, DriverPoolProofs, FiniteSetTheorems

(* A ride whose first transition to SEARCHING_DRIVER is still to come has  *)
(* not been shown to anybody yet: why NobodyYet is inductive.              *)
Triggered == \A x \in tasks : x.kind = "trigger" /\ x.r \notin resumed =>
                /\ ride[x.r].status # "SEARCHING_DRIVER"
                /\ ride[x.r].rider = None

Fresh == \A r \in Trips : ride[r].status = "NONE" => ride[r].rider = None

RowInv == RideTypeOK /\ NobodyYet /\ Triggered /\ Fresh
-----------------------------------------------------------------------------
(* The tasks.                                                              *)

LEMMA MatchFields ==
  ASSUME NEW x \in Task, x.kind \in MatchKinds
  PROVE  /\ x \in MatchTask
         /\ x.job \in MatchJob /\ x.job.r \in Trips /\ x.job.n \in Nat
         /\ x.job.excl \in SUBSET Drivers
BY DEF Task, MatchTask, SearchTask, TimeoutTask, RowTask, MatchKinds, MatchJob

LEMMA SearchFields ==
  ASSUME NEW x \in Task, x.kind = "search"
  PROVE  /\ x \in SearchTask
         /\ x.hexes \in SUBSET Hexes /\ x.cands \in SUBSET Drivers
         /\ x.excl \in SUBSET Drivers
         /\ \A d \in x.cands : x.h \in Hexes
BY DEF Task, MatchTask, SearchTask, TimeoutTask, RowTask

LEMMA OfferFields ==
  ASSUME NEW x \in Task, x.kind \in {"locked", "offer"}
  PROVE  x.d \in Drivers
BY DEF Task, MatchTask, SearchTask, TimeoutTask, RowTask

LEMMA RetryFields ==
  ASSUME NEW x \in Task, x.kind = "retry"
  PROVE  x.n \in Nat
BY DEF Task, MatchTask, SearchTask, TimeoutTask, RowTask

LEMMA TimeoutFields ==
  ASSUME NEW x \in Task, x.kind \in TimeoutKinds
  PROVE  /\ x.job \in TimeoutJob
         /\ x.job.r \in Trips /\ x.job.n \in Nat /\ x.job.d \in Drivers
BY DEF Task, MatchTask, SearchTask, TimeoutTask, RowTask, TimeoutKinds, TimeoutJob

LEMMA RowFields ==
  ASSUME NEW x \in Task, x.kind \in {"trigger", "enqueue", "accept", "write", "release"}
  PROVE  /\ x.r \in Trips
         /\ x.kind = "accept" => x.d \in Drivers
         /\ x.kind \in {"write", "release"} => x.d \in Someone
         /\ x.kind = "write" => x.to \in Serving \cup Terminal
BY DEF Task, MatchTask, SearchTask, TimeoutTask, RowTask

LEMMA NewSearch ==
  ASSUME NEW x \in Task, x.kind = "search", NEW h \in Hexes, NEW S \in SUBSET Drivers
  PROVE  /\ [x EXCEPT !.h = h, !.hexes = @ \ {h}, !.cands = S] \in Task
         /\ \A d \in x.cands : [x EXCEPT !.cands = @ \ {d}] \in Task
BY SearchFields DEF Task, MatchTask, SearchTask

LEMMA SearchGoesOn ==
  ASSUME NEW x \in Task, SearchInRings(x) \/ AttemptAssignment(x)
  PROVE  \E y : GoOn(x, y) /\ y.kind \in {"search", "locked"} /\ y.job = x.job
<1>1. x \in SearchTask
  BY SearchFields DEF SearchInRings, AttemptAssignment
<1>2. CASE SearchInRings(x)
  <2>1. PICK h \in x.hexes : GoOn(x, [x EXCEPT !.h = h, !.hexes = @ \ {h},
                                               !.cands = available[h] \ x.excl])
    BY <1>2 DEF SearchInRings
  <2> DEFINE y == [x EXCEPT !.h = h, !.hexes = @ \ {h}, !.cands = available[h] \ x.excl]
  <2>2. y.kind = "search" /\ y.job = x.job
    BY <1>1 DEF SearchTask
  <2> HIDE DEF y
  <2>3. GoOn(x, y)
    BY <2>1 DEF y
  <2> QED BY <2>2, <2>3
<1>3. CASE AttemptAssignment(x)
  <2>1. PICK d \in x.cands :
             \/ GoOn(x, [kind |-> "locked", job |-> x.job, d |-> d])
             \/ GoOn(x, [x EXCEPT !.cands = @ \ {d}])
    BY <1>3 DEF AttemptAssignment
  <2> DEFINE y == [x EXCEPT !.cands = @ \ {d}]
             z == [kind |-> "locked", job |-> x.job, d |-> d]
  <2>2. y.kind = "search" /\ y.job = x.job /\ z.kind = "locked" /\ z.job = x.job
    BY <1>1 DEF SearchTask
  <2> HIDE DEF y, z
  <2>3. GoOn(x, y) \/ GoOn(x, z)
    BY <2>1 DEF y, z
  <2> QED BY <2>2, <2>3
<1> QED BY <1>2, <1>3

LEMMA TaskBooks ==
  ASSUME RideTypeOK, NEW x \in tasks, NEW y \in Task
  PROVE  /\ GoOn(x, y) => tasks' \subseteq Task
         /\ Start(y) => tasks' \subseteq Task
         /\ Finish(x) => tasks' \subseteq Task
BY DEF RideTypeOK, GoOn, Start, Finish

LEMMA FirstTask ==
  ASSUME RideTypeOK, NEW y \in Task, Start(y)
  PROVE  tasks' \subseteq Task
BY DEF RideTypeOK, Start

LEMMA RowWritten ==
  ASSUME RideTypeOK, NEW r \in Trips, NEW st \in RideStatus, NEW d \in Someone,
         SetRow(r, st, d)
  PROVE  /\ ride' \in [Trips -> [status : RideStatus, rider : Someone]]
         /\ updatedAt' \in [Trips -> {"new", "stuck", "abandoned"}]
BY DEF RideTypeOK, SetRow

LEMMA Enqueued ==
  ASSUME RideTypeOK, NEW r \in Trips, NEW n \in Nat, NEW excl \in SUBSET Drivers,
         EnqueueRideMatching(r, n, excl)
  PROVE  matchQueue' \subseteq MatchJob /\ matchIds' \subseteq Trips \X Nat
BY DEF RideTypeOK, EnqueueRideMatching, MatchJob

LEMMA Scheduled ==
  ASSUME RideTypeOK, NEW r \in Trips, NEW n \in Nat, NEW d \in Drivers,
         ScheduleAssignmentTimeout(r, n, d)
  PROVE  timeoutQueue' \subseteq TimeoutJob /\ timeoutIds' \subseteq Trips
BY DEF RideTypeOK, ScheduleAssignmentTimeout, TimeoutJob
-----------------------------------------------------------------------------
(* Types.                                                                  *)

LEMMA InitRowInv == RideInit => RowInv
BY DEF RideInit, RowInv, RideTypeOK, NobodyYet, Triggered, Fresh, RideStatus, Someone, Matchable

LEMMA WorkTypes ==
  ASSUME RideTypeOK, TypeOK, NEW x \in tasks, Work(x)
  PROVE  RideTypeOK'
<1> USE DEF queueVars, rowVars, noteVars
<1>0. x \in Task
  BY DEF RideTypeOK
<1>1. CASE TriggerMatchingSideEffects(x)
  <2>1. x.r \in Trips /\ ride[x.r].rider \in Someone
    BY <1>0, <1>1, RowFields DEF TriggerMatchingSideEffects, RideTypeOK
  <2>2. [kind |-> "enqueue", r |-> x.r] \in Task
    BY <2>1 DEF Task, RowTask
  <2> QED BY <1>1, <2>1, <2>2, TaskBooks, RowWritten
             DEF TriggerMatchingSideEffects, RideTypeOK, RideStatus, Matchable
<1>2. CASE EnqueueFirst(x)
  <2>1. x.r \in Trips
    BY <1>0, <1>2, RowFields DEF EnqueueFirst
  <2> QED BY <1>0, <1>2, <2>1, TaskBooks, Enqueued DEF EnqueueFirst, RideTypeOK
<1>3. CASE SearchInRings(x)
  <2>1. PICK h \in x.hexes : GoOn(x, [x EXCEPT !.h = h, !.hexes = @ \ {h},
                                               !.cands = available[h] \ x.excl])
    BY <1>3 DEF SearchInRings
  <2>2. h \in Hexes /\ available[h] \ x.excl \in SUBSET Drivers
    BY <1>0, <1>3, <2>1, SearchFields DEF SearchInRings, TypeOK, Places
  <2> QED BY <1>0, <1>3, <2>1, <2>2, NewSearch, TaskBooks DEF SearchInRings, RideTypeOK
<1>4. CASE AttemptAssignment(x)
  <2>1. PICK d \in x.cands :
             GoOn(x, [kind |-> "locked", job |-> x.job, d |-> d])
             \/ GoOn(x, [x EXCEPT !.cands = @ \ {d}])
    BY <1>4 DEF AttemptAssignment
  <2>2. d \in Drivers /\ x.job \in MatchJob
    BY <1>0, <1>4, SearchFields, MatchFields DEF AttemptAssignment, MatchKinds
  <2>3. [kind |-> "locked", job |-> x.job, d |-> d] \in Task
    BY <2>2 DEF Task, MatchTask
  <2>4. [x EXCEPT !.cands = @ \ {d}] \in Task
    BY <1>0, <1>4, SearchFields DEF AttemptAssignment, Task, MatchTask, SearchTask
  <2> QED BY <1>4, <2>1, <2>3, <2>4, TaskBooks DEF AttemptAssignment, RideTypeOK
<1>5. CASE WritePendingDriver(x)
  <2>1. x.job.r \in Trips /\ x.d \in Drivers /\ x.job \in MatchJob
    BY <1>0, <1>5, MatchFields, OfferFields DEF WritePendingDriver, MatchKinds
  <2>2. [kind |-> "offer", job |-> x.job, d |-> x.d] \in Task
    BY <2>1 DEF Task, MatchTask
  <2> QED BY <1>5, <2>1, <2>2, TaskBooks DEF WritePendingDriver, RideTypeOK, Someone
<1>6. CASE OfferRide(x)
  <2>1. x.job \in MatchJob /\ x.job.r \in Trips /\ x.job.n \in Nat /\ x.d \in Drivers
    BY <1>0, <1>6, MatchFields, OfferFields DEF OfferRide, MatchKinds
  <2>2. [kind |-> "done", job |-> x.job] \in Task
    BY <2>1 DEF Task, MatchTask
  <2> QED BY <1>6, <2>1, <2>2, TaskBooks, Scheduled DEF OfferRide, RideTypeOK
<1>7. CASE HandleNoDriverFound(x)
  <2>1. x.job \in MatchJob /\ x.job.r \in Trips
    BY <1>0, <1>7, MatchFields DEF HandleNoDriverFound, MatchKinds
  <2>2. /\ [kind |-> "retry", job |-> x.job, n |-> attempts[x.job.r] + 2] \in Task
        /\ [kind |-> "giveup", job |-> x.job] \in Task
    BY <2>1 DEF Task, MatchTask, RideTypeOK
  <2> QED BY <1>7, <2>1, <2>2, TaskBooks DEF HandleNoDriverFound, RideTypeOK
<1>8. CASE RetryLater(x)
  <2>1. x.job \in MatchJob /\ x.job.r \in Trips /\ x.n \in Nat
    BY <1>0, <1>8, MatchFields, RetryFields DEF RetryLater, MatchKinds
  <2>2. [kind |-> "done", job |-> x.job] \in Task
    BY <2>1 DEF Task, MatchTask
  <2> QED BY <1>8, <2>1, <2>2, TaskBooks, Enqueued DEF RetryLater, RideTypeOK
<1>9. CASE CancelBySystem(x)
  <2>1. x.job \in MatchJob /\ x.job.r \in Trips /\ ride[x.job.r].rider \in Someone
    BY <1>0, <1>9, MatchFields DEF CancelBySystem, MatchKinds, RideTypeOK
  <2>2. [kind |-> "done", job |-> x.job] \in Task
    BY <2>1 DEF Task, MatchTask
  <2> QED BY <1>9, <2>1, <2>2, TaskBooks, RowWritten
             DEF CancelBySystem, RideTypeOK, RideStatus, Terminal, Cancelled
<1>10. CASE HandleAssignmentTimeout(x)
  <2>1. [kind |-> "rematch", job |-> x.job] \in Task
    BY <1>0, <1>10, TimeoutFields
       DEF HandleAssignmentTimeout, TimeoutKinds, Task, TimeoutTask
  <2> QED BY <1>10, <2>1, TaskBooks DEF HandleAssignmentTimeout, RideTypeOK
<1>11. CASE RetryRideMatching(x)
  <2>1. /\ x.job \in TimeoutJob /\ x.job.r \in Trips /\ x.job.n + 1 \in Nat
        /\ {x.job.d} \in SUBSET Drivers
    BY <1>0, <1>11, TimeoutFields DEF RetryRideMatching, TimeoutKinds
  <2>2. [kind |-> "answered", job |-> x.job] \in Task
    BY <2>1 DEF Task, TimeoutTask
  <2> QED BY <1>11, <2>1, <2>2, TaskBooks, Enqueued DEF RetryRideMatching, RideTypeOK
<1>12. CASE TakeRide(x)
  <2>1. x.r \in Trips /\ x.d \in Someone
    BY <1>0, <1>12, RowFields DEF TakeRide, Someone
  <2> QED BY <1>0, <1>12, <2>1, TaskBooks, RowWritten
             DEF TakeRide, RideTypeOK, RideStatus, Serving, Startable
<1>13. CASE UpdateRide(x)
  <2>1. /\ x.r \in Trips /\ x.to \in RideStatus /\ x.d \in Someone
        /\ ride[x.r].rider \in Someone
    BY <1>0, <1>13, RowFields DEF UpdateRide, RideTypeOK, RideStatus
  <2>2. [kind |-> "release", r |-> x.r, d |-> x.d] \in Task
    BY <2>1 DEF Task, RowTask
  <2>3. ride' \in [Trips -> [status : RideStatus, rider : Someone]]
        /\ updatedAt' \in [Trips -> {"new", "stuck", "abandoned"}]
    BY <1>13, <2>1, RowWritten DEF UpdateRide, Someone
  <2>4. tasks' \subseteq Task
    BY <1>0, <1>13, <2>2, TaskBooks DEF UpdateRide
  <2> QED BY <1>13, <2>3, <2>4 DEF UpdateRide, RideTypeOK
<1>14. CASE ReleaseAssigned(x)
  BY <1>0, <1>14, TaskBooks DEF ReleaseAssigned, RideTypeOK
<1>15. CASE Acknowledge(x)
  BY <1>0, <1>15, TaskBooks DEF Acknowledge, RideTypeOK
<1> QED BY <1>1, <1>2, <1>3, <1>4, <1>5, <1>6, <1>7, <1>8, <1>9, <1>10, <1>11,
           <1>12, <1>13, <1>14, <1>15 DEF Work

LEMMA WorkerTypes ==
  ASSUME RideTypeOK, TypeOK, Worker
  PROVE  RideTypeOK'
<1> USE DEF queueVars, rowVars, noteVars
<1>1. ASSUME NEW j \in matchQueue, ProcessMatch(j)
      PROVE  RideTypeOK'
  <2>1. j \in MatchJob /\ j.excl \cup declined[j.r] \in SUBSET Drivers
    BY DEF RideTypeOK, TypeOK, MatchJob
  <2>2. Search(j) \in Task
    BY <2>1 DEF Search, Task, MatchTask, SearchTask
  <2>3. tasks' \subseteq Task
    BY <1>1, <2>2, FirstTask DEF ProcessMatch, RideTypeOK
  <2> QED BY <1>1, <2>3 DEF ProcessMatch, RideTypeOK
<1>2. ASSUME NEW j \in timeoutQueue, ProcessTimeout(j)
      PROVE  RideTypeOK'
  <2>1. j \in TimeoutJob /\ j.d \in Drivers /\ j.r \in Trips
    BY DEF RideTypeOK, TimeoutJob
  <2>2. OnTrip("decline", j.d, j.r) \in Call
    BY <2>1 DEF OnTrip, Call, TripOps, TypeOK
  <2>3. /\ [kind |-> "timeout", job |-> j, call |-> OnTrip("decline", j.d, j.r)] \in Task
        /\ [kind |-> "rematch", job |-> j] \in Task
    BY <2>1, <2>2 DEF Task, TimeoutTask
  <2>4. tasks' \subseteq Task
    BY <1>2, <2>3, FirstTask DEF ProcessTimeout
  <2> QED BY <1>2, <2>4 DEF ProcessTimeout, RideTypeOK
<1> QED BY <1>1, <1>2 DEF Worker

LEMMA DecideTypes ==
  ASSUME RideTypeOK, NEW r \in Trips, NEW to \in Serving \cup Terminal, Decide(r, to)
  PROVE  RideTypeOK'
<1>1. [kind |-> "write", r |-> r, to |-> to, d |-> ride[r].rider] \in Task
  BY DEF Task, RowTask, RideTypeOK
<1> QED BY <1>1, FirstTask DEF Decide, RideTypeOK, queueVars, rowVars, noteVars

LEMMA AskTypes ==
  ASSUME RideTypeOK, NEW r \in Trips, Ask(r)
  PROVE  RideTypeOK'
<1> USE DEF queueVars, rowVars, noteVars
<1>1. CASE RequestRide(r)
  <2>1. [kind |-> "trigger", r |-> r] \in Task
    BY DEF Task, RowTask
  <2> QED BY <1>1, <2>1, FirstTask, RowWritten
             DEF RequestRide, RideTypeOK, RideStatus, Matchable, Someone
<1>2. ASSUME NEW d \in Drivers, AcceptRide(d, r)
      PROVE  RideTypeOK'
  <2>1. [kind |-> "accept", r |-> r, d |-> d] \in Task
    BY DEF Task, RowTask
  <2> QED BY <1>2, <2>1, FirstTask DEF AcceptRide, RideTypeOK
<1>3. {"IN_PROGRESS", "COMPLETED", "CANCELLED_BY_DRIVER", "CANCELLED_BY_USER"}
         \subseteq Serving \cup Terminal
  BY DEF RideStatus, Matchable, Serving, Terminal, Cancelled
<1>4. CASE CancelRide(r)
  BY <1>3, <1>4, DecideTypes DEF CancelRide
<1>5. ASSUME NEW d \in Drivers, ConfirmPickup(d, r) \/ CompleteRide(d, r) \/ CancelJob(d, r)
      PROVE  RideTypeOK'
  BY <1>3, <1>5, DecideTypes DEF ConfirmPickup, CompleteRide, CancelJob
<1> QED BY <1>1, <1>2, <1>4, <1>5 DEF Ask

LEMMA PaidTypes ==
  ASSUME RideTypeOK, NEW r \in Trips, Paid(r)
  PROVE  RideTypeOK'
<1> USE DEF queueVars, rowVars, Answer
<1>1. CASE SettlePayment(r)
  <2>1. [kind |-> "write", r |-> r, to |-> "PAID", d |-> ride[r].rider] \in Task
    BY DEF Task, RowTask, RideTypeOK, Serving, Startable
  <2> QED BY <1>1, <2>1, FirstTask DEF SettlePayment, RideTypeOK
<1>2. CASE StartRideMatching(r)
  <2>1. [kind |-> "trigger", r |-> r] \in Task
    BY DEF Task, RowTask
  <2> QED BY <1>2, <2>1, FirstTask DEF StartRideMatching, RideTypeOK
<1>3. CASE FailPayment(r)
  <2>1. ride[r].rider \in Someone
    BY DEF RideTypeOK
  <2> QED BY <1>3, <2>1, RowWritten
             DEF FailPayment, RideTypeOK, RideStatus, Terminal, Cancelled
<1> QED BY <1>1, <1>2, <1>3 DEF Paid

LEMMA CronTypes ==
  ASSUME RideTypeOK, NEW r \in Trips,
         Cron(r) \/ GrowOld(r) \/ PendingDriverExpires(r)
  PROVE  RideTypeOK'
<1> USE DEF queueVars, rowVars, noteVars
<1>1. CASE RecoverStuck(r)
  <2>1. matchQueue' \subseteq MatchJob /\ matchIds' \subseteq Trips \X Nat
    BY <1>1, Enqueued DEF RecoverStuck
  <2> QED BY <1>1, <2>1 DEF RecoverStuck, RideTypeOK
<1>2. CASE CancelAbandoned(r)
  <2>1. "CANCELLED_BY_SYSTEM" \in Serving \cup Terminal
    BY DEF RideStatus, Matchable, Serving, Terminal, Cancelled
  <2> QED BY <1>2, <2>1, DecideTypes DEF CancelAbandoned
<1>3. CASE GrowOld(r)
  BY <1>3 DEF GrowOld, RideTypeOK
<1>4. CASE PendingDriverExpires(r)
  BY <1>4 DEF PendingDriverExpires, RideTypeOK, Someone
<1> QED BY <1>1, <1>2, <1>3, <1>4 DEF Cron

LEMMA StalledJobs ==
  ASSUME Crash
  PROVE  /\ matchQueue' \subseteq matchQueue \cup
               {x.job : x \in {y \in tasks : y.kind \in MatchKinds}}
         /\ timeoutQueue' \subseteq timeoutQueue \cup
               {x.job : x \in {y \in tasks : y.kind \in TimeoutKinds}}
<1>1. PICK again \in SUBSET tasks :
         /\ matchQueue' = matchQueue \cup
               {x.job : x \in {y \in again : y.kind \in MatchKinds}}
         /\ timeoutQueue' = timeoutQueue \cup
               {x.job : x \in {y \in again : y.kind \in TimeoutKinds}}
  BY DEF Crash
<1> QED BY <1>1

LEMMA FailureTypes ==
  ASSUME RideTypeOK, Failure
  PROVE  RideTypeOK'
<1> USE DEF queueVars, rowVars, Throw
<1>1. \A x \in tasks : x.kind \in MatchKinds => x.job \in MatchJob
  BY MatchFields DEF RideTypeOK
<1>2. \A x \in tasks : x.kind \in TimeoutKinds => x.job \in TimeoutJob
  BY TimeoutFields DEF RideTypeOK
<1>3. PassedOn(tasks) \subseteq Trips
  BY MatchFields, TimeoutFields
     DEF PassedOn, Passed, MatchKinds, TimeoutKinds, RideTypeOK
<1>4. ASSUME NEW x \in tasks, RunAgain(x)
      PROVE  RideTypeOK'
  <2>1. PassedOn({x}) \subseteq PassedOn(tasks)
    BY DEF PassedOn
  <2>2. matchQueue' \subseteq matchQueue \cup {x.job} /\ x.job \in MatchJob
    BY <1>1, <1>4 DEF RunAgain
  <2>3. tasks' \subseteq tasks
    BY <1>4 DEF RunAgain, Finish
  <2>4. matchQueue' \subseteq MatchJob /\ repeated' \subseteq Trips
    BY <1>3, <1>4, <2>1, <2>2 DEF RunAgain, RideTypeOK
  <2>5. throws' \in Nat
    BY <1>4 DEF RunAgain, RideTypeOK
  <2>6. tasks' \subseteq Task
    BY <2>3 DEF RideTypeOK
  <2> QED BY <1>4, <2>4, <2>5, <2>6 DEF RunAgain, RideTypeOK
<1>5. ASSUME NEW x \in tasks, LoseRest(x)
      PROVE  RideTypeOK'
  BY <1>5 DEF LoseRest, Finish, RideTypeOK
<1>6. ASSUME NEW j \in timeoutQueue, LoseTimeout(j)
      PROVE  RideTypeOK'
  BY <1>6 DEF LoseTimeout, RideTypeOK
<1>7. CASE Crash
  <2>1. /\ matchQueue' \subseteq matchQueue \cup
               {x.job : x \in {y \in tasks : y.kind \in MatchKinds}}
        /\ timeoutQueue' \subseteq timeoutQueue \cup
               {x.job : x \in {y \in tasks : y.kind \in TimeoutKinds}}
    BY <1>7, StalledJobs
  <2> QED BY <1>1, <1>2, <1>3, <1>7, <2>1 DEF Crash, RideTypeOK
<1> QED BY <1>4, <1>5, <1>6, <1>7 DEF Failure

LEMMA NextTypes ==
  ASSUME RideTypeOK, TypeOK, [RideNext]_allVars
  PROVE  RideTypeOK'
<1>1. CASE UNCHANGED rideVars
  BY <1>1 DEF rideVars, noteVars, RideTypeOK
<1> QED BY <1>1, WorkTypes, WorkerTypes, AskTypes, PaidTypes, CronTypes, FailureTypes
        DEF RideNext, allVars
-----------------------------------------------------------------------------
(* The driver state moves by steps of the pool.                            *)

LEMMA StepsOfPool ==
  ASSUME RideTypeOK, TypeOK, RideNext
  PROVE  [WiredNext]_vars
<1>1. ASSUME NEW x \in tasks, Work(x)
      PROVE  [WiredNext]_vars
  <2>0. x \in Task
    BY DEF RideTypeOK
  <2>1. CASE AttemptAssignment(x)
    <3>1. PICK d \in x.cands : LockDriver(d, x.job.r, x.h) \/ UNCHANGED vars
      BY <2>1 DEF AttemptAssignment
    <3>2. d \in Drivers /\ x.h \in Hexes /\ x.job.r \in Trips
      BY <2>0, <2>1, SearchFields, MatchFields DEF AttemptAssignment, MatchKinds
    <3> QED BY <3>1, <3>2 DEF WiredNext, Request
  <2>2. CASE HandleAssignmentTimeout(x)
    BY <2>2 DEF HandleAssignmentTimeout, WiredNext, Resume
  <2>3. CASE ReleaseAssigned(x)
    <3>1. x.r \in Trips /\ x.d \in Someone /\ pendingDriver[x.r] \in Someone
      BY <2>0, <2>3, RowFields DEF ReleaseAssigned, RideTypeOK
    <3>2. CASE AssignedDriver(x) # None /\ HasState(AssignedDriver(x))
      <4>1. AssignedDriver(x) \in Drivers
        BY <3>1, <3>2 DEF AssignedDriver, Someone
      <4> QED BY <2>3, <3>1, <3>2, <4>1 DEF ReleaseAssigned, WiredNext, Request
    <3> QED BY <2>3, <3>2 DEF ReleaseAssigned
  <2> QED BY <1>1, <2>1, <2>2, <2>3
          DEF Work, TriggerMatchingSideEffects, EnqueueFirst, SearchInRings,
              WritePendingDriver, OfferRide, HandleNoDriverFound, RetryLater,
              CancelBySystem, RetryRideMatching, TakeRide, UpdateRide, Acknowledge
<1>2. CASE Worker
  <2>1. ASSUME NEW j \in timeoutQueue, ProcessTimeout(j)
        PROVE  [WiredNext]_vars
    <3>1. j.d \in Drivers /\ j.r \in Trips
      BY DEF RideTypeOK, TimeoutJob
    <3> QED BY <2>1, <3>1 DEF ProcessTimeout, WiredNext, Request
  <2> QED BY <1>2, <2>1 DEF Worker, ProcessMatch
<1>3. ASSUME NEW r \in Trips, Ask(r) \/ Cron(r) \/ GrowOld(r) \/ PendingDriverExpires(r)
      PROVE  UNCHANGED vars
  BY <1>3 DEF Ask, RequestRide, AcceptRide, ConfirmPickup, CompleteRide, CancelJob,
              CancelRide, CancelAbandoned, Decide, Cron, RecoverStuck, GrowOld,
              PendingDriverExpires
<1>4. CASE PoolStep
  BY <1>4 DEF PoolStep, WiredNext, Request, Elapse
<1>5. CASE Failure
  BY <1>5 DEF Failure, RunAgain, LoseRest, LoseTimeout, Crash, WiredNext
<1>6. ASSUME NEW r \in Trips, Paid(r)
      PROVE  UNCHANGED vars
  BY <1>6 DEF Paid, SettlePayment, StartRideMatching, FailPayment
<1> QED BY <1>1, <1>2, <1>3, <1>4, <1>5, <1>6 DEF RideNext

LEMMA PoolTypeStep ==
  ASSUME IInv, [WiredNext]_vars
  PROVE  IInv'
BY NextDataInv, NextBookType DEF Next, IInv

LEMMA RideInduction == RideSpec => [](RideTypeOK /\ IInv)
<1>1. RideInit => RideTypeOK /\ IInv
  BY InitRowInv, InitIInv DEF RowInv, RideInit
<1>2. RideTypeOK /\ IInv /\ [RideNext]_allVars => (RideTypeOK /\ IInv)'
  <2> SUFFICES ASSUME RideTypeOK, IInv, [RideNext]_allVars
               PROVE  RideTypeOK' /\ IInv'
    OBVIOUS
  <2>1. TypeOK
    BY DEF IInv, DataInv, DataType, BookType, TypeOK
  <2>2. [WiredNext]_vars
    BY <2>1, StepsOfPool DEF allVars
  <2> QED BY <2>1, <2>2, NextTypes, PoolTypeStep
<1> QED BY <1>1, <1>2, PTL DEF RideSpec

(* The variables of the search keep their types, without any bound on the  *)
(* attempts and on the tasks at work.                                      *)
THEOREM RideTypeCorrect == RideSpec => []RideTypeOK
BY RideInduction, PTL

(* The engine, its queues, the handlers and a restart move the driver state*)
(* by steps of the pool only.                                              *)
THEOREM PoolIsImplemented == RideSpec => PoolImplemented
<1>1. RideInit => Init
  BY DEF RideInit
<1>2. IInv => TypeOK
  BY DEF IInv, DataInv, DataType, BookType, TypeOK
<1>3. RideTypeOK /\ IInv /\ [RideNext]_allVars => [WiredNext]_vars
  BY <1>2, StepsOfPool DEF allVars
<1> QED BY <1>1, <1>3, RideInduction, PTL DEF RideSpec, PoolImplemented, WiredSpec

(* So an offer made by a search, taken back by a timeout or overtaken by a *)
(* restart never leaves a driver with an offer and a job.                  *)
THEOREM MatchingKeepsOneJob == RideSpec => []OneJob
<1>1. IInv => OneJob
  BY DEF IInv, DataInv
<1> QED BY <1>1, RideInduction, PTL

(* The search, the handlers and the restarts on top of the pool still are  *)
(* one job slot per driver.                                                *)
THEOREM MatchingImplementsJobSlot == RideSpec => SlotRefined
<1>1. [WiredNext]_vars => [Next]_vars
  BY DEF Next
<1>2. PoolImplemented => Spec
  BY <1>1, PTL DEF PoolImplemented, WiredSpec, Spec
<1> QED BY <1>2, PoolIsImplemented, PoolImplementsJobSlot, PTL
-----------------------------------------------------------------------------
(* The driver of a ride.                                                   *)

LEMMA WorkRows ==
  ASSUME RowInv, NEW x \in tasks, Work(x)
  PROVE  NobodyYet' /\ Triggered' /\ Fresh'
<1>0. x \in Task /\ RideTypeOK /\ NobodyYet /\ Triggered /\ Fresh
  BY DEF RowInv, RideTypeOK
<1> USE <1>0 DEF NobodyYet, Triggered, Fresh, queueVars, rowVars, noteVars
<1>1. CASE TriggerMatchingSideEffects(x)
  <2>1. x.r \in Trips /\ (x.r \in resumed \/ ride[x.r].rider = None)
    BY <1>1, RowFields DEF TriggerMatchingSideEffects
  <2>2. \A y \in tasks : y.kind = "trigger" => y = [kind |-> "trigger", r |-> y.r]
    BY DEF RideTypeOK, Task, RowTask, MatchTask, SearchTask, TimeoutTask
  <2>3. \A y \in tasks' : y.kind = "trigger" => y \in tasks /\ y.r # x.r
    BY <1>1, <2>1, <2>2 DEF TriggerMatchingSideEffects, GoOn
  <2>4. ride' = [ride EXCEPT ![x.r] = [status |-> "SEARCHING_DRIVER",
                                       rider  |-> ride[x.r].rider]]
    BY <1>1 DEF TriggerMatchingSideEffects, SetRow
  <2>5. \A y \in tasks' : y.kind = "trigger" => ride'[y.r] = ride[y.r]
    BY <2>3, <2>4 DEF RideTypeOK
  <2>6. \A r \in Trips : \/ ride'[r] = ride[r]
                         \/ /\ ride'[r].status = "SEARCHING_DRIVER"
                            /\ r \in resumed \/ ride'[r].rider = None
    BY <2>1, <2>4 DEF RideTypeOK
  <2>7. UNCHANGED resumed
    BY <1>1 DEF TriggerMatchingSideEffects
  <2>8. NobodyYet' /\ Fresh'
    BY <2>6, <2>7 DEF Matchable
  <2>9. Triggered'
    <3> SUFFICES ASSUME NEW y \in tasks', y.kind = "trigger", y.r \notin resumed
                 PROVE  ride'[y.r].status # "SEARCHING_DRIVER" /\ ride'[y.r].rider = None
      BY <2>7
    <3>1. y \in tasks /\ ride'[y.r] = ride[y.r]
      BY <2>3, <2>5
    <3> QED BY <3>1
  <2> QED BY <2>8, <2>9
<1>2. CASE CancelBySystem(x)
  <2>1. x.job.r \in Trips
    BY <1>2, MatchFields DEF CancelBySystem, MatchKinds
  <2>2. ride' = [ride EXCEPT ![x.job.r] = [status |-> "CANCELLED_BY_SYSTEM",
                                           rider  |-> ride[x.job.r].rider]]
    BY <1>2 DEF CancelBySystem, SetRow
  <2>3. \A y \in tasks' : y.kind = "trigger" => y \in tasks /\ y.r \in Trips
    BY <1>2, RowFields DEF CancelBySystem, GoOn, RideTypeOK
  <2>4. UNCHANGED resumed
    BY <1>2 DEF CancelBySystem
  <2> QED BY <2>1, <2>2, <2>3, <2>4 DEF RideTypeOK, Matchable
<1>3. CASE TakeRide(x)
  <2>1. x.r \in Trips
    BY <1>3, RowFields DEF TakeRide
  <2>2. tasks' \subseteq tasks /\ UNCHANGED resumed
    BY <1>3 DEF TakeRide, Finish
  <2>3. CASE ride[x.r].status = "SEARCHING_DRIVER"
    <3>1. ride' = [ride EXCEPT ![x.r] = [status |-> "DRIVER_ACCEPTED", rider |-> x.d]]
      BY <1>3, <2>3 DEF TakeRide, SetRow
    <3>2. \A y \in tasks' : y.kind = "trigger" /\ y.r \notin resumed
                              => y.r # x.r /\ y.r \in Trips
      BY <2>2, <2>3, RowFields DEF RideTypeOK
    <3>3. \A r \in Trips : \/ ride'[r] = ride[r]
                           \/ r = x.r /\ ride'[r].status = "DRIVER_ACCEPTED"
      BY <2>1, <3>1 DEF RideTypeOK
    <3>4. \A y \in tasks' : y.kind = "trigger" /\ y.r \notin resumed
                              => ride'[y.r] = ride[y.r]
      BY <3>2, <3>1 DEF RideTypeOK
    <3> QED BY <2>2, <3>3, <3>4 DEF Matchable
  <2>4. CASE UNCHANGED ride
    BY <2>2, <2>4
  <2> QED BY <1>3, <2>3, <2>4 DEF TakeRide
<1>4. CASE UpdateRide(x)
  <2>1. x.r \in Trips /\ x.to \in Serving \cup Terminal
    BY <1>4, RowFields DEF UpdateRide
  <2>2. PICK d \in {None, ride[x.r].rider} :
             ride' = [ride EXCEPT ![x.r] = [status |-> x.to, rider |-> d]]
    BY <1>4 DEF UpdateRide, SetRow
  <2>3. \A y \in tasks' : y.kind = "trigger" => y \in tasks /\ y.r \in Trips
    BY <1>4, RowFields DEF UpdateRide, GoOn, Finish, RideTypeOK
  <2>4. x.to \notin Matchable \cup {"NONE", "SEARCHING_DRIVER"}
    BY <2>1 DEF Matchable, Serving, Startable, Terminal, Cancelled
  <2>5. \A r \in Trips : \/ ride'[r] = ride[r]
                         \/ r = x.r /\ ride'[r].status = x.to
                            /\ ride'[r].rider \in {None, ride[r].rider}
    BY <2>1, <2>2 DEF RideTypeOK
  <2>6. UNCHANGED resumed
    BY <1>4 DEF UpdateRide
  <2> QED BY <2>3, <2>4, <2>5, <2>6 DEF Matchable
<1>5. CASE /\ UNCHANGED <<ride, resumed>>
           /\ \A y \in tasks' : y.kind = "trigger" => y \in tasks
  BY <1>5
<1>6. CASE EnqueueFirst(x) \/ ReleaseAssigned(x) \/ Acknowledge(x)
  BY <1>5, <1>6 DEF EnqueueFirst, ReleaseAssigned, Acknowledge, Finish
<1>7. CASE SearchInRings(x) \/ AttemptAssignment(x)
  <2>1. PICK y : GoOn(x, y) /\ y.kind \in {"search", "locked"}
    BY <1>7, SearchGoesOn
  <2> QED BY <1>5, <1>7, <2>1 DEF GoOn, SearchInRings, AttemptAssignment
<1>8. CASE \/ WritePendingDriver(x) \/ HandleNoDriverFound(x) \/ HandleAssignmentTimeout(x)
           \/ OfferRide(x) \/ RetryLater(x) \/ RetryRideMatching(x)
  BY <1>5, <1>8 DEF WritePendingDriver, HandleNoDriverFound, HandleAssignmentTimeout,
                    OfferRide, RetryLater, RetryRideMatching, GoOn
<1> QED BY <1>1, <1>2, <1>3, <1>4, <1>6, <1>7, <1>8 DEF Work

LEMMA RowsKept ==
  ASSUME RowInv, UNCHANGED ride, resumed \subseteq resumed',
         \A y \in tasks' : y.kind = "trigger" => y \in tasks \/ y.r \in resumed'
  PROVE  NobodyYet' /\ Triggered' /\ Fresh'
BY DEF RowInv, NobodyYet, Triggered, Fresh

LEMMA HandlerRows ==
  ASSUME RowInv, NEW r \in Trips, Ask(r) \/ Cron(r)
  PROVE  NobodyYet' /\ Triggered' /\ Fresh'
<1> USE DEF noteVars
<1>1. CASE RequestRide(r)
  <2>1. ride[r].status = "NONE" /\ ride[r].rider = None
    BY <1>1 DEF RequestRide, RowInv, Fresh
  <2>2. ride' = [ride EXCEPT ![r] = [status |-> "REQUESTED", rider |-> None]]
    BY <1>1 DEF RequestRide, SetRow
  <2>3. \A y \in tasks' : y.kind = "trigger" => y \in tasks \/ y.r = r
    BY <1>1 DEF RequestRide, Start
  <2>4. \A y \in tasks : y.kind = "trigger" => y.r \in Trips
    BY RowFields DEF RowInv, RideTypeOK
  <2>5. \A s \in Trips : \/ ride'[s] = ride[s]
                         \/ s = r /\ ride'[s] = [status |-> "REQUESTED", rider |-> None]
    BY <2>2 DEF RowInv, RideTypeOK
  <2>6. \A y \in tasks' : y.kind = "trigger" /\ y.r \notin resumed =>
           ride'[y.r].status # "SEARCHING_DRIVER" /\ ride'[y.r].rider = None
    <3> SUFFICES ASSUME NEW y \in tasks', y.kind = "trigger", y.r \notin resumed
                 PROVE  ride'[y.r].status # "SEARCHING_DRIVER" /\ ride'[y.r].rider = None
      OBVIOUS
    <3>1. CASE y.r = r
      BY <2>2, <3>1 DEF RowInv, RideTypeOK
    <3>2. CASE y.r # r
      BY <2>3, <2>4, <2>5, <3>2 DEF RowInv, Triggered
    <3> QED BY <3>1, <3>2
  <2>7. UNCHANGED resumed
    BY <1>1 DEF RequestRide
  <2> QED BY <2>5, <2>6, <2>7 DEF RowInv, NobodyYet, Triggered, Fresh
<1>2. ASSUME NEW to, Decide(r, to)
      PROVE  NobodyYet' /\ Triggered' /\ Fresh'
  BY <1>2, RowsKept DEF Decide, Start, rowVars
<1>3. ASSUME NEW d \in Drivers, AcceptRide(d, r)
      PROVE  NobodyYet' /\ Triggered' /\ Fresh'
  BY <1>3, RowsKept DEF AcceptRide, Start, rowVars
<1>4. CASE RecoverStuck(r)
  BY <1>4, RowsKept DEF RecoverStuck
<1> QED BY <1>1, <1>2, <1>3, <1>4
        DEF Ask, Cron, ConfirmPickup, CompleteRide, CancelJob, CancelRide, CancelAbandoned

LEMMA PaidRows ==
  ASSUME RowInv, NEW r \in Trips, Paid(r)
  PROVE  NobodyYet' /\ Triggered' /\ Fresh'
<1>1. CASE SettlePayment(r)
  BY <1>1, RowsKept DEF SettlePayment, Start, rowVars
<1>2. CASE StartRideMatching(r)
  BY <1>2, RowsKept DEF StartRideMatching, Start, rowVars
<1>3. CASE FailPayment(r)
  <2>1. ride' = [ride EXCEPT ![r] = [status |-> "CANCELLED", rider |-> ride[r].rider]]
    BY <1>3 DEF FailPayment, SetRow
  <2>2. \A y \in tasks : y.kind = "trigger" => y.r \in Trips
    BY RowFields DEF RowInv, RideTypeOK
  <2>3. \A s \in Trips : \/ ride'[s] = ride[s]
                         \/ s = r /\ ride'[s].status = "CANCELLED"
                            /\ ride'[s].rider = ride[s].rider
    BY <2>1 DEF RowInv, RideTypeOK
  <2>4. UNCHANGED <<tasks, resumed>>
    BY <1>3 DEF FailPayment
  <2> QED BY <2>2, <2>3, <2>4 DEF RowInv, NobodyYet, Triggered, Fresh, Matchable
<1> QED BY <1>1, <1>2, <1>3 DEF Paid

LEMMA FailureRows ==
  ASSUME RowInv, Failure
  PROVE  NobodyYet' /\ Triggered' /\ Fresh'
BY RowsKept DEF Failure, RunAgain, LoseRest, LoseTimeout, Crash, Finish, rowVars

LEMMA WorkerRows ==
  ASSUME RowInv, Worker
  PROVE  NobodyYet' /\ Triggered' /\ Fresh'
<1> USE DEF noteVars
<1>1. ASSUME NEW j \in matchQueue, ProcessMatch(j)
      PROVE  NobodyYet' /\ Triggered' /\ Fresh'
  BY <1>1, RowsKept DEF ProcessMatch, Search, Start, rowVars
<1>2. ASSUME NEW j \in timeoutQueue, ProcessTimeout(j)
      PROVE  NobodyYet' /\ Triggered' /\ Fresh'
  BY <1>2, RowsKept DEF ProcessTimeout, Start, rowVars
<1> QED BY <1>1, <1>2 DEF Worker

LEMMA NextRows ==
  ASSUME RowInv, [RideNext]_allVars
  PROVE  NobodyYet' /\ Triggered' /\ Fresh'
<1>1. CASE UNCHANGED rideVars
  BY <1>1, RowsKept DEF rideVars, noteVars
<1>2. ASSUME NEW r \in Trips, GrowOld(r) \/ PendingDriverExpires(r)
      PROVE  NobodyYet' /\ Triggered' /\ Fresh'
  BY <1>2, RowsKept DEF GrowOld, PendingDriverExpires, rowVars, noteVars
<1> QED BY <1>1, <1>2, WorkRows, HandlerRows, PaidRows, WorkerRows, FailureRows
        DEF RideNext, allVars

LEMMA RowInduction == RideSpec => []RowInv
<1>1. RowInv /\ IInv /\ [RideNext]_allVars => RowInv'
  <2> SUFFICES ASSUME RowInv, IInv, [RideNext]_allVars
               PROVE  RowInv'
    OBVIOUS
  <2>1. TypeOK /\ RideTypeOK
    BY DEF IInv, DataInv, DataType, BookType, TypeOK, RowInv
  <2> QED BY <2>1, NextTypes, NextRows DEF RowInv
<1> QED BY InitRowInv, <1>1, RideInduction, PTL DEF RideSpec

(* Nobody is on the row of a ride that is looking for a driver, whatever   *)
(* fails, unless a settled payment has asked for that search.              *)
THEOREM NobodyIsOnASearch == RideSpec => []NobodyYet
<1>1. RowInv => NobodyYet
  BY DEF RowInv
<1> QED BY <1>1, RowInduction, PTL

(* The driver of a ride whose search no payment asked for is never replaced*)
(* by another: the update of an acceptance finds a row without a driver.   *)
THEOREM DriverIsKept == RideSpec => RiderStable
<1>1. ASSUME RowInv, RideNext, NEW r \in Trips \ resumed, ride[r].rider # None
      PROVE  ride'[r].rider \in {ride[r].rider, None}
  <2>1. ASSUME NEW s \in Trips, NEW st,
               NEW e \in {None, ride[s].rider}, SetRow(s, st, e)
        PROVE  ride'[r].rider \in {ride[r].rider, None}
    BY <1>1, <2>1 DEF SetRow, RowInv, RideTypeOK
  <2>2. ASSUME NEW x \in tasks, Work(x)
        PROVE  ride'[r].rider \in {ride[r].rider, None}
    <3>0. x \in Task
      BY <1>1 DEF RowInv, RideTypeOK
    <3>1. CASE TriggerMatchingSideEffects(x)
      BY <2>1, <3>0, <3>1, RowFields DEF TriggerMatchingSideEffects
    <3>2. CASE CancelBySystem(x)
      BY <2>1, <3>0, <3>2, MatchFields DEF CancelBySystem, MatchKinds
    <3>3. CASE UpdateRide(x)
      BY <2>1, <3>0, <3>3, RowFields DEF UpdateRide
    <3>4. CASE TakeRide(x)
      <4>1. x.r \in Trips
        BY <3>0, <3>4, RowFields DEF TakeRide
      <4>2. CASE ride[x.r].status = "SEARCHING_DRIVER"
        <5>1. x.r # r
          BY <1>1, <4>1, <4>2 DEF RowInv, NobodyYet, Matchable
        <5> QED BY <1>1, <3>4, <4>1, <4>2, <5>1 DEF TakeRide, SetRow, RowInv, RideTypeOK
      <4> QED BY <3>4, <4>2 DEF TakeRide, rowVars
    <3> QED BY <2>2, <3>1, <3>2, <3>3, <3>4
            DEF Work, EnqueueFirst, SearchInRings, AttemptAssignment, WritePendingDriver,
                OfferRide, HandleNoDriverFound, RetryLater, HandleAssignmentTimeout,
                RetryRideMatching, ReleaseAssigned, Acknowledge, rowVars
  <2>3. CASE \E s \in Trips : RequestRide(s)
    <3>1. PICK s \in Trips : RequestRide(s)
      BY <2>3
    <3> QED BY <2>1, <3>1 DEF RequestRide
  <2>4. CASE \E s \in Trips : (Ask(s) /\ ~ RequestRide(s)) \/ Cron(s) \/ GrowOld(s)
                               \/ PendingDriverExpires(s)
    BY <2>4 DEF Ask, AcceptRide, ConfirmPickup, CompleteRide, CancelJob, CancelRide,
                CancelAbandoned, Decide, Cron, RecoverStuck, GrowOld,
                PendingDriverExpires, rowVars
  <2>5. CASE Worker \/ (PoolStep /\ UNCHANGED rideVars) \/ Failure
    BY <2>5 DEF Worker, ProcessMatch, ProcessTimeout, Failure, RunAgain, LoseRest,
                LoseTimeout, Crash, rideVars, rowVars
  <2>6. ASSUME NEW s \in Trips, Paid(s)
        PROVE  ride'[r].rider \in {ride[r].rider, None}
    BY <2>1, <2>6 DEF Paid, SettlePayment, StartRideMatching, FailPayment, rowVars
  <2> QED BY <1>1, <2>2, <2>3, <2>4, <2>5, <2>6 DEF RideNext
<1>2. ASSUME RowInv, [RideNext]_allVars
      PROVE  [\A r \in Trips \ resumed : ride[r].rider # None =>
                 ride'[r].rider \in {ride[r].rider, None}]_allVars
  BY <1>1, <1>2
<1>3. RowInv /\ [RideNext]_allVars =>
        [\A r \in Trips \ resumed : ride[r].rider # None =>
            ride'[r].rider \in {ride[r].rider, None}]_allVars
  BY <1>2
<1> QED BY <1>3, RowInduction, PTL DEF RideSpec, RiderStable
-----------------------------------------------------------------------------
(* One offer per ride.  The search of a ride is a chain: a waiting job, the*)
(* worker that took it, the timer of the offer the worker made, the worker *)
(* of that timer, and the job of the next round.  What is proved is that a *)
(* ride never has two links at once, and that a driver who still holds an  *)
(* offer for a ride is the driver its link is about, so no link can make a *)
(* second offer beside it.  A worker that has passed the search on is no   *)
(* link; if its job is run again nevertheless, the ride is in repeated and *)
(* nothing is said of it any more.                                         *)

LinkKinds == (MatchKinds \cup TimeoutKinds) \ {"done", "answered"}

Chain(r) == {<<"job", j>> : j \in {k \in matchQueue : k.r = r}}
            \cup {<<"timer", j>> : j \in {k \in timeoutQueue : k.r = r}}
            \cup {<<"worker", x>> : x \in {y \in tasks : y.kind \in LinkKinds /\ y.job.r = r}}

Offered(r) == {d \in Drivers : pending[d] = r}

\* The link e is about an offer that the driver d holds.
About(e, d) == \/ e[1] = "timer" /\ e[2].d = d
               \/ e[1] = "worker" /\ e[2].kind \in {"locked", "offer"} /\ e[2].d = d
               \/ e[1] = "worker" /\ e[2].kind = "timeout" /\ e[2].job.d = d

OneLink(r)   == \A e, f \in Chain(r) : e = f
Started(r)   == Chain(r) # {} \/ Offered(r) # {} => <<r, 1>> \in matchIds
Answered(r)  == \A d \in Offered(r), e \in Chain(r) : About(e, d)
OneHolder(r) == \A d, e \in Offered(r) : d = e

Linked(r) == OneLink(r) /\ Started(r) /\ Answered(r) /\ OneHolder(r)

(* The worker of a timer declines for the driver and the ride of its job.  *)
Answering == \A x \in tasks : x.kind = "timeout" =>
                x.call.d = x.job.d /\ x.call.t = x.job.r

(* Whoever holds an offer has a state, so a timer finds whom to decline.   *)
HeldByState == \A d \in Drivers : pending[d] # None => HasState(d)

AllLinked == \A r \in Trips \ repeated : Linked(r)

ChainInv == Answering /\ HeldByState /\ AllLinked
-----------------------------------------------------------------------------
(* What a step can do to a chain.                                          *)

LEMMA LinkLeftAlone ==
  ASSUME NEW r \in Trips, Linked(r), Chain(r)' \subseteq Chain(r),
         Offered(r)' \subseteq Offered(r), matchIds \subseteq matchIds'
  PROVE  Linked(r)'
BY DEF Linked, OneLink, Started, Answered, OneHolder, About

LEMMA LinkReplaced ==
  ASSUME NEW r \in Trips, Linked(r), NEW e \in Chain(r), NEW f,
         Chain(r)' \subseteq (Chain(r) \ {e}) \cup {f},
         Offered(r)' \subseteq Offered(r), matchIds \subseteq matchIds',
         \A d \in Offered(r)' : About(f, d)
  PROVE  Linked(r)'
<1>1. Chain(r)' \subseteq {f}
  BY DEF Linked, OneLink
<1>2. <<r, 1>> \in matchIds'
  BY DEF Linked, Started
<1> QED BY <1>1, <1>2 DEF Linked, OneLink, Started, Answered, OneHolder, About

LEMMA ChainElsewhere ==
  ASSUME NEW r \in Trips, NEW s \in Trips, s # r,
         \A j \in matchQueue' : j \in matchQueue \/ j.r = r,
         \A j \in timeoutQueue' : j \in timeoutQueue \/ j.r = r,
         \A y \in tasks' : y \in tasks \/ y.kind \notin LinkKinds \/ y.job.r = r
  PROVE  Chain(s)' \subseteq Chain(s)
BY DEF Chain

LEMMA ChainShrinks ==
  ASSUME NEW s \in Trips, matchQueue' \subseteq matchQueue, timeoutQueue' \subseteq timeoutQueue,
         \A y \in tasks' : y \in tasks \/ y.kind \notin LinkKinds
  PROVE  Chain(s)' \subseteq Chain(s)
BY DEF Chain

LEMMA ChainWorks ==
  ASSUME NEW x \in tasks, x.kind \in LinkKinds, x.job.r \in Trips,
         NEW y, y.kind \in LinkKinds => y.job.r = x.job.r, GoOn(x, y),
         UNCHANGED <<matchQueue, timeoutQueue>>
  PROVE  /\ <<"worker", x>> \in Chain(x.job.r)
         /\ Chain(x.job.r)' \subseteq (Chain(x.job.r) \ {<<"worker", x>>}) \cup {<<"worker", y>>}
         /\ \A s \in Trips : s # x.job.r => Chain(s)' \subseteq Chain(s)
BY DEF Chain, GoOn

LEMMA ChainQueues ==
  ASSUME NEW x \in tasks, x.kind \in LinkKinds, x.job.r \in Trips,
         \A y \in tasks' : y \in tasks \ {x} \/ y.kind \notin LinkKinds,
         NEW j, j.r = x.job.r, matchQueue' \subseteq matchQueue \cup {j},
         UNCHANGED timeoutQueue
  PROVE  /\ <<"worker", x>> \in Chain(x.job.r)
         /\ Chain(x.job.r)' \subseteq (Chain(x.job.r) \ {<<"worker", x>>}) \cup {<<"job", j>>}
         /\ \A s \in Trips : s # x.job.r => Chain(s)' \subseteq Chain(s)
BY DEF Chain

LEMMA ChainTimes ==
  ASSUME NEW x \in tasks, x.kind \in LinkKinds, x.job.r \in Trips,
         \A y \in tasks' : y \in tasks \ {x} \/ y.kind \notin LinkKinds,
         NEW j, j.r = x.job.r, timeoutQueue' \subseteq timeoutQueue \cup {j},
         UNCHANGED matchQueue
  PROVE  /\ <<"worker", x>> \in Chain(x.job.r)
         /\ Chain(x.job.r)' \subseteq (Chain(x.job.r) \ {<<"worker", x>>}) \cup {<<"timer", j>>}
         /\ \A s \in Trips : s # x.job.r => Chain(s)' \subseteq Chain(s)
BY DEF Chain

LEMMA NoOfferBeside ==
  ASSUME NEW r \in Trips, Linked(r), NEW e \in Chain(r), \A d \in Drivers : ~ About(e, d)
  PROVE  Offered(r) = {}
BY DEF Linked, Answered, Offered
-----------------------------------------------------------------------------
(* What a step can do to the offers.                                       *)

LEMMA OffersLapse ==
  ASSUME TypeOK, PoolStep
  PROVE  \A d \in Drivers : pending'[d] \in {pending[d], None}
<1>1. ASSUME NEW d \in Drivers, ATOMIC_SET_OFFLINE(d)
      PROVE  \A e \in Drivers : pending'[e] \in {pending[e], None}
  BY <1>1 DEF TypeOK, ATOMIC_SET_OFFLINE
<1>2. ASSUME NEW d \in Drivers, NEW h \in Hexes, SetOnline(d, h) \/ UpdateLocation(d, h)
      PROVE  UNCHANGED pending
  BY <1>2 DEF SetOnline, ATOMIC_SET_ONLINE, UpdateLocation, ATOMIC_UPDATE_LOCATION, jobVars
<1>3. ASSUME NEW d \in Drivers, PendingExpires(d)
      PROVE  \A e \in Drivers : pending'[e] \in {pending[e], None}
  BY <1>3 DEF TypeOK, PendingExpires
<1>4. ASSUME NEW c \in calls, c.op # "decline", Resume(c)
      PROVE  \A e \in Drivers : pending'[e] \in {pending[e], None}
  <2>0. c.d \in Drivers
    BY CallFields DEF TypeOK
  <2>1. CASE HandleDriverInactivity(c) \/ EndOfDayOffline(c)
    BY <1>1, <2>0, <2>1 DEF HandleDriverInactivity, EndOfDayOffline, jobVars
  <2>2. CASE ReleaseDriver(c)
    BY <2>2 DEF ReleaseDriver, ATOMIC_COMPLETE_TRIP, jobVars
  <2>3. CASE UpdateLastSeen(c) \/ AddToDriverActiveSet(c) \/ RemoveFromDriverActiveSet(c)
             \/ ForceOnline(c) \/ Ping(c) \/ StillInGrace(c) \/ GraceOver(c) \/ Evicted(c)
    BY <2>3 DEF UpdateLastSeen, AddToDriverActiveSet, RemoveFromDriverActiveSet,
                ForceOnline, Ping, StillInGrace, GraceOver, Evicted, jobVars
  <2>4. ~ DeclineJob(c)
    BY <1>4 DEF DeclineJob
  <2> QED BY <1>4, <2>1, <2>2, <2>3, <2>4 DEF Resume
<1> QED BY <1>1, <1>2, <1>3, <1>4 DEF PoolStep, SetOffline

LEMMA Declined ==
  ASSUME TypeOK, NEW c \in calls, DeclineJob(c), NEW r \in Trips
  PROVE  /\ Offered(r)' \subseteq Offered(r)
         /\ c.t = r => c.d \notin Offered(r)'
<1>1. c.d \in Drivers
  BY CallFields DEF TypeOK
<1>2. CASE pending[c.d] = c.t
  <2>1. pending' = [pending EXCEPT ![c.d] = None]
    BY <1>2 DEF DeclineJob, ATOMIC_DECLINE_TRIP
  <2> QED BY <1>1, <2>1, NoneAssumption DEF TypeOK, Offered
<1>3. CASE pending[c.d] # c.t
  BY <1>3 DEF DeclineJob, jobVars, Offered
<1> QED BY <1>2, <1>3

LEMMA Lapsed ==
  ASSUME NEW r \in Trips, \A d \in Drivers : pending'[d] \in {pending[d], None}
  PROVE  Offered(r)' \subseteq Offered(r)
BY NoneAssumption DEF Offered

(* A status key, once written, is only ever overwritten.                   *)
LEMMA StatesKept ==
  ASSUME TypeOK, WiredNext
  PROVE  \A d \in Drivers : HasState(d) => HasState(d)'
<1>1. status \in [Drivers -> Statuses]
  BY DEF TypeOK
<1>2. CASE UNCHANGED status
  BY <1>2 DEF HasState
<1>3. ASSUME NEW d \in Drivers, ATOMIC_SET_OFFLINE(d)
      PROVE  \A e \in Drivers : HasState(e) => HasState(e)'
  BY <1>1, <1>3 DEF ATOMIC_SET_OFFLINE, HasState
<1>4. ASSUME NEW d \in Drivers, Request(d)
      PROVE  \A e \in Drivers : HasState(e) => HasState(e)'
  <2>1. ASSUME NEW h \in Hexes, SetOnline(d, h)
        PROVE  \A e \in Drivers : HasState(e) => HasState(e)'
    BY <1>1, <2>1 DEF SetOnline, ATOMIC_SET_ONLINE, HasState
  <2>2. ASSUME NEW h \in Hexes, UpdateLocation(d, h)
        PROVE  \A e \in Drivers : HasState(e) => HasState(e)'
    BY <1>1, <2>2 DEF UpdateLocation, ATOMIC_UPDATE_LOCATION, HasState
  <2>3. ASSUME NEW t \in Trips, NEW h \in Hexes, LockDriver(d, t, h)
        PROVE  UNCHANGED status
    BY <2>3 DEF LockDriver, ATOMIC_LOCK_DRIVER
  <2>4. ASSUME NEW t \in Trips, ReadForDecline(d, t) \/ ReadForRelease(d, t)
        PROVE  UNCHANGED status
    BY <2>4 DEF ReadForDecline, ReadForRelease, fileVars
  <2> QED BY <1>2, <1>3, <1>4, <2>1, <2>2, <2>3, <2>4
          DEF Request, SetOffline, ListInactive, HandleEndOfDay, fileVars
<1>5. ASSUME NEW c \in calls, Resume(c)
      PROVE  \A e \in Drivers : HasState(e) => HasState(e)'
  <2>0. c.d \in Drivers
    BY CallFields DEF TypeOK
  <2>1. CASE HandleDriverInactivity(c) \/ EndOfDayOffline(c)
    BY <1>2, <1>3, <2>0, <2>1 DEF HandleDriverInactivity, EndOfDayOffline, fileVars
  <2>2. CASE ReleaseDriver(c)
    BY <1>1, <1>2, <2>0, <2>2 DEF ReleaseDriver, ATOMIC_COMPLETE_TRIP, fileVars, HasState
  <2>3. CASE ForceOnline(c)
    BY <1>1, <2>0, <2>3 DEF ForceOnline, HasState
  <2>4. CASE DeclineJob(c)
    BY <1>2, <2>4 DEF DeclineJob, ATOMIC_DECLINE_TRIP, fileVars
  <2> QED BY <1>2, <1>5, <2>1, <2>2, <2>3, <2>4
          DEF Resume, UpdateLastSeen, AddToDriverActiveSet, RemoveFromDriverActiveSet,
              Ping, StillInGrace, GraceOver, Evicted, fileVars
<1>6. CASE Elapse
  BY <1>2, <1>6 DEF Elapse, PendingExpires, PingExpires, FallSilent, DeclinedExpires, fileVars
<1>7. CASE Restart
  BY <1>7 DEF Restart, HasState
<1> QED BY <1>4, <1>5, <1>6, <1>7 DEF WiredNext
-----------------------------------------------------------------------------
(* Every step keeps the link of a ride q, but for the jobs run again.      *)

LEMMA Aside ==
  ASSUME NEW q \in Trips, Linked(q),
         matchQueue' \subseteq matchQueue, timeoutQueue' \subseteq timeoutQueue,
         \A y \in tasks' : y \in tasks \/ y.kind \notin LinkKinds,
         \A d \in Drivers : pending'[d] \in {pending[d], None},
         matchIds \subseteq matchIds'
  PROVE  Linked(q)'
BY ChainShrinks, Lapsed, LinkLeftAlone

LEMMA Onward ==
  ASSUME NEW q \in Trips, Linked(q), NEW r \in Trips, NEW e \in Chain(r), NEW f,
         Chain(r)' \subseteq (Chain(r) \ {e}) \cup {f},
         \A s \in Trips : s # r => Chain(s)' \subseteq Chain(s),
         \A s \in Trips : Offered(s)' \subseteq Offered(s),
         matchIds \subseteq matchIds',
         q = r => \A d \in Offered(r)' : About(f, d)
  PROVE  Linked(q)'
<1>1. CASE q = r
  BY <1>1, LinkReplaced
<1>2. CASE q # r
  BY <1>2, LinkLeftAlone
<1> QED BY <1>1, <1>2

LEMMA FirstJob ==
  ASSUME NEW q \in Trips, Linked(q), NEW r \in Trips, EnqueueRideMatching(r, 1, {}),
         UNCHANGED <<timeoutQueue, pending>>, tasks' \subseteq tasks
  PROVE  Linked(q)'
<1>1. CASE <<r, 1>> \in matchIds
  BY <1>1, Aside DEF EnqueueRideMatching
<1>2. CASE <<r, 1>> \notin matchIds
  <2> DEFINE j == [r |-> r, n |-> 1, excl |-> {}]
  <2>1. /\ matchQueue' = matchQueue \cup {j} /\ j.r = r
        /\ matchIds' = matchIds \cup {<<r, 1>>}
    BY <1>2 DEF EnqueueRideMatching
  <2> HIDE DEF j
  <2>2. \A s \in Trips : Offered(s)' = Offered(s)
    BY DEF Offered
  <2>3. CASE q = r
    <3>1. Chain(r) = {} /\ Offered(r) = {}
      BY <1>2, <2>3 DEF Linked, Started
    <3>2. Chain(r)' \subseteq Chain(r) \cup {<<"job", j>>}
      BY <2>1 DEF Chain
    <3> QED BY <2>1, <2>2, <2>3, <3>1, <3>2
            DEF Linked, OneLink, Started, Answered, OneHolder
  <2>4. CASE q # r
    <3>1. Chain(q)' \subseteq Chain(q)
      BY <2>1, <2>4, ChainElsewhere
    <3> QED BY <2>1, <2>2, <3>1, LinkLeftAlone
  <2> QED BY <2>3, <2>4
<1> QED BY <1>1, <1>2

LEMMA IdsKept ==
  ASSUME NEW r, NEW n, NEW excl, EnqueueRideMatching(r, n, excl)
  PROVE  /\ matchIds \subseteq matchIds'
         /\ matchQueue' \subseteq matchQueue \cup {[r |-> r, n |-> n, excl |-> excl]}
BY DEF EnqueueRideMatching

LEMMA OffersKept ==
  ASSUME UNCHANGED pending
  PROVE  \A s \in Trips : Offered(s)' = Offered(s)
BY DEF Offered

LEMMA SearchLinks ==
  ASSUME RideTypeOK, TypeOK, NEW q \in Trips, Linked(q), NEW x \in tasks, x.kind = "search",
         SearchInRings(x) \/ AttemptAssignment(x) \/ HandleNoDriverFound(x)
  PROVE  Linked(q)'
<1> DEFINE r == x.job.r
           e == <<"worker", x>>
<1>0. x \in SearchTask /\ r \in Trips /\ x.kind \in LinkKinds
  BY MatchFields, SearchFields DEF RideTypeOK, MatchKinds, LinkKinds
<1>1. e \in Chain(r)
  BY <1>0 DEF Chain
<1>2. q = r => Offered(r) = {}
  BY <1>0, <1>1, NoOfferBeside DEF About
<1>3. ASSUME NEW y, GoOn(x, y), y.kind \in LinkKinds, y.job = x.job,
             UNCHANGED queueVars, UNCHANGED pending
      PROVE  Linked(q)'
  <2>1. /\ Chain(r)' \subseteq (Chain(r) \ {e}) \cup {<<"worker", y>>}
        /\ \A s \in Trips : s # r => Chain(s)' \subseteq Chain(s)
    BY <1>0, <1>3, ChainWorks DEF queueVars
  <2>2. \A s \in Trips : Offered(s)' = Offered(s)
    BY <1>3, OffersKept
  <2> QED BY <1>0, <1>1, <1>2, <1>3, <2>1, <2>2, Onward DEF queueVars
<1>4. \A h, H, S : LET y == [x EXCEPT !.h = h, !.hexes = H, !.cands = S]
                   IN  y.kind = "search" /\ y.job = x.job
  BY <1>0 DEF SearchTask
<1>5. \A S : LET y == [x EXCEPT !.cands = S] IN y.kind = "search" /\ y.job = x.job
  BY <1>0 DEF SearchTask
<1>6. CASE SearchInRings(x)
  <2>1. PICK h \in x.hexes : GoOn(x, [x EXCEPT !.h = h, !.hexes = @ \ {h},
                                               !.cands = available[h] \ x.excl])
    BY <1>6 DEF SearchInRings
  <2>2. UNCHANGED queueVars /\ UNCHANGED pending
    BY <1>6 DEF SearchInRings, vars
  <2> DEFINE y == [x EXCEPT !.h = h, !.hexes = @ \ {h}, !.cands = available[h] \ x.excl]
  <2>3. y.kind \in LinkKinds /\ y.job = x.job
    BY <1>0, <1>4 DEF SearchTask, LinkKinds, MatchKinds
  <2> HIDE DEF y
  <2>4. GoOn(x, y)
    BY <2>1 DEF y
  <2> QED BY <1>3, <2>2, <2>3, <2>4
<1>7. CASE HandleNoDriverFound(x)
  BY <1>3, <1>7 DEF HandleNoDriverFound, LinkKinds, MatchKinds, vars
<1>8. ASSUME NEW d \in x.cands, LockDriver(d, r, x.h), UNCHANGED queueVars,
             GoOn(x, [kind |-> "locked", job |-> x.job, d |-> d])
      PROVE  Linked(q)'
  <2> DEFINE y == [kind |-> "locked", job |-> x.job, d |-> d]
  <2>1. /\ Chain(r)' \subseteq (Chain(r) \ {e}) \cup {<<"worker", y>>}
        /\ \A s \in Trips : s # r => Chain(s)' \subseteq Chain(s)
    BY <1>0, <1>8, ChainWorks DEF queueVars
  <2>2. d \in Drivers /\ pending' = [pending EXCEPT ![d] = r]
    BY <1>0, <1>8 DEF LockDriver, ATOMIC_LOCK_DRIVER, SearchTask
  <2>3. CASE q = r
    <3>1. Offered(r)' \subseteq {d}
      BY <1>2, <2>2, <2>3 DEF Offered, TypeOK
    <3>2. Chain(r)' \subseteq {<<"worker", y>>} /\ <<r, 1>> \in matchIds'
      BY <1>0, <1>1, <1>8, <2>1, <2>3 DEF Linked, OneLink, Started, queueVars
    <3>3. About(<<"worker", y>>, d)
      BY DEF About
    <3> QED BY <2>3, <3>1, <3>2, <3>3 DEF Linked, OneLink, Started, Answered, OneHolder
  <2>4. CASE q # r
    <3>1. Offered(q)' \subseteq Offered(q)
      BY <1>0, <2>2, <2>4 DEF Offered, TypeOK
    <3> QED BY <1>8, <2>1, <2>4, <3>1, LinkLeftAlone DEF queueVars
  <2> QED BY <2>3, <2>4
<1>9. CASE AttemptAssignment(x)
  <2>1. PICK d \in x.cands :
             \/ /\ LockDriver(d, r, x.h)
                /\ GoOn(x, [kind |-> "locked", job |-> x.job, d |-> d])
             \/ GoOn(x, [x EXCEPT !.cands = @ \ {d}]) /\ UNCHANGED vars
    BY <1>9 DEF AttemptAssignment
  <2>2. UNCHANGED queueVars
    BY <1>9 DEF AttemptAssignment
  <2> QED BY <1>3, <1>5, <1>8, <2>1, <2>2 DEF LinkKinds, MatchKinds, vars
<1> QED BY <1>6, <1>7, <1>9

LEMMA OfferLinks ==
  ASSUME RideTypeOK, NEW q \in Trips, Linked(q), NEW x \in tasks, x.kind \in {"locked", "offer"},
         WritePendingDriver(x) \/ OfferRide(x)
  PROVE  Linked(q)'
<1> DEFINE r == x.job.r
           e == <<"worker", x>>
<1>0. r \in Trips /\ x.kind \in LinkKinds
  BY MatchFields DEF RideTypeOK, MatchKinds, LinkKinds
<1>1. e \in Chain(r)
  BY <1>0 DEF Chain
<1>2. q = r => \A d \in Offered(r) : d = x.d
  BY <1>0, <1>1 DEF Linked, Answered, About
<1>3. UNCHANGED <<matchQueue, matchIds, pending>>
  BY DEF WritePendingDriver, OfferRide, queueVars, vars
<1>4. \A s \in Trips : Offered(s)' = Offered(s)
  BY <1>3, OffersKept
<1>5. CASE WritePendingDriver(x)
  <2> DEFINE y == [kind |-> "offer", job |-> x.job, d |-> x.d]
  <2>1. /\ Chain(r)' \subseteq (Chain(r) \ {e}) \cup {<<"worker", y>>}
        /\ \A s \in Trips : s # r => Chain(s)' \subseteq Chain(s)
    BY <1>0, <1>5, ChainWorks DEF WritePendingDriver, queueVars
  <2>2. q = r => \A d \in Offered(r)' : About(<<"worker", y>>, d)
    BY <1>0, <1>2, <1>4 DEF About
  <2> QED BY <1>0, <1>1, <1>3, <1>4, <2>1, <2>2, Onward
<1>6. CASE OfferRide(x)
  <2> DEFINE j == [r |-> r, n |-> x.job.n, d |-> x.d]
  <2>1. /\ timeoutQueue' \subseteq timeoutQueue \cup {j}
        /\ \A y \in tasks' : y \in tasks \ {x} \/ y.kind \notin LinkKinds
    BY <1>6 DEF OfferRide, ScheduleAssignmentTimeout, GoOn, LinkKinds
  <2>0. j.r = r /\ j.d = x.d
    OBVIOUS
  <2> HIDE DEF j
  <2>2. /\ Chain(r)' \subseteq (Chain(r) \ {e}) \cup {<<"timer", j>>}
        /\ \A s \in Trips : s # r => Chain(s)' \subseteq Chain(s)
    BY <1>0, <1>3, <2>0, <2>1, ChainTimes
  <2>3. q = r => \A d \in Offered(r)' : About(<<"timer", j>>, d)
    BY <1>0, <1>2, <1>4, <2>0 DEF About
  <2> QED BY <1>0, <1>1, <1>3, <1>4, <2>2, <2>3, Onward
<1> QED BY <1>5, <1>6

LEMMA RetryLinks ==
  ASSUME RideTypeOK, NEW q \in Trips, Linked(q), NEW x \in tasks, x.kind \in {"retry", "rematch"},
         RetryLater(x) \/ RetryRideMatching(x)
  PROVE  Linked(q)'
<1> DEFINE r == x.job.r
           e == <<"worker", x>>
<1>0. r \in Trips /\ x.kind \in LinkKinds
  BY MatchFields, TimeoutFields DEF RideTypeOK, MatchKinds, TimeoutKinds, LinkKinds
<1>1. e \in Chain(r)
  BY <1>0 DEF Chain
<1>2. q = r => Offered(r) = {}
  BY <1>0, <1>1, NoOfferBeside DEF About
<1>3. /\ UNCHANGED <<timeoutQueue, pending>>
      /\ \A y \in tasks' : y \in tasks \ {x} \/ y.kind \notin LinkKinds
  BY DEF RetryLater, RetryRideMatching, GoOn, LinkKinds, vars
<1>4. \A s \in Trips : Offered(s)' = Offered(s)
  BY <1>3, OffersKept
<1>5. PICK j : j.r = r /\ matchQueue' \subseteq matchQueue \cup {j} /\ matchIds \subseteq matchIds'
  <2>1. CASE RetryLater(x)
    BY <2>1, IdsKept DEF RetryLater
  <2>2. CASE RetryRideMatching(x)
    BY <2>2, IdsKept DEF RetryRideMatching
  <2> QED BY <2>1, <2>2
<1>6. /\ Chain(r)' \subseteq (Chain(r) \ {e}) \cup {<<"job", j>>}
      /\ \A s \in Trips : s # r => Chain(s)' \subseteq Chain(s)
  BY <1>0, <1>3, <1>5, ChainQueues
<1> QED BY <1>0, <1>1, <1>2, <1>4, <1>5, <1>6, Onward

LEMMA DeclineLinks ==
  ASSUME RideTypeOK, TypeOK, Answering, NEW q \in Trips, Linked(q), NEW x \in tasks,
         HandleAssignmentTimeout(x)
  PROVE  Linked(q)'
<1> DEFINE r == x.job.r
           e == <<"worker", x>>
           y == [kind |-> "rematch", job |-> x.job]
<1>0. x.kind = "timeout" /\ r \in Trips /\ x.kind \in LinkKinds
  BY TimeoutFields DEF HandleAssignmentTimeout, RideTypeOK, TimeoutKinds, LinkKinds
<1>1. e \in Chain(r)
  BY <1>0 DEF Chain
<1>2. q = r => \A d \in Offered(r) : d = x.job.d
  BY <1>0, <1>1 DEF Linked, Answered, About
<1>3. x.call \in calls /\ DeclineJob(x.call) /\ x.call.d = x.job.d /\ x.call.t = r
  BY <1>0 DEF HandleAssignmentTimeout, Answering
<1>4. \A s \in Trips : Offered(s)' \subseteq Offered(s)
  BY <1>3, Declined
<1>5. q = r => Offered(r)' = {}
  BY <1>0, <1>2, <1>3, <1>4, Declined
<1>6. /\ Chain(r)' \subseteq (Chain(r) \ {e}) \cup {<<"worker", y>>}
      /\ \A s \in Trips : s # r => Chain(s)' \subseteq Chain(s)
  <2>1. GoOn(x, y) /\ UNCHANGED <<matchQueue, timeoutQueue>>
    BY DEF HandleAssignmentTimeout, queueVars
  <2>2. y.job.r = r
    OBVIOUS
  <2> QED BY <1>0, <2>1, <2>2, ChainWorks
<1>7. UNCHANGED matchIds
  BY DEF HandleAssignmentTimeout, queueVars
<1> QED BY <1>0, <1>1, <1>4, <1>5, <1>6, <1>7, Onward

LEMMA WorkLinks ==
  ASSUME RideTypeOK, TypeOK, Answering, NEW q \in Trips, Linked(q), NEW x \in tasks, Work(x)
  PROVE  Linked(q)'
<1>1. CASE EnqueueFirst(x)
  <2>1. x.r \in Trips
    BY <1>1, RowFields DEF EnqueueFirst, RideTypeOK
  <2> QED BY <1>1, <2>1, FirstJob DEF EnqueueFirst, Finish, vars
<1>2. CASE CancelBySystem(x) \/ TakeRide(x) \/ Acknowledge(x)
  BY <1>2, Aside DEF CancelBySystem, TakeRide, Acknowledge, Finish, GoOn, LinkKinds,
                     queueVars, vars
<1>3. CASE TriggerMatchingSideEffects(x)
  BY <1>3, Aside DEF TriggerMatchingSideEffects, GoOn, queueVars, vars,
                     LinkKinds, MatchKinds, TimeoutKinds
<1>4. CASE UpdateRide(x)
  BY <1>4, Aside DEF UpdateRide, GoOn, Finish, queueVars, vars,
                     LinkKinds, MatchKinds, TimeoutKinds
<1>5. CASE ReleaseAssigned(x)
  <2>1. UNCHANGED pending
    BY <1>5 DEF ReleaseAssigned, ReadForRelease, jobVars, vars
  <2> QED BY <1>5, <2>1, Aside DEF ReleaseAssigned, Finish, queueVars
<1>6. CASE SearchInRings(x) \/ AttemptAssignment(x) \/ HandleNoDriverFound(x)
  BY <1>6, SearchLinks DEF SearchInRings, AttemptAssignment, HandleNoDriverFound
<1>7. CASE WritePendingDriver(x) \/ OfferRide(x)
  BY <1>7, OfferLinks DEF WritePendingDriver, OfferRide
<1>8. CASE RetryLater(x) \/ RetryRideMatching(x)
  BY <1>8, RetryLinks DEF RetryLater, RetryRideMatching
<1>9. CASE HandleAssignmentTimeout(x)
  BY <1>9, DeclineLinks
<1> QED BY <1>1, <1>2, <1>3, <1>4, <1>5, <1>6, <1>7, <1>8, <1>9 DEF Work

LEMMA MatchWorkerLinks ==
  ASSUME RideTypeOK, NEW q \in Trips, Linked(q), NEW j \in matchQueue, ProcessMatch(j)
  PROVE  Linked(q)'
<1> DEFINE r == j.r
           e == <<"job", j>>
           y == Search(j)
<1>0. r \in Trips
  BY DEF RideTypeOK, MatchJob
<1>1. UNCHANGED <<matchIds, timeoutQueue, pending>> /\ matchQueue' = matchQueue \ {j}
  BY DEF ProcessMatch, vars
<1>2. CASE UNCHANGED tasks
  BY <1>1, <1>2, Aside
<1>3. CASE Start(y)
  <2>1. y.kind = "search" /\ y.kind \in LinkKinds /\ y.job = j
    BY DEF Search, LinkKinds, MatchKinds
  <2> HIDE DEF y
  <2>2. e \in Chain(r)
    BY <1>0 DEF Chain
  <2>3. q = r => Offered(r) = {}
    BY <1>0, <2>2, NoOfferBeside DEF About
  <2>4. \A s \in Trips : Offered(s)' = Offered(s)
    BY <1>1, OffersKept
  <2>5. Chain(r)' \subseteq (Chain(r) \ {e}) \cup {<<"worker", y>>}
    BY <1>1, <1>3, <2>1 DEF Chain, Start
  <2>6. \A s \in Trips : s # r => Chain(s)' \subseteq Chain(s)
    BY <1>0, <1>1, <1>3, <2>1, ChainElsewhere DEF Start
  <2> QED BY <1>0, <1>1, <2>2, <2>3, <2>4, <2>5, <2>6, Onward
<1> QED BY <1>2, <1>3 DEF ProcessMatch

LEMMA TimerWorkerLinks ==
  ASSUME RideTypeOK, JobHasHex, HeldByState, NEW q \in Trips, Linked(q),
         NEW j \in timeoutQueue, ProcessTimeout(j)
  PROVE  Linked(q)'
<1> DEFINE r == j.r
           e == <<"timer", j>>
<1>0. r \in Trips
  BY DEF RideTypeOK, TimeoutJob
<1>1. UNCHANGED <<matchIds, matchQueue, pending>> /\ timeoutQueue' = timeoutQueue \ {j}
  BY DEF ProcessTimeout, ReadForDecline, jobVars, vars
<1>2. \A s \in Trips : Offered(s)' = Offered(s)
  BY <1>1, OffersKept
<1>3. e \in Chain(r)
  BY <1>0 DEF Chain
<1>4. q = r => \A d \in Offered(r) : d = j.d
  BY <1>0, <1>3 DEF Linked, Answered, About
<1>5. ASSUME NEW y, Start(y), y.kind \in LinkKinds, y.job = j,
             q = r => \A d \in Offered(r) : About(<<"worker", y>>, d)
      PROVE  Linked(q)'
  <2>1. Chain(r)' \subseteq (Chain(r) \ {e}) \cup {<<"worker", y>>}
    BY <1>1, <1>5 DEF Chain, Start
  <2>2. \A s \in Trips : s # r => Chain(s)' \subseteq Chain(s)
    BY <1>0, <1>1, <1>5, ChainElsewhere DEF Start
  <2> QED BY <1>0, <1>1, <1>2, <1>3, <1>5, <2>1, <2>2, Onward
<1>6. CASE HasState(j.d) /\ hex[j.d] # None
  <2> DEFINE y == [kind |-> "timeout", job |-> j, call |-> OnTrip("decline", j.d, j.r)]
  <2>1. Start(y)
    BY <1>6 DEF ProcessTimeout
  <2>2. y.kind = "timeout" /\ y.kind \in LinkKinds /\ y.job = j
    BY DEF LinkKinds, TimeoutKinds
  <2> HIDE DEF y
  <2>3. q = r => \A d \in Offered(r) : About(<<"worker", y>>, d)
    BY <1>4, <2>2 DEF About
  <2> QED BY <1>5, <2>1, <2>2, <2>3
<1>7. CASE ~ (HasState(j.d) /\ hex[j.d] # None)
  <2> DEFINE y == [kind |-> "rematch", job |-> j]
  <2>1. Start(y)
    BY <1>7 DEF ProcessTimeout
  <2>2. y.kind \in LinkKinds /\ y.job = j
    BY DEF LinkKinds, TimeoutKinds
  <2> HIDE DEF y
  <2>3. q = r => Offered(r) = {}
    BY <1>0, <1>4, <1>7, NoneAssumption DEF Offered, HeldByState, JobHasHex
  <2> QED BY <1>5, <2>1, <2>2, <2>3
<1> QED BY <1>6, <1>7

LEMMA RequestLinks ==
  ASSUME NEW q \in Trips, Linked(q), NEW r \in Trips,
         Ask(r) \/ Paid(r) \/ Cron(r) \/ GrowOld(r) \/ PendingDriverExpires(r)
  PROVE  Linked(q)'
<1> USE DEF LinkKinds, MatchKinds, TimeoutKinds, Start, queueVars, vars
<1>1. CASE RequestRide(r)
  BY <1>1, Aside DEF RequestRide
<1>2. ASSUME NEW d \in Drivers, AcceptRide(d, r)
      PROVE  Linked(q)'
  BY <1>2, Aside DEF AcceptRide
<1>3. ASSUME NEW to, Decide(r, to)
      PROVE  Linked(q)'
  BY <1>3, Aside DEF Decide
<1>4. CASE RecoverStuck(r)
  BY <1>4, FirstJob DEF RecoverStuck
<1>5. CASE GrowOld(r) \/ PendingDriverExpires(r)
  BY <1>5, Aside DEF GrowOld, PendingDriverExpires
<1>6. CASE Paid(r)
  BY <1>6, Aside DEF Paid, SettlePayment, StartRideMatching, FailPayment
<1> QED BY <1>1, <1>2, <1>3, <1>4, <1>5, <1>6
        DEF Ask, Cron, ConfirmPickup, CompleteRide, CancelJob, CancelRide, CancelAbandoned

LEMMA TimersAnswered ==
  ASSUME RideTypeOK, Answering, [RideNext]_allVars
  PROVE  Answering'
<1>1. ASSUME \A y \in tasks' : y \in tasks \/ y.kind # "timeout"
      PROVE  Answering'
  BY <1>1 DEF Answering
<1>2. ASSUME NEW x \in tasks, Work(x)
      PROVE  \A y \in tasks' : y \in tasks \/ y.kind # "timeout"
  <2>1. CASE SearchInRings(x) \/ AttemptAssignment(x)
    <3>1. PICK y : GoOn(x, y) /\ y.kind \in {"search", "locked"}
      BY <2>1, SearchGoesOn DEF RideTypeOK
    <3> QED BY <3>1 DEF GoOn
  <2>3. CASE \/ TriggerMatchingSideEffects(x) \/ WritePendingDriver(x)
             \/ HandleNoDriverFound(x) \/ HandleAssignmentTimeout(x) \/ UpdateRide(x)
             \/ OfferRide(x) \/ RetryLater(x) \/ CancelBySystem(x) \/ RetryRideMatching(x)
    BY <2>3 DEF TriggerMatchingSideEffects, WritePendingDriver, HandleNoDriverFound,
                HandleAssignmentTimeout, UpdateRide, OfferRide, RetryLater,
                CancelBySystem, RetryRideMatching, GoOn, Finish
  <2>4. CASE EnqueueFirst(x) \/ TakeRide(x) \/ ReleaseAssigned(x) \/ Acknowledge(x)
    BY <2>4 DEF EnqueueFirst, TakeRide, ReleaseAssigned, Acknowledge, Finish
  <2> QED BY <1>2, <2>1, <2>3, <2>4 DEF Work
<1>3. ASSUME NEW j \in timeoutQueue, ProcessTimeout(j)
      PROVE  Answering'
  BY <1>3 DEF ProcessTimeout, Answering, Start, OnTrip
<1>4. ASSUME NEW j \in matchQueue, ProcessMatch(j)
      PROVE  \A y \in tasks' : y \in tasks \/ y.kind # "timeout"
  BY <1>4 DEF ProcessMatch, Search, Start
<1>5. ASSUME NEW r \in Trips,
             Ask(r) \/ Paid(r) \/ Cron(r) \/ GrowOld(r) \/ PendingDriverExpires(r)
      PROVE  \A y \in tasks' : y \in tasks \/ y.kind # "timeout"
  BY <1>5 DEF Ask, RequestRide, AcceptRide, ConfirmPickup, CompleteRide, CancelJob,
              CancelRide, CancelAbandoned, Decide, Cron, RecoverStuck, GrowOld,
              PendingDriverExpires, Paid, SettlePayment, StartRideMatching, FailPayment,
              Start
<1>6. CASE UNCHANGED rideVars \/ Failure
  BY <1>1, <1>6 DEF rideVars, Failure, RunAgain, LoseRest, LoseTimeout, Crash, Finish
<1> QED BY <1>1, <1>2, <1>3, <1>4, <1>5, <1>6 DEF RideNext, Worker, allVars

(* Only the lock makes an offer, and only to a driver that is ONLINE.      *)
LEMMA OffersHaveStates ==
  ASSUME RideTypeOK, TypeOK, HeldByState, [RideNext]_allVars
  PROVE  HeldByState'
<1>1. ASSUME NEW d \in Drivers, HasState(d)
      PROVE  HasState(d)'
  <2>1. [WiredNext]_vars
    BY StepsOfPool DEF allVars
  <2>2. CASE UNCHANGED vars
    BY <1>1, <2>2 DEF HasState, vars
  <2> QED BY <1>1, <2>1, <2>2, StatesKept
<1>2. ASSUME \A d \in Drivers : pending'[d] \in {pending[d], None}
      PROVE  HeldByState'
  BY <1>1, <1>2 DEF HeldByState
<1>3. ASSUME NEW x \in tasks, AttemptAssignment(x)
      PROVE  HeldByState'
  <2>1. PICK d \in x.cands : LockDriver(d, x.job.r, x.h) \/ UNCHANGED vars
    BY <1>3 DEF AttemptAssignment
  <2>2. CASE LockDriver(d, x.job.r, x.h)
    <3>1. pending' = [pending EXCEPT ![d] = x.job.r] /\ HasState(d)
      BY <2>2 DEF LockDriver, ATOMIC_LOCK_DRIVER, Lockable, HasState
    <3>2. \A e \in Drivers : e # d => pending'[e] = pending[e]
      BY <3>1 DEF TypeOK
    <3> QED BY <1>1, <3>1, <3>2 DEF HeldByState
  <2> QED BY <1>2, <2>1, <2>2 DEF vars
<1>4. ASSUME NEW x \in tasks, Work(x), ~ AttemptAssignment(x)
      PROVE  \A d \in Drivers : pending'[d] \in {pending[d], None}
  <2>1. CASE HandleAssignmentTimeout(x)
    BY <2>1 DEF HandleAssignmentTimeout, DeclineJob, ATOMIC_DECLINE_TRIP, jobVars, TypeOK
  <2>2. CASE ReleaseAssigned(x)
    BY <2>2 DEF ReleaseAssigned, ReadForRelease, jobVars, vars
  <2> QED BY <1>4, <2>1, <2>2
          DEF Work, TriggerMatchingSideEffects, EnqueueFirst, SearchInRings,
              WritePendingDriver, OfferRide, HandleNoDriverFound, RetryLater,
              CancelBySystem, RetryRideMatching, TakeRide, UpdateRide, Acknowledge, vars
<1>5. CASE Worker
  BY <1>2, <1>5 DEF Worker, ProcessMatch, ProcessTimeout, ReadForDecline, jobVars, vars
<1>6. ASSUME NEW r \in Trips,
             Ask(r) \/ Paid(r) \/ Cron(r) \/ GrowOld(r) \/ PendingDriverExpires(r)
      PROVE  UNCHANGED pending
  BY <1>6 DEF Ask, RequestRide, AcceptRide, ConfirmPickup, CompleteRide, CancelJob,
              CancelRide, CancelAbandoned, Decide, Cron, RecoverStuck, GrowOld,
              PendingDriverExpires, Paid, SettlePayment, StartRideMatching, FailPayment,
              vars
<1>7. CASE Failure \/ UNCHANGED allVars
  BY <1>2, <1>7 DEF Failure, RunAgain, LoseRest, LoseTimeout, Crash, Restart, jobVars,
                    allVars, vars
<1> QED BY <1>2, <1>3, <1>4, <1>5, <1>6, <1>7, OffersLapse DEF RideNext

LEMMA RepeatedKept ==
  ASSUME [RideNext]_allVars
  PROVE  repeated \subseteq repeated'
<1> USE DEF noteVars
<1>1. CASE Failure
  BY <1>1 DEF Failure, RunAgain, LoseRest, LoseTimeout, Crash
<1>2. ASSUME NEW r \in Trips,
             Ask(r) \/ Paid(r) \/ Cron(r) \/ GrowOld(r) \/ PendingDriverExpires(r)
      PROVE  UNCHANGED repeated
  BY <1>2 DEF Ask, RequestRide, AcceptRide, ConfirmPickup, CompleteRide, CancelJob,
              CancelRide, CancelAbandoned, Decide, Cron, RecoverStuck, GrowOld,
              PendingDriverExpires, Paid, SettlePayment, StartRideMatching, FailPayment
<1>3. ASSUME NEW x \in tasks, Work(x)
      PROVE  UNCHANGED repeated
  BY <1>3 DEF Work, TriggerMatchingSideEffects, EnqueueFirst, SearchInRings,
              AttemptAssignment, WritePendingDriver, OfferRide, Acknowledge,
              HandleNoDriverFound, RetryLater, CancelBySystem, HandleAssignmentTimeout,
              RetryRideMatching, TakeRide, UpdateRide, ReleaseAssigned
<1>4. CASE Worker \/ UNCHANGED rideVars
  BY <1>4 DEF Worker, ProcessMatch, ProcessTimeout, rideVars
<1> QED BY <1>1, <1>2, <1>3, <1>4 DEF RideNext, allVars

(* A worker that throws before it has passed the search on.                *)
LEMMA RunAgainLinks ==
  ASSUME RideTypeOK, NEW x \in tasks, RunAgain(x),
         NEW q \in Trips, q \notin repeated', Linked(q)
  PROVE  Linked(q)'
<1>0. UNCHANGED <<matchIds, timeoutQueue, pending>>
  BY DEF RunAgain, vars
<1>1. matchQueue' \subseteq matchQueue \cup {x.job} /\ tasks' = tasks \ {x}
  BY DEF RunAgain, Finish
<1>2. \A s \in Trips : Offered(s)' = Offered(s)
  BY <1>0, OffersKept
<1>3. x.job.r \in Trips
  BY MatchFields DEF RunAgain, RideTypeOK
<1>4. CASE x.job.r = q
  <2>1. x.kind \notin Passed
    BY <1>4 DEF RunAgain, PassedOn
  <2>2. x.kind \in {"search", "retry", "giveup"}
    BY <2>1 DEF RunAgain, Passed, MatchKinds
  <2>3. x.kind \in LinkKinds
    BY <2>2 DEF LinkKinds, MatchKinds
  <2>4. <<"worker", x>> \in Chain(q)
    BY <1>4, <2>3 DEF Chain
  <2>5. Offered(q) = {}
    BY <2>2, <2>4, NoOfferBeside DEF About
  <2>6. Chain(q)' \subseteq (Chain(q) \ {<<"worker", x>>}) \cup {<<"job", x.job>>}
    BY <1>0, <1>1, <1>3, <1>4, <2>3, ChainQueues
  <2> QED BY <1>0, <1>2, <2>4, <2>5, <2>6, LinkReplaced
<1>5. CASE x.job.r # q
  <2>1. Chain(q)' \subseteq Chain(q)
    BY <1>0, <1>1, <1>3, <1>5, ChainElsewhere
  <2> QED BY <1>0, <1>2, <2>1, LinkLeftAlone
<1> QED BY <1>4, <1>5

(* A restart puts the job of a worker, or of a timer's worker, in the place*)
(* of the worker.                                                          *)
Returned(e) == IF e[1] # "worker" THEN e
               ELSE <<IF e[2].kind \in MatchKinds THEN "job" ELSE "timer", e[2].job>>

LEMMA CrashLinks ==
  ASSUME RideTypeOK, Crash, NEW q \in Trips, q \notin repeated', Linked(q)
  PROVE  Linked(q)'
<1>1. UNCHANGED <<matchIds, pending>> /\ tasks' = {}
  BY DEF Crash, Restart, jobVars
<1>2. Offered(q)' = Offered(q)
  BY <1>1, OffersKept
<1>3. \A x \in tasks : x.kind \in Passed => x.job.r # q
  BY DEF Crash, PassedOn
<1>4. \A f \in Chain(q)' : \E e \in Chain(q) : f = Returned(e)
  <2>1. ASSUME NEW j \in matchQueue', j.r = q
        PROVE  \E e \in Chain(q) : <<"job", j>> = Returned(e)
    <3>1. CASE j \in matchQueue
      <4>1. <<"job", j>> \in Chain(q)
        BY <2>1, <3>1 DEF Chain
      <4>2. Returned(<<"job", j>>) = <<"job", j>>
        BY DEF Returned
      <4> QED BY <4>1, <4>2
    <3>2. CASE j \notin matchQueue
      <4>1. PICK x \in tasks : x.kind \in MatchKinds /\ j = x.job
        BY <3>2, StalledJobs
      <4>2. x.kind \in LinkKinds
        BY <1>3, <2>1, <4>1 DEF Passed, LinkKinds, MatchKinds
      <4>3. <<"worker", x>> \in Chain(q)
        BY <2>1, <4>1, <4>2 DEF Chain
      <4>4. Returned(<<"worker", x>>) = <<"job", j>>
        BY <4>1 DEF Returned
      <4> QED BY <4>3, <4>4
    <3> QED BY <3>1, <3>2
  <2>2. ASSUME NEW j \in timeoutQueue', j.r = q
        PROVE  \E e \in Chain(q) : <<"timer", j>> = Returned(e)
    <3>1. CASE j \in timeoutQueue
      <4>1. <<"timer", j>> \in Chain(q)
        BY <2>2, <3>1 DEF Chain
      <4>2. Returned(<<"timer", j>>) = <<"timer", j>>
        BY DEF Returned
      <4> QED BY <4>1, <4>2
    <3>2. CASE j \notin timeoutQueue
      <4>1. PICK x \in tasks : x.kind \in TimeoutKinds /\ j = x.job
        BY <3>2, StalledJobs
      <4>2. x.kind \in LinkKinds /\ x.kind \notin MatchKinds
        BY <1>3, <2>2, <4>1 DEF Passed, LinkKinds, MatchKinds, TimeoutKinds
      <4>3. <<"worker", x>> \in Chain(q)
        BY <2>2, <4>1, <4>2 DEF Chain
      <4>4. Returned(<<"worker", x>>) = <<"timer", j>>
        BY <4>1, <4>2 DEF Returned
      <4> QED BY <4>3, <4>4
    <3> QED BY <3>1, <3>2
  <2> QED BY <1>1, <2>1, <2>2 DEF Chain
<1>5. \A e \in Chain(q), d \in Drivers : About(e, d) => About(Returned(e), d)
  <2> SUFFICES ASSUME NEW e \in Chain(q), NEW d \in Drivers, About(e, d)
               PROVE  About(Returned(e), d)
    OBVIOUS
  <2>1. CASE e[1] # "worker"
    BY <2>1 DEF Returned
  <2>2. CASE e[1] = "worker"
    <3>1. e[2] \in tasks /\ e[2].job.r = q
      BY <2>2 DEF Chain
    <3>2. e[2].kind = "timeout" /\ e[2].job.d = d
      BY <1>3, <2>2, <3>1 DEF About, Passed
    <3> QED BY <2>2, <3>2 DEF Returned, About, MatchKinds
  <2> QED BY <2>1, <2>2
<1>6. OneLink(q)' /\ OneHolder(q)' /\ Started(q)'
  BY <1>1, <1>2, <1>4 DEF Linked, OneLink, OneHolder, Started
<1>7. Answered(q)'
  BY <1>2, <1>4, <1>5 DEF Linked, Answered, Offered
<1> QED BY <1>6, <1>7 DEF Linked

LEMMA FailureLinks ==
  ASSUME RideTypeOK, Failure, NEW q \in Trips, q \notin repeated', Linked(q)
  PROVE  Linked(q)'
<1>1. ASSUME NEW x \in tasks, LoseRest(x)
      PROVE  Linked(q)'
  BY <1>1, Aside DEF LoseRest, Finish, queueVars, vars
<1>2. ASSUME NEW j \in timeoutQueue, LoseTimeout(j)
      PROVE  Linked(q)'
  BY <1>2, Aside DEF LoseTimeout, vars
<1> QED BY <1>1, <1>2, RunAgainLinks, CrashLinks DEF Failure

LEMMA NextLinks ==
  ASSUME RideTypeOK, TypeOK, JobHasHex, ChainInv, [RideNext]_allVars
  PROVE  AllLinked'
<1> SUFFICES ASSUME NEW q \in Trips, q \notin repeated'
             PROVE  Linked(q)'
  BY DEF AllLinked
<1>1. Answering /\ HeldByState /\ Linked(q)
  BY RepeatedKept DEF ChainInv, AllLinked
<1>2. CASE UNCHANGED rideVars /\ \A d \in Drivers : pending'[d] \in {pending[d], None}
  BY <1>1, <1>2, Aside DEF rideVars
<1>3. CASE PoolStep /\ UNCHANGED rideVars
  BY <1>2, <1>3, OffersLapse
<1>4. CASE UNCHANGED allVars
  BY <1>2, <1>4 DEF allVars, vars
<1>5. CASE Worker
  BY <1>1, <1>5, MatchWorkerLinks, TimerWorkerLinks DEF Worker
<1> QED BY <1>1, <1>3, <1>4, <1>5, WorkLinks, RequestLinks, FailureLinks DEF RideNext

LEMMA ChainInduction == RideSpec => []ChainInv
<1>1. RideInit => ChainInv
  <2> SUFFICES ASSUME RideInit
               PROVE  ChainInv
    OBVIOUS
  <2>1. /\ matchQueue = {} /\ timeoutQueue = {} /\ tasks = {}
        /\ pending = [d \in Drivers |-> None]
    BY DEF RideInit, Init
  <2>2. \A r \in Trips : Chain(r) = {} /\ Offered(r) = {}
    BY <2>1, NoneAssumption DEF Chain, Offered
  <2>3. \A r \in Trips : Linked(r)
    BY <2>2 DEF Linked, OneLink, Started, Answered, OneHolder
  <2> QED BY <2>1, <2>3 DEF ChainInv, Answering, HeldByState, AllLinked
<1>2. RideTypeOK /\ IInv /\ ChainInv /\ [RideNext]_allVars => ChainInv'
  <2> SUFFICES ASSUME RideTypeOK, IInv, ChainInv, [RideNext]_allVars
               PROVE  ChainInv'
    OBVIOUS
  <2>1. TypeOK /\ JobHasHex
    BY DEF IInv, DataInv, DataType, BookType, TypeOK
  <2>2. Answering /\ HeldByState
    BY DEF ChainInv
  <2>3. Answering' /\ HeldByState'
    BY <2>1, <2>2, TimersAnswered, OffersHaveStates
  <2>4. AllLinked'
    BY <2>1, NextLinks
  <2> QED BY <2>3, <2>4 DEF ChainInv
<1> QED BY <1>1, <1>2, RideInduction, PTL DEF RideSpec

LEMMA LinkedOffers ==
  ASSUME AllLinked
  PROVE  OneOfferPerRide
<1> SUFFICES ASSUME NEW r \in Trips \ repeated
             PROVE  Cardinality(Offered(r)) <= 1
  BY DEF OneOfferPerRide, Offered
<1>1. CASE Offered(r) = {}
  BY <1>1, FS_EmptySet
<1>2. CASE Offered(r) # {}
  <2>1. PICK d \in Offered(r) : Offered(r) = {d}
    BY <1>2 DEF AllLinked, Linked, OneHolder
  <2> QED BY <2>1, FS_Singleton
<1> QED BY <1>1, <1>2

(* However the timeouts, the recovery cron, the retries, the payments, the *)
(* handlers, the exceptions and the restarts interleave, a ride is offered *)
(* to two drivers at once only if the queue ran a job of it again that had *)
(* already locked a driver or passed the search on.                        *)
THEOREM OneOfferUnlessRepeated == RideSpec => []OneOfferPerRide
<1>1. ChainInv => OneOfferPerRide
  BY LinkedOffers DEF ChainInv
<1> QED BY <1>1, ChainInduction, PTL
-----------------------------------------------------------------------------
(* The rounds of a search.  A round past the retries of the worker is one  *)
(* that a timer asked for, and a ride has one timer; whatever the attempt  *)
(* counter says, a retry is only asked for below the limit.                *)

FirstRound(j) == j.n <= MAX_MATCHING_RETRIES
LastRound(j)  == j.n <= MAX_MATCHING_RETRIES + 1 /\ j.r \in timeoutIds
Round(j)      == FirstRound(j) \/ LastRound(j)
Timed(j)      == FirstRound(j) /\ j.r \in timeoutIds

Rounds == /\ RoundsBounded
          /\ \A j \in matchQueue : Round(j)
          /\ \A j \in timeoutQueue : Timed(j)
          /\ \A x \in tasks : /\ x.kind \in MatchKinds => Round(x.job)
                              /\ x.kind \in TimeoutKinds => Timed(x.job)
                              /\ x.kind = "retry" => x.n <= MAX_MATCHING_RETRIES

(* A step that adds no job, and whose new tasks carry a job that was there.*)
LEMMA RoundsCarried ==
  ASSUME Rounds, UNCHANGED <<matchIds, timeoutIds>>,
         \A j \in matchQueue' : Round(j), \A j \in timeoutQueue' : Timed(j),
         \A y \in tasks' : \/ y \in tasks
                           \/ y.kind \in MatchKinds \ {"retry"} /\ Round(y.job)
                           \/ y.kind \in TimeoutKinds /\ Timed(y.job)
                           \/ y.kind \notin MatchKinds \cup TimeoutKinds
  PROVE  Rounds'
BY DEF Rounds, RoundsBounded, Round, FirstRound, LastRound, Timed, MatchKinds, TimeoutKinds

LEMMA RoundQueued ==
  ASSUME Rounds, RideTypeOK, NEW r \in Trips, NEW n \in Nat, NEW excl,
         EnqueueRideMatching(r, n, excl),
         n <= MAX_MATCHING_RETRIES \/ (n <= MAX_MATCHING_RETRIES + 1 /\ r \in timeoutIds),
         \A y \in tasks' : \/ y \in tasks
                           \/ y.kind = "done" /\ Round(y.job)
                           \/ y.kind = "answered" /\ Timed(y.job),
         UNCHANGED <<timeoutQueue, timeoutIds>>
  PROVE  Rounds'
<1> DEFINE j == [r |-> r, n |-> n, excl |-> excl]
<1>1. j.r = r /\ j.n = n
  OBVIOUS
<1>2. /\ matchQueue' \subseteq matchQueue \cup {j}
      /\ matchIds' \subseteq matchIds \cup {<<r, n>>}
  BY DEF EnqueueRideMatching
<1> HIDE DEF j
<1>3. n <= MAX_MATCHING_RETRIES + 1
  BY DEF MAX_MATCHING_RETRIES
<1>4. RoundsBounded'
  BY <1>2, <1>3 DEF Rounds, RoundsBounded
<1>5. \A k \in matchQueue' : Round(k)'
  BY <1>1, <1>2 DEF Rounds, Round, FirstRound, LastRound
<1> QED BY <1>4, <1>5 DEF Rounds, Round, FirstRound, LastRound, Timed, MatchKinds,
                          TimeoutKinds

LEMMA WorkRounds ==
  ASSUME RideTypeOK, Rounds, NEW x \in tasks, Work(x)
  PROVE  Rounds'
<1>0. x \in Task
  BY DEF RideTypeOK
<1>1. CASE EnqueueFirst(x)
  <2>1. x.r \in Trips
    BY <1>0, <1>1, RowFields DEF EnqueueFirst
  <2> QED BY <1>1, <2>1, RoundQueued DEF EnqueueFirst, Finish, MAX_MATCHING_RETRIES
<1>2. CASE RetryLater(x)
  <2>1. x.job.r \in Trips /\ x.n \in Nat /\ x.n <= MAX_MATCHING_RETRIES
    BY <1>0, <1>2, MatchFields, RetryFields DEF RetryLater, MatchKinds, Rounds
  <2>2. Round(x.job)
    BY <1>2 DEF RetryLater, MatchKinds, Rounds
  <2> QED BY <1>2, <2>1, <2>2, RoundQueued DEF RetryLater, GoOn
<1>3. CASE RetryRideMatching(x)
  <2>1. x.job.r \in Trips /\ x.job.n \in Nat /\ Timed(x.job)
    BY <1>0, <1>3, TimeoutFields DEF RetryRideMatching, TimeoutKinds, Rounds
  <2>2. /\ \A y \in tasks' : y \in tasks \/ (y.kind = "answered" /\ Timed(y.job))
        /\ UNCHANGED <<timeoutQueue, timeoutIds>>
    BY <1>3, <2>1 DEF RetryRideMatching, GoOn
  <2>3. CASE EnqueueRideMatching(x.job.r, x.job.n + 1, {x.job.d})
    <3>1. x.job.n + 1 \in Nat /\ x.job.n + 1 <= MAX_MATCHING_RETRIES + 1
          /\ x.job.r \in timeoutIds
      BY <2>1 DEF Timed, FirstRound, MAX_MATCHING_RETRIES
    <3> QED BY <2>1, <2>2, <2>3, <3>1, RoundQueued
  <2>4. CASE UNCHANGED <<matchQueue, matchIds>>
    BY <2>2, <2>4, RoundsCarried DEF Rounds, TimeoutKinds
  <2> QED BY <1>3, <2>3, <2>4 DEF RetryRideMatching
<1>4. CASE OfferRide(x)
  <2> DEFINE r == x.job.r
             j == [r |-> r, n |-> x.job.n, d |-> x.d]
  <2>1. Round(x.job) /\ x.job.n \in Nat
    BY <1>0, <1>4, MatchFields DEF OfferRide, MatchKinds, Rounds
  <2>2. /\ \A y \in tasks' : y \in tasks \/ (y.kind = "done" /\ Round(y.job))
        /\ UNCHANGED <<matchQueue, matchIds>>
    BY <1>4, <2>1 DEF OfferRide, GoOn
  <2>3. CASE r \in timeoutIds
    <3>1. UNCHANGED <<timeoutQueue, timeoutIds>>
      BY <1>4, <2>3 DEF OfferRide, ScheduleAssignmentTimeout
    <3> QED BY <2>2, <3>1, RoundsCarried DEF Rounds, MatchKinds
  <2>4. CASE r \notin timeoutIds
    <3>1. timeoutQueue' = timeoutQueue \cup {j} /\ timeoutIds' = timeoutIds \cup {r}
      BY <1>4, <2>4 DEF OfferRide, ScheduleAssignmentTimeout
    <3>2. j.r = r /\ j.n <= MAX_MATCHING_RETRIES
      BY <2>1, <2>4 DEF Round, FirstRound, LastRound
    <3> HIDE DEF j
    <3>3. \A k \in timeoutQueue' : Timed(k)'
      BY <3>1, <3>2 DEF Rounds, Timed, FirstRound
    <3> QED BY <2>2, <3>1, <3>3 DEF Rounds, RoundsBounded, Round, FirstRound, LastRound,
                                    Timed, MatchKinds, TimeoutKinds
  <2> QED BY <2>3, <2>4
<1>5. CASE HandleNoDriverFound(x)
  <2>1. x.job.r \in Trips /\ Round(x.job)
    BY <1>0, <1>5, MatchFields DEF HandleNoDriverFound, MatchKinds, Rounds
  <2>2. attempts[x.job.r] \in Nat
    BY <2>1 DEF RideTypeOK
  <2>3. \A y \in tasks' : \/ y \in tasks
                          \/ /\ y.kind = "retry" /\ y.job = x.job
                             /\ y.n <= MAX_MATCHING_RETRIES
                          \/ y.kind = "giveup" /\ y.job = x.job
    BY <1>5, <2>2 DEF HandleNoDriverFound, GoOn, MAX_MATCHING_RETRIES
  <2> QED BY <1>5, <2>1, <2>3
          DEF HandleNoDriverFound, queueVars, Rounds, RoundsBounded, Round, FirstRound,
              LastRound, Timed, MatchKinds, TimeoutKinds
<1>6. ASSUME UNCHANGED queueVars,
             \A y \in tasks' : \/ y \in tasks
                               \/ y.kind \in MatchKinds \ {"retry"} /\ Round(y.job)
                               \/ y.kind \in TimeoutKinds /\ Timed(y.job)
                               \/ y.kind \notin MatchKinds \cup TimeoutKinds
      PROVE  Rounds'
  BY <1>6, RoundsCarried DEF Rounds, queueVars
<1>7. CASE SearchInRings(x) \/ AttemptAssignment(x) \/ WritePendingDriver(x)
  <2>1. Round(x.job)
    BY <1>7 DEF SearchInRings, AttemptAssignment, WritePendingDriver, Rounds, MatchKinds
  <2>2. PICK y : GoOn(x, y) /\ y.kind \in MatchKinds \ {"retry"} /\ y.job = x.job
    <3>4. CASE WritePendingDriver(x)
      BY <3>4 DEF WritePendingDriver, MatchKinds
    <3> QED BY <1>0, <1>7, <3>4, SearchGoesOn DEF MatchKinds
  <2>3. UNCHANGED queueVars
    BY <1>7 DEF SearchInRings, AttemptAssignment, WritePendingDriver
  <2> QED BY <1>6, <2>1, <2>2, <2>3 DEF GoOn
<1>8. CASE HandleAssignmentTimeout(x)
  BY <1>6, <1>8 DEF HandleAssignmentTimeout, GoOn, Rounds, TimeoutKinds
<1>9. CASE TriggerMatchingSideEffects(x) \/ UpdateRide(x)
  BY <1>6, <1>9 DEF TriggerMatchingSideEffects, UpdateRide, GoOn, Finish, MatchKinds,
                    TimeoutKinds
<1>10. CASE TakeRide(x) \/ ReleaseAssigned(x) \/ Acknowledge(x)
  BY <1>6, <1>10 DEF TakeRide, ReleaseAssigned, Acknowledge, Finish
<1>11. CASE CancelBySystem(x)
  BY <1>6, <1>11 DEF CancelBySystem, GoOn, Rounds, MatchKinds
<1> QED BY <1>1, <1>2, <1>3, <1>4, <1>5, <1>7, <1>8, <1>9, <1>10, <1>11 DEF Work

LEMMA NextRounds ==
  ASSUME RideTypeOK, Rounds, [RideNext]_allVars
  PROVE  Rounds'
<1> USE DEF MatchKinds, TimeoutKinds
<1>1. ASSUME NEW j \in matchQueue, ProcessMatch(j)
      PROVE  Rounds'
  BY <1>1, RoundsCarried DEF ProcessMatch, Search, Start, Rounds
<1>2. ASSUME NEW j \in timeoutQueue, ProcessTimeout(j)
      PROVE  Rounds'
  BY <1>2, RoundsCarried DEF ProcessTimeout, Start, Rounds
<1>3. ASSUME NEW r \in Trips,
             Ask(r) \/ Paid(r) \/ Cron(r) \/ GrowOld(r) \/ PendingDriverExpires(r)
      PROVE  Rounds'
  <2>1. CASE RecoverStuck(r)
    BY <2>1, RoundQueued DEF RecoverStuck, MAX_MATCHING_RETRIES
  <2>2. CASE ~ RecoverStuck(r)
    <3>1. /\ UNCHANGED queueVars
          /\ \A y \in tasks' : y \in tasks \/ y.kind \notin MatchKinds \cup TimeoutKinds
      BY <1>3, <2>2 DEF Ask, RequestRide, AcceptRide, ConfirmPickup, CompleteRide,
         CancelJob, CancelRide, CancelAbandoned, Decide, Cron, GrowOld,
         PendingDriverExpires, Paid, SettlePayment, StartRideMatching, FailPayment, Start
    <3> QED BY <3>1, RoundsCarried DEF Rounds, queueVars
  <2> QED BY <2>1, <2>2
<1>4. CASE Failure
  <2>1. ASSUME NEW x \in tasks, RunAgain(x)
        PROVE  Rounds'
    <3>1. matchQueue' \subseteq matchQueue \cup {x.job} /\ Round(x.job)
      BY <2>1 DEF RunAgain, Rounds
    <3> QED BY <2>1, <3>1, RoundsCarried DEF RunAgain, Finish, Rounds
  <2>2. ASSUME NEW x \in tasks, LoseRest(x)
        PROVE  Rounds'
    BY <2>2, RoundsCarried DEF LoseRest, Finish, queueVars, Rounds
  <2>3. ASSUME NEW j \in timeoutQueue, LoseTimeout(j)
        PROVE  Rounds'
    BY <2>3, RoundsCarried DEF LoseTimeout, Rounds
  <2>4. CASE Crash
    <3>1. \A j \in matchQueue' : Round(j)
      BY <2>4, StalledJobs DEF Rounds
    <3>2. \A j \in timeoutQueue' : Timed(j)
      BY <2>4, StalledJobs DEF Rounds
    <3> QED BY <2>4, <3>1, <3>2, RoundsCarried DEF Crash
  <2> QED BY <1>4, <2>1, <2>2, <2>3, <2>4 DEF Failure
<1>5. CASE UNCHANGED rideVars
  BY <1>5, RoundsCarried DEF Rounds, rideVars
<1> QED BY <1>1, <1>2, <1>3, <1>4, <1>5, WorkRounds DEF RideNext, Worker, allVars

(* A ride has MAX_MATCHING_RETRIES rounds of search and one more at most,  *)
(* whatever restarts, exceptions, crons and timeouts add to the queue; this*)
(* also bounds the state space that TLC explores.                          *)
THEOREM SearchIsBounded == RideSpec => []RoundsBounded
<1>1. RideInit => Rounds
  BY DEF RideInit, Rounds, RoundsBounded
<1>2. RideTypeOK /\ Rounds /\ [RideNext]_allVars => Rounds'
  BY NextRounds
<1>3. Rounds => RoundsBounded
  BY DEF Rounds
<1> QED BY <1>1, <1>2, <1>3, RideInduction, PTL DEF RideSpec
=============================================================================
