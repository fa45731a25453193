# Verification of the Asoose backend

Asoose is a ride, delivery and marketplace platform. The program logic lives in the NestJS
backend (`src/backend/src`, about 54,000 lines of TypeScript over PostgreSQL/Prisma, Redis
and BullMQ); `apps/`, `web/` and `packages/` are user interfaces and shared types. This
directory holds TLA+ models of the backend, TLC configurations that check them on small
instances and TLAPS proofs for every value of the constants.

Six cores are modelled. **Ride matching**: the live driver state in Redis with its Lua
scripts, the inactivity worker, the restart reconciliation, and the search for a driver
with its queues, workers, timeouts, crons and the customer's and driver's handlers.
**Payouts**: the withdrawals of riders and stores with their ledger entries, wallets and bank
transfers. **Payments** of orders and rides, from the page of the gateway to the earnings they
book. **Order placement** with its idempotency key and stock. **Fulfilment** of an order group by
stores, riders and administrators. **Refunds** and the disputes that order them.

## 1. Inventory

### 1.1 Parts, state and operations

| part (under `src/backend/src`) | state it keeps | operations that change it |
|---|---|---|
| driver live state: `matching/redis`, `matching/driver-state` | Redis keys per driver: status, pending ride, current ride, hex, lastSeen; the driver set of every hex; refusals per ride; the active set | eight Lua scripts (`lua-scripts.ts`), each atomic, called by `DriverStateService` between separate Redis calls |
| driver inactivity worker: `matching/workers/driver-inactivity.processor.ts` | the inactivity ping key | list silent drivers, ping, evict after the grace period |
| start-up reconciliation and end of day: `matching/startup-reconciliation.service.ts`, `matching/end-of-day-scheduler.service.ts` | none of their own | reset the status keys and the active set; sign everybody off at night |
| ride matching engine: `matching/workers/ride-matching.processor.ts`, `assignment-timeout.processor.ts`, `matching/queue` | BullMQ jobs and job ids, `ride:{id}:pendingDriver`, attempt counter | search hexes ring by ring, lock a driver, offer, time out, retry, give up |
| ride requests: `users/trips/rides.service.ts`, `rides-cleanup.service.ts` | the ride row (status, riderId, updatedAt) | request, start of the search, customer cancellation, two crons |
| driver job handlers: `riders/jobs/jobs.service.ts` | the ride row | accept, confirm pickup, complete, cancel |
| status and location gateway: `riders/status`, `notifications/notifications.gateway.ts` | the isOnline column | online, offline, position stream |
| rider live state and delivery search: `matching/rider-state`, `delivery-matching.processor.ts` | the same keys for deliveries | a second copy of the scripts and workers |
| group deliveries: `users/order-ready-listener.service.ts`, `users/trips/deliveries.service.ts`, `riders/jobs/jobs.service.ts`, `super-admin/deliveries` | the delivery row (status, rider, leg, stops) | listener of order.ready, start of the search, accept, decline, pick up, deliver, cancel, assign, override |
| admin ride operations: `super-admin/ride` | the ride row | forced payment, completion, manual assignment, forced status, unassign |
| ledger and payouts: `super-admin/transactions`, `super-admin/payouts`, `super-admin/riders`, `riders/withdrawal`, `vendor` | payout rows, ledger rows, wallet balances | request, approve, reject, process, transfer |
| payments: `payment` | payment rows, receipts and earnings of the ledger | initialise and retry, verify, webhooks, settle |
| orders: `users/orders.service.ts`, `inventory.service.ts`, `vendor/orders`, `super-admin/orders` | orders, stock, idempotency keys | place, accept, decline, prepare, mark ready, cancel unpaid, force a status |
| disputes and refunds: `super-admin/dispute`, `payment/payment-disbursement.service.ts` | dispute rows, the refund status, a ledger entry | open, resolve with or without refund, reject, refund at the gateway |
| scheduled rides: `scheduled-rides` | the scheduled row, an assignment job | schedule, assign, retry, cancel |
| the rest: auth and OTP, cart, chat, marketplace, fares and maps, notifications, mail, storage, metrics | rows of their own | mostly one-row reads and writes |

### 1.2 How they interact

The request of a ride writes the row and, without awaiting it, starts
`triggerMatchingSideEffects`, which moves the row to SEARCHING_DRIVER and adds a matching
job. The matching worker reads the row and the refusals, walks the hexes, and locks a
candidate with `ATOMIC_LOCK_DRIVER`; it then writes `pendingDriver`, schedules a timeout and
notifies the driver. The driver accepts through `JobsService` (a conditional update of the
row); a timeout declines through the Lua script and adds the next matching job. Crons re-add
jobs for rows that do not move. A withdrawal creates a payout row, debits the wallet in a
transaction of the ledger and, for a store, calls the bank; an administrator later approves,
rejects or processes the row, with further transfers and refunds. An order takes its key in
Redis, its stock and its rows in one transaction, and is then joined to its payment by the webhook and to its
delivery by an event in the memory of the process. A settled payment books a receipt under its own id and credits
a store or a driver; a dispute refunds it at the gateway between two transactions. Every one of these runs in its own asynchronous call: nothing
but a Lua script and a single SQL statement is atomic.

### 1.3 What is hard here

* every TypeScript method that reads Redis or a row, awaits, and acts on what it read;
* two stores, Redis and PostgreSQL, that no transaction joins;
* BullMQ's job ids: a job is silently dropped if its id is still known, and completed jobs
  stay known;
* restarts: requests in flight die, Redis and the queues survive, the reconciliation repairs
  only part of the state;
* time to live of keys, delayed jobs, retries and crons that overlap;
* ledger calls that open a transaction of their own inside another, and answers of the gateway that are late, repeated
  or lost;
* foreign keys: a log entry whose userId is `SYSTEM`, `ADMIN` or a vendor names no user, so the transaction it is in
  always rolls back. Operations of that kind (section 7) have no effect and no action, except where a ledger call in
  them leaves something behind, which is modelled.

What makes each part correct: a driver has one job slot and every offer ends (live state); a
silent driver leaves and a live one is found (inactivity, reconciliation); a ride is offered to
one driver at a time and its search concludes (engine); one driver gets the ride and keeps it (rows); money is transferred once and a refund happens once
(payouts); a bill has one receipt, every credit is backed by a charge and made once (payments); stock and idempotency agree with orders
(orders); a rider is searched for once, when every store is ready, and credited after every pickup (fulfilment); money goes
back once and what is booked went back (refunds). The hazards behind these, each at its line, are in `PROJECT.json`.

## 2. The modules

| module | what it is |
|---|---|
| `JobSlot` | abstract specification: each driver has one slot, idle, offered or serving; a refusal is remembered |
| `DriverPool` | the driver state in Redis: the scripts, `DriverStateService`, the inactivity worker, the end-of-day cron, key expiry, restart |
| `RideMatching` | the search: rows, queues, workers, handlers and crons, composed with `DriverPool` |
| `Payouts` | withdrawals: payout rows, ledger entries, wallets, transfers, and the handlers that move them |
| `Payments` | the Payment row of a bill, the charge, what a settlement books, and the ride meanwhile |
| `OrderPlacement` | the idempotency key of a basket, the stock, the order, and what takes the order back |
| `Fulfilment` | an order group after checkout: the statuses of its orders, its one delivery, the credit of the rider |
| `BillBook` | abstract specification: the books of a bill are only added to, receipt and credit come after the money |
| `FiniteSums` | lemmas about sums over finite sets, which `Payouts` and `OrderPlacement` state their accounts with |
| `Refunds` | disputes, the refunds they order, and their entry in the ledger |
| `MCDriverPool`, `MCRideMatching`, `MCPayouts`, `MCPayments`, `MCOrderPlacement`, `MCFulfilment`, `MCRefunds` | instances for TLC |
| `DriverPoolProofs`, `RideMatchingProofs`, `PayoutsProofs`, `PaymentsProofs`, `OrderPlacementProofs`, `FulfilmentProofs`, `RefundsProofs` | the theorems and their proofs |

### 2.1 DriverPool

Each Lua script is an operator with the script's name. A method of `DriverStateService` is cut
wherever it awaits: its first Redis call is an action of its own, and what it still has to do
is a record in `calls` (`op`, driver, trip, and the hex it read). So `declineJob`, the timeout,
`completeJob` and `releaseDriver`, which read the hex first and hand it to the script later, run
with a hex that other requests may have changed since. `setOnline` is the script, then
`updateLastSeen`, then the active set; `releaseDriver` is the read, the completion script and,
if the script finds no such job, a bare write of the status. The inactivity worker lists, pings,
waits and evicts in four separate steps, one job at a time (`WorkerFree`). `Restart` kills all
requests in flight and does what `reconcileRedis` does: it empties the active set, resets every
existing status key, and leaves offers, jobs, hex sets and hexes alone.

`WiredNext` holds the steps the application takes; `UnwiredNext` the methods of the service that
nothing calls yet (`acceptJob`, `completeJob`, `restoreOnline`). `Spec` has both, so the service is
verified as an interface; `WiredSpec` is the application as it is wired today, and what the
composition implements (`PoolImplemented`).

Status values are those of the key, with MISSING for an absent key, because `getDriverState`
returns null on it and several handlers then give up. `hex` has the extra value `None`, which is
both the absent key and the `''` that `releaseDriver` hands to the script; `available[None]` is the
set that call would write.

### 2.2 RideMatching

A handler that reads the row, checks it, and later updates it by id alone is a `Decide` step that
leaves a `write` task and an `UpdateRide` step that performs it whatever the row has become. The
one conditional update (`updateMany` in `acceptJob`) is `TakeRide`; the one of a failed payment is `FailPayment`. Workers are tasks
that carry their BullMQ job until the queue hears that it is finished (`Acknowledge`). What fails in between is one of four actions. `RunAgain`:
the matching worker rethrows, and the queue runs the job again, five times in all (`JOB_ATTEMPTS`). `LoseRest`: a handler whose rest
nobody awaits, or whose error is caught and logged, stops halfway; so does the timeout worker, which never throws (`LoseTimeout`
when it fails at its first call). `Crash`: the jobs of the workers return to their queue (a
stalled job has one more run), the other tasks are gone. The history `repeated` has the rides with a job that is run again although it had locked
a driver, or had handed the search on. A payment of the ride that is answered makes an accepted ride PAID (`SettlePayment`), cancels the ride (`FailPayment`), or
starts the side effects of the request once more, whoever is on the row (`StartRideMatching`); `resumed` remembers the last. `EnqueueRideMatching` and
`ScheduleAssignmentTimeout` ignore an id that was ever added, as BullMQ does with jobs that are not removed on
completion. `updatedAt` is the age of the row in three steps, below the
recovery threshold, past it ("stuck"), past the 30 minutes of the abandoned cron. The recovery cron
runs every minute, so a row that it matches is reached long before it is 30 minutes old
(`GrowOld`).

`Search` keeps the hexes that are left, the candidates of the current hex and the exclusions read
at the start. `AttemptAssignment` locks with the script, or drops the candidate when the script
refuses. A search ends when nothing is left, or at any time if the instance has more candidates than `MAX_ATTEMPTS` (`SearchOver`). `notified` are the drivers whose application showed the ride; a driver may accept as long as
its screen shows the ride, also after its offer timed out.

Data that no guard reads is left out: coordinates, fares, payment method, names, notifications. The
order of the hexes in the rings is any order, since it depends on the map only.

### 2.3 Payouts

`payout` is the row (status and payee), `request` its PAYOUT_REQUESTED entry, `refunds` the number of its
PAYOUT_FAILED entries, `transfers` what the bank did, and `work` what each request of the server has still
to do. A handler is cut wherever another can come between: at every await outside a transaction, and inside
one between the read that is checked and the update by id, because the transactions run at READ COMMITTED and
the update does not repeat the check. So `approvePayout` is `ApprovePayout` (the read), `LockPayout` (the commit), `DisbursePayment`
(the gateway) and `FinishApproval`; `rejectPayout` is `RejectPayout` and `CommitRejection`;
`processPayout` is `ProcessFailed`, `MarkFailed` or `ProcessPaid`, `MarkProcessed`, `FinalizeProcessed`; the
withdrawals are `OpenPayout`, `Record` and, for a store, `UndoWithdrawal` or
`InitiateVendorTransfer`, `SettleVendorPayout`. The call of the gateway transfers, is refused, or throws with
the transfer made or not made. `Crash` drops all work at any step.

Three paths of the code never complete, and the model keeps what they do until they fail:

* the refund of a store looks the store up by the id of its vendor, finds none and rolls its transaction back (`Refundable`);
* in production `disbursePayment` writes a Payment row whose `userId` is a store, so it throws after the
  transfer and the payout stays APPROVED; outside production a mocked transfer, counted as one, answers success. No answer leads to the
  FAILED branch of `approvePayout`;
* `requestWithdrawal` of a rider writes its ledger entry in a second transaction, which cannot see the payout
  row it refers to, and changes nothing; it has no action.

### 2.4 Payments

`updatePaymentStatus` reads the row, settles in a transaction, and looks at the ride again afterwards: `UpdatePaymentStatus`
(inside `Webhook`, `VerifyPayment` and `ForcePayment`), `SettlePayment`, `LookAgain`, `StartRideMatching`. The transaction is
one step, since it begins with the update of the Payment row and every other settlement of the row waits for it; but it does not look at
the status again, so the answer in the task may be out of date (`Overwritable`): only the read before it leaves a COMPLETED row alone (`Settleable`). `initiatePayment` is `Initiate`, `DeletePrevious`,
`CreatePayment`, `OpenSession`; the page it opened stays payable whatever became of the row (`Pay`). `Answers` is the mapping of
the gateway's word. A reference is a number, taken in order, as generated references are fresh. The ride moves by the steps
of its handlers, reduced to the status they read and write.

A refund is reduced to what touches the books: the status it reads (`AskRefund`), the status it writes if it gets that far, and the ledger entry of a ride's
refund or cancellation, which takes the place of a receipt (`Refund`); `Refunds` has the whole of it. `forced`, `refunded` and `contested` are history: bills an
administrator answered for, references the gateway refunded, and rides with two requests at work on one row or a completion by an administrator.

The administrator's `completeRide` rolls back on its log entry, but `recordPayment` and `recordRideEarnings` inside it commit
by themselves: `AdminCompleteRide`, `BookReceipt`, `CreditDriver`.

`BillBook` says what this leaves in the ledger, without rows, handlers and crashes: a bill is backed, then has a receipt, and its store
or driver is credited. Under the mapping `Book` a bill is backed by a charge that was paid for any of its rows, deleted ones included, or by
an administrator; it has a receipt when any of its references has one; its credit is `sold` or `earned`.

### 2.5 OrderPlacement

One task runs through `CheckIdempotency`, `TakeLock` (SET NX), `PrepareOrderContext` (other services, any time, may throw), `PlaceOrder` (one transaction),
`CompleteIdempotency`, `FileReminder`, and `ReleaseIdempotencyLock` if any of it threw. `ReleaseIdempotencyLock` deletes the key whoever holds
it. `Expire` is the time to live of the key, at any time: nothing bounds how long the
preparation takes. `lapsed` remembers which keys lapsed or were given up after a commit. What takes an order back
(`SettlePayment`, `Decide`, `CancelUnpaid`) reads in one step and writes by id in another; `back` counts how often its units were returned.
A single order and an order group are alike here.

### 2.6 Fulfilment

Only groups are modelled: a single order has one stop and its own listener. A task holds what the handler decided when it read.
The vendor's handler that wrote READY goes on as the listener (`HandleGroupOrderReady`, `StartDeliveryMatching`,
`EnqueueDeliveryMatching`), because the event lives in its process; `lost` records that a restart, or an error that the listener swallows
(`ListenerFails`), stopped it. The search for a rider
touches no row, so it is counted (`starts`) and any rider may accept. `ConfirmPickup` works on the leg and the stops it
read, and writes those stops back. An answer to the payment is `ReadToSettle`, which leaves a settled payment alone, and `SettlePayment`, which may be out
of date by then. `updateStatus(DELIVERED)` of an administrator holds the row of the delivery in an open transaction while the ledger
commits in another: `Locked` keeps other writers of the row out, and `Done` returns either to the rider's handler or to that transaction.
`hands` counts what administrators did past the flow. The cron for unpaid orders is in `OrderPlacement` alone.

### 2.7 Refunds

`executeSafeRefundFlow` is `Resolve` (the checks), `LockIntent`, then `processRefund` (`CheckPayment`, `InitiateRefund`, `MarkPayment`,
`CancelOrder`), and `FinalizeRefund` or `RefundFailed`. An administrator may call `processRefund` directly (`RefundDirectly`). The gateway refuses, or refunds and its
answer may be lost. `FinalizeRefund` inserts a ledger entry under the unique id of the payment: orders and groups have their
receipt there, so it rolls back for them (`Unbooked`). `SettlePayment` is another verification of the payment, for which a refunded one is not
final. `CancelRide` and `RecordRefund` are an administrator's cancellation of a ride: the row updates roll back with the log entry at its end, but
`recordRefund` has a transaction of its own and leaves a REFUND_ISSUED entry, here `Cancellation`, if the payment has none. `refunded` and `astray` are history: on whose behalf money went out, and which payments had requests that overlapped or an outcome the
program could not see. Amounts, the pre-flight check of the store's balance (which only aborts) and test references are left out.

## 3. Properties and runs

| run | instance | checks | result |
|---|---|---|---|
| `pool_safety` | 1 driver, 2 trips, 2 hexes, 2 requests in flight | `TypeOK`, `OneJob`, `NoReoffer`, `JobHasHex`, `ActiveHasJob`, `SlotRefined`, `HeartbeatHeals` | holds |
| `ride_safety` | 2 drivers, 1 ride, 2 tasks, 1 restart, throw or payment | `RideTypeOK`, `OneOfferPerRide`, `RoundsBounded`, `NobodyYet`, `RiderStable` | holds |
| `ride_live` | 1 driver, 1 ride, 1 task, 1 restart | `RequestConcludes`, `PoolImplemented` | holds |
| `payout_safety` | 1 rider, 1 store, 2 payouts, 2 requests, crashes | `PayoutTypeOK`, `LedgerExplainsWallet`, `NeverOverdrawn`, `RejectedIsRefunded`, `PaidMeansSent` | holds |
| `payments` | 1 order, 1 ride, 2 references, 2 requests, refunds, crashes | `PaymentTypeOK`, `OneReceipt`, `StorePaidPerReceipt`, `RevenueBacked`, `DriverPaidOnce`, `BooksRefined`, `ChargeRecorded` | holds |
| `order_placement` | 1 basket, 2 products, 2 orders, 2 requests, crashes | `PlacementTypeOK`, `UnitsAccounted`, `DuplicateNeedsLapse`, `KeyFreed` | holds |
| `fulfilment` | 2 orders, 2 riders, 2 requests, 1 override, crashes | `FulfilmentTypeOK`, `SearchedOnceWhenReady`, `NoGroupForgotten`, `HandedOver` | holds |
| `refunds` | 2 disputes, a group of 2, an order, a ride, 2 requests, crashes | `RefundTypeOK`, `RefundedOnce`, `FailureSentNothing`, `MoneyWentBack` | holds |
| `refund_unbooked` | as `refunds` | `RefundIsBooked` | violated |
| `search_never_ends` | 1 driver, 1 ride, fairness | `SearchEnds` | violated |
| `two_rides_one_driver` | 1 driver, 2 rides | `OneRidePerDriver` | violated |
| `paid_twice` | 1 store, 1 payout, 2 requests | `PaidOnce` | violated |

What holds:

* **One slot per driver** (`OneJob`, `SlotRefined`). Whatever the interleaving of scripts, stale
  hexes, lapsing keys and restarts, a driver has no offer beside a job, a job is not overwritten,
  and a slot only changes by an offer, an acceptance, a refusal, a withdrawal or a completion.
* **A refusal is respected** (`NoReoffer`), because the lock and the decline both work on the
  refusals inside their scripts.
* **Every offer can be undone** (`JobHasHex`): the handlers that give up without a hex never meet an
  offered driver without one. **ACTIVE means serving** (`ActiveHasJob`): the inactivity worker and
  the matching engine both skip ACTIVE drivers, so an ACTIVE driver without a job would be lost.
* **Self-healing** (`HeartbeatHeals`): a forced ONLINE or a lapsed offer leaves a driver out of every
  set; the next position puts it back.
* **One offer per ride** (`OneOfferPerRide`), unless the queue runs a job again that had locked a driver or handed the search on. Nothing in the worker
  checks it; it follows from the job ids and from the timeout's order, decline first and re-enqueue afterwards, through the other
  exceptions and restarts, crons and payments. The exception is real: the second run locks a second driver.
* **A search has an end in rounds** (`RoundsBounded`): no matching job of a ride is numbered beyond the retries and one more. The retries
  of the worker and those of the timeout number their rounds apart, and every offer could start another; the ids they share
  make the second a no-op. (That the search then does not conclude is `SearchEnds` below.)
* **The row agrees with the search** (`NobodyYet`, `RiderStable`): although the move to
  SEARCHING_DRIVER and the cancellations are unconditional, no driver is on a row that is being searched for,
  and no driver is replaced by another, unless a settled payment asked for the search. That exception is real too: `startRideMatching` looks at no driver.
* **A request concludes** (`RequestConcludes`) although its side effects are not awaited and a restart may
  lose them: the recovery cron matches REQUESTED rows.
* **The ledger explains the wallets** (`LedgerExplainsWallet`): debits and refunds write wallet and entry in one
  transaction and by relative updates, so overlapping rejections, repeated `processPayout` and crashes change
  neither without the other. A payout may be refunded twice; the ledger then says so.
* **Withdrawals are covered** (`NeverOverdrawn`) although the balance is checked on an older read: the debit looks
  at the balance it leaves behind.
* **REJECTED means refunded, PAID means transferred** (`RejectedIsRefunded`, `PaidMeansSent`), whichever of
  the handlers that settle a row came last.
* **One receipt, and one credit for it** (`OneReceipt`, `StorePaidPerReceipt`): webhook, verification and retry of a bill may all find it unpaid; the
  second settlement books nothing new, because the receipt is an upsert, the commission looks for its entry, and a
  row with a receipt cannot be deleted.
* **No credit without money** (`RevenueBacked`): a stale answer, the step that puts a ride back to the search, and the
  administrator's half-committed completion never credit what nobody paid or forced.
* **The books are only added to** (`BooksRefined`): deleted rows, repeated settlements, a completion that rolls back halfway and crashes take
  no receipt and no credit back, and a store's credit comes in one step with its receipt.
* **A driver is credited once** (`DriverPaidOnce`) through redeliveries, verifications, retries of the customer and restarts. The ledger does not see to it
  (`recordRideEarnings` looks for no earlier entry); the check of the payment's status does, so two requests at work on one row, an
  administrator's completion and a verification after a refund are the exceptions, and each of them does credit twice.
* **A charge is booked** (`ChargeRecorded`) whatever restarts and stale failures come first, unless the customer's own retry deleted its row.
* **Stock adds up** (`UnitsAccounted`): the orders of a basket take all or nothing, and each return is counted.
* **A duplicate needs a lapsed key** (`DuplicateNeedsLapse`), and **no key is held for good** (`KeyFreed`).
* **A group is searched for once, and not before it is ready** (`SearchedOnceWhenReady`), because the start is a conditional update; and
  **a ready group is not forgotten** (`NoGroupForgotten`): each store writes before it counts, so the last one counts them all.
* **Credit and dispatch follow the last pickup** (`HandedOver`), through declines, cancellations, settlements of the payment and repeated confirmations.
* **A payment is refunded once** (`RefundedOnce`) by any sequence of resolutions, disputes of one group and direct refunds that do not
  overlap and whose outcome the program sees. The exceptions are real: two clicks at once, an answer that is lost, an exception or a
  restart after the money went out, and a verification that makes the payment COMPLETED again all lead to a second refund.
* **What may be tried again sent nothing** (`FailureSentNothing`), and **what is booked for a dispute was sent** (`MoneyWentBack`), whatever rejections and
  verifications come in between. The one refund in the ledger that nobody made is that of a ride an administrator cancelled.

What does not hold, each quoted with its line in `PROJECT.json` "findings":

* `SearchEnds`: once an offer timed out the retry and the next timeout carry ids that exist already and are dropped; the
  recovery cron re-adds an id that exists too, and touches `updatedAt`, which keeps the 30-minute cron
  away. The row stays SEARCHING_DRIVER forever.
* `OneRidePerDriver`: an acceptance updates the row only. Redis still has an offer, the timeout
  declines it and files the driver as available, and the next ride goes to a driver that is serving.
* `PaidOnce`: the withdrawal of a store starts a transfer while its row is PENDING; an approval locks
  the row and transfers again, under another reference.
* `RefundIsBooked`: the refund of an order is never booked. Its entry takes the unique id of the payment, which the receipt has; the
  transaction rolls back after the money went out, and the dispute stays OPEN and PROCESSING. The debit of the store is in the same transaction and never happens either.

Observed in the models, without a run of their own (each is a short behaviour; a property that forbids it would only
restate the missing check):

* Going online in a second hex leaves the driver in the set of the first (`lua-scripts.ts:276`). A driver released from an offered ride keeps the
  offer and is in no set (`driver-state.service.ts:347`). A matching worker that throws (`ride-matching.processor.ts:137`) or dies after it locked a driver
  is run again and locks a second one.
* A cancellation by the customer that was decided on an older row overwrites a ride in progress (`rides.service.ts:718`).
* A ride that is paid after its customer cancelled it credits the driver (`payment-status.service.ts:235`). A ride that is prepaid, DRIVER_ACCEPTED when
  the payment settles, never credits its driver there. `startRideMatching` after a payment puts a ride
  back to SEARCHING_DRIVER that is under way or has a driver (`rides.service.ts:669`): another driver that read the row before may replace the first, and a stale FAILED then cancels it.
  An answer that is out of date turns a COMPLETED payment into FAILED, which only another verification mends. A retry deletes a
  row whose page is still open, and what is paid there is booked nowhere. The cancellation of a paid ride by an administrator (`super-admin/ride/ride.service.ts:313`) books a
  refund nobody made; the ride and its payment stay as they were. `completeRide` of an administrator rolls back but credits each time.
* A payment reported failed twice returns the units of its order twice; `autoCancelUnpaidOrders` returns none, although `inventory.service.ts:64` names
  cancelled orders. The cached answer of a basket may name a cancelled order for a day. `orders.service.ts:36` says "Redis Lock TTL (30s) > DB Timeout
  (20s)", but the lock is taken before `prepareOrderContext`, which has no such limit.
* `recordDeliveryEarnings` checks for its entry before its transaction, so two completions credit a delivery twice. A group with a REJECTED order
  is never dispatched. The orders of a group stay DISPATCHED after the delivery. A forced READY rings nobody.
* `dispute.service.ts:571` says "Lock the row to prevent double-clicks", but the update is unconditional: two clicks refund twice. Two requests
  may open a dispute about the same order. A restart during the call of the gateway leaves the dispute PROCESSING for good. A refunded payment that is verified again is
  COMPLETED and refundable, and its order CONFIRMED.

### 3.1 Bounds

* `MaxCalls` bounds the requests in flight on the driver state. Two are enough for every pairwise race
  of a stale read with a whole script; with three the invariants of `pool_safety` were also checked
  (about 1.1 million states). Properties of `DriverPool` speak of one driver, and drivers
  interact only through the sets, from which a driver removes only itself: one driver is enough, and the
  proofs cover any number.
* `MaxTasks` bounds handlers and workers of the composition at work at once; two give every race of
  two of them. `ride_live` has one task at a time, so that its liveness check stays small; the race
  that matters to it, a restart at any step, needs no second one.
* `MaxCrashes` bounds restarts. The attempt counter of a search and the numbers of the jobs need no
  bound: `RoundsBounded`, proved for any instance, says that they have one. `MaxThrows` and `MaxPayments` bound the calls that throw and
  the payments that are answered. `Calm` of `ride_safety` (811,000 states up to symmetry) admits one of the three in a behaviour, once both drivers have signed on, and stops where
  a job is run again too late or a resumed search ends; two or more of them, and what follows such a run, are left to the proofs, which have no bounds. `ride_live` has a restart only, which loses more than an exception does.
* One hex is enough in `RideMatching`: what the hexes add (stale hexes, two sets) is `DriverPool`'s.
* `MaxTransfers` bounds the transfers and refunds of a payout, which the code does not. Two handlers and two
  payouts give every race of two settlements of one payout, and two withdrawals that compete for one
  wallet; amounts 1 and 2 on a wallet of 2 make both the exact and the insufficient balance happen.
* `payments`: `OneBill` follows one bill at a time, an order or a ride, since bills share nothing but the handlers, and `ToSecondCredit` up to its second credit,
  with one refund of what no administrator forced (300,000 states). Two references are a payment and its retry, which is the most that meet. `MaxEarnings` caps the count of credits.
* `order_placement` (86,000 states): one basket twice, two units of one product and one of the other, so that the second order finds one of
  them short. `MaxReturns` caps the returns of an order.
* `fulfilment` (660,000 states up to symmetry): two orders are the least with a leg that is not the last. `MaxHands` caps the overrides, and
  `CalmOverride` serves one request at a time after one, or after a lost event; before it every pair of requests races.
* `refunds` (595,000 states up to symmetry): `OneAtIssue` follows one payment, of a group, an order or a ride, up to its second refund. `MaxRefunds` caps what the
  gateway accepts; amounts are not modelled, so it stands for the gateway's own limit.
* `DriverPool`'s liveness is checked on the instance of its safety, without symmetry (558,000 states).

### 3.2 Fairness

`HeartbeatHeals` assumes weak fairness of a position update per driver: the driver application streams its
position while it is open. `RideLiveSpec` assumes that running code runs on
(weak fairness per kind of task and for the rest of a request in flight), that queues are served and crons
fire, and that time passes. The queue and cron actions have strong fairness because `MaxTasks` and `MaxCalls`,
which the code does not have, may close their guards for a while. Nothing is assumed of the customer
or of a driver: neither has to accept, confirm, complete or cancel.

`LiveSpec` of `Payments`, for `ChargeRecorded`, assumes that a request runs on (weak fairness of `Resume`), that the gateway delivers
charge.success again until it is answered (strong fairness per reference, because the guard closes while other requests are at work), and that
restarts end. `LiveSpec` of `OrderPlacement`, for `KeyFreed`, assumes only that Redis lets keys lapse: no request has to go on.

## 4. Proofs

The theorems hold for any sets of drivers, trips, hexes, rides, bills, products and handlers and for any bounds; payouts, the orders of a basket or a group and, in `Fulfilment`, handlers are finitely many. The modules about the
driver state and the ride assume `NoneAssumption` alone (the absent key is no trip and no hex). Every invariant and every action
property that a passing run checks is stated by a theorem, and so are the refinements:

* `DriverPoolProofs`: `TypeCorrect`, `SingleJob`, `NeverReoffered`, `OffersCanBeUndone`,
  `ActiveServes`, and `PoolImplementsJobSlot`. The inductive invariant `IInv` is the conjunction of the
  type, the four invariants and `FiledHasHex`: whoever is in a hex set has a hex. The last is why
  `JobHasHex` is inductive: the lock takes a driver out of a set without looking at its hex. One lemma per script shows that it preserves the data part;
  a step of a request is then a script plus bookkeeping. For the refinement one lemma per script names the
  abstract step it is.
* `RideMatchingProofs`: `RideTypeCorrect`; `PoolIsImplemented`, every step of the composition is a
  wired step of the pool or leaves it alone, from which `MatchingKeepsOneJob` and
  `MatchingImplementsJobSlot` carry the pool's theorems over to the whole engine, restarts included; and
  `NobodyIsOnASearch` and `DriverIsKept`. The latter two rest on `RowInv`, which adds two facts to
  `NobodyYet`, for the rides whose search no payment resumed: while the side effects of a request are still to come, its row is not SEARCHING_DRIVER and has
  no rider (`Triggered`), and a row that does not exist has nobody on it (`Fresh`).
  `OneOfferUnlessRepeated` follows the work of a ride: its matching jobs, its timers and the
  workers that run either, up to their acknowledgement, are its `Chain`. For a ride that is not `repeated` the chain has one link at most (`OneLink`): a job that is run again takes the place of its worker; once it
  has a link or an offer is out, the first id of the ride is used up, so that nothing starts a second chain (`Started`); who still holds an offer is the driver
  the link is about (`Answered`), and one driver at most holds one (`OneHolder`). So a search begins only where no offer is left, whatever throws, stops or is paid before. `SearchIsBounded` needs no such limit: `Rounds` bounds the number of the first and the last job that every task,
  timer and job id can still lead to, and a ride has one timer in its life (`Timed`).
* `PayoutsProofs`, from `PayoutAssumption` (amounts and the opening balance are natural numbers, riders and
  stores are disjoint): `PayoutTypeCorrect`, `WithdrawalsCovered`, `RejectionRefunds`, `PaidIsSent` and `LedgerIsTrue`. The
  invariants but the last are inductive together with `Paying`: a handler that is about to write PAID or COMPLETED has seen a transfer.
  The lemmas `StatusStep`, `TransferStep`, `RefundStep` and `CompleteStep` treat the four kinds of step the handlers are
  made of. `LedgerIsTrue` needs that the payouts are finitely many (part of the assumption, and true of any table), that a handler about to record a
  request is the only one and its payout has no entry yet (`Recording`), and that what was never requested was not refunded (`Unrecorded`): then each step changes one
  term of the sum and the wallet by the same amount.
* `PaymentsProofs`, from `PaymentAssumption` (orders, rides and the absent bill are different): `PaymentTypeCorrect`, `ReceiptsUnique`,
  `StoresPaidPerReceipt`, `CreditsBacked`, `DriversPaidOnce`, `PaymentsImplementBillBook`. The invariant adds: one row to a bill, and receipts keep their rows (`Rows`); a row that is COMPLETED, or
  has a receipt, was charged or forced (`Justified`); what a handler is about to write is sound in that sense (`Pending`);
  a store has one credit exactly when there is a receipt, a driver's credit has one (`Sales`, `Trips`). `Grows` says what no step takes back, a charge, an override or the bill of a row, so that
  `Pending` survives the steps of other handlers. The refinement adds `Paged`: a reference without a row has no page at the gateway, so making the
  row moves no charge from one bill to another. `ReceiptBooks` is its main step: writing a receipt is an entry of `BillBook` or changes nothing.
  `DriversPaidOnce` has an invariant of its own, `Once`, for the rides that are neither contested nor refunded: one handler at most is about to write the status of a row (`Writers`), and a ride whose
  driver was credited has a row that is COMPLETED, which nobody settles again (`Made`).
* `OrderPlacementProofs`: `PlacementTypeCorrect`, `DuplicatesNeedLapse`, `UnitsAreAccounted`. For a key that has not lapsed: a handler that prepares or places holds it alone
  (`Own`), there is no order yet (`Empty`), and a free key has no order (`Unused`); hence `AtMostOne`. `UnitsAreAccounted` is
  inductive with the types: placing and taking back change one order's term of the sum for every product of the basket at once.
* `FulfilmentProofs`: `FulfilmentTypeCorrect`, `SearchStartsOnce`, `CreditAfterPickup`, `GroupIsFound`. `KnownReady`: a store or an administrator made every READY order so, and whoever starts the search knows it of all;
  `Flow`: without an override the delivery, the legs that are picked up and the tasks go together; `Budget`: searches that
  were started, those under way and a delivery that may still start one are at most one and the overrides. `GroupIsFound` is a statement about a server at rest, so its invariant
  `InHand` says what is still to come: if all orders are ready and the delivery is PENDING, somebody is between its write and its count, or past it (`Counting`).
* `RefundsProofs`: `RefundTypeCorrect`, `RefundsOnce`, `FailuresSentNothing`, `BookingsBacked`. For a payment that is not astray: at most one handler is at it (`Single`),
  and its refund count agrees with its status and with how far that handler is (`Counted`); a handler past the gateway has sent (`Sent`); a dispute for
  which money went out is PROCESSING, COMPLETED or in that handler's hands (`Held`).
* `FiniteSums` has no theorem about the program. `SumChanges`, `SumInt` and their like are proved of the library's `SumFunctionOnSet` from a smallest set on which they would fail,
  since an induction theorem takes an operator the provers cannot instantiate.

Only model-checked: `HeartbeatHeals`, `RequestConcludes`, `ChargeRecorded` and `KeyFreed`, because liveness under fairness is out of the prover's
reach; and the four runs that find a violation.

## 5. What the model simplifies

* The writes of `completeJob` and `confirmPickup` to wallets and payments are left out; the model
  has their effect on the ride row.
* A job that stalled in an earlier restart may or may not be run again (BullMQ's `maxStalledCount` is 1, and which job it was is not kept); likewise
  `RunAgain` may drop a job once there were `JOB_ATTEMPTS` throws, by whichever job.
* `reconcileRedis` is one step: it runs before the process serves requests.
* In the composition the pool takes position updates, sign-on, sign-off, lapsing offers and restarts
  (`PoolStep`); the inactivity worker, the end-of-day cron and the expiry of refusals and of the attempt counter are left to
  `DriverPool`, and each driver signs on once. The proofs about the pool cover those steps as well.
* `cancelRide` reads `pendingDriver` and then the driver's state in two calls; the model
  merges them in `ReleaseAssigned`.
* Delays, priorities, push notifications and the hop between Redis connections are not modelled.
* Payouts: amounts are those of the ledger (a store is transferred the amount less its commission); the wallets change by
  withdrawals and refunds only; GATEWAY_ERROR and PAYOUT_APPROVED entries are left out.
* In `RideMatching` a payment is its answer only, in `Payments` the search is left out, in both the setting of the row by an administrator: the manual assignment and
  the other overrides belong to the planned `RideLifecycle`. `NobodyYet` and `RiderStable` are about the flow without them.
* Payments: the amount the gateway reports is the amount asked for; wallet payments, wallet funding and single deliveries are left out.
  The accept of a driver is one step here, because it is a conditional update.
* Orders: the contents of a basket are constants. A product whose stock is not managed (`inventory.service.ts:28`, `80`) is one of which no basket wants units;
  that the setting changes between the order and its return is left out. The reminder changes nothing but itself.
* Fulfilment: notifications, distances and proof of delivery are left out.
* Refunds: a payment's amount, and so how much is left of it, is open (`Marks`).

## 6. Plan

In this order; each is a module, an MC module with one or two runs, and a module of proofs.

1. **RiderPool** and **DeliverySearch**: the delivery side of the live state, as an instance of `JobSlot`, composed with `Fulfilment`. Two things to look
   at there: the long retry is added under a job id that is kept (`delivery-matching.processor.ts:316`), and the inactivity worker
   does not see a rider who is delivering.
2. **ScheduledRides**: the assignment job and its retry under one job id.
3. **RideLifecycle**: abstract life cycle of a ride row; `RideMatching`, `Payments` and the admin overrides (manual assignment, retry, unassign, forced
   status) mapped to it.
4. **Wallets**: `adjustWallet` and the other absolute writes of a balance, wallet payments and wallet funding.
5. OTP and token revocation.

Theorems planned: `RiderPool` implements `JobSlot`; the abstract life cycle of item 3 as a refinement; a ledger of withdrawals, like `BillBook`, for `Payouts`.

## 7. Not modelled

Fares and hex geometry (arithmetic on fractions and coordinates), notifications, mail, storage, metrics and audit
(nothing reads them back to decide), the one-row create, read, update and delete of carts, chats, products and
support tickets, and the user interfaces. The user interfaces are most of the lines of the repository and hold no
state of the system, so that the map covers a small share of the repository. `PROJECT.json` lists every part with the reason.

Operations that have no effect, because their transaction always rolls back (a log entry that names no user): `declineOrder` and the automatic
decline of a vendor; `completeOrder` and `remove` of `super-admin/orders`; `remove` of `super-admin/deliveries`. The ledger calls inside them change nothing
either: the commission of an order is there already, and its receipt refuses a refund entry. `completeRide` and `cancel` of `super-admin/ride` roll back too, but ledger entries of theirs
survive: sections 2.4 and 2.7. Operations without a caller: `refundOrder`, `refundRide` and `refundDelivery` of `super-admin`; `assignDriver`, `acceptDelivery`, `confirmPickup` and
`completeDelivery` of `deliveries.service.ts`, `completeDelivery` of `super-admin/deliveries`, and `IdempotencyService`.

## 8. Running

    tlasany DriverPool.tla
    tlc -workers 2 -config PoolSafety.cfg MCDriverPool
    tlc -workers 2 -config RideSafety.cfg MCRideMatching
    tlc -workers 2 -config PayoutSafety.cfg MCPayouts
    tlc -workers 2 -config Payments.cfg MCPayments
    tlc -workers 2 -config OrderPlacement.cfg MCOrderPlacement
    tlc -workers 2 -config Fulfilment.cfg MCFulfilment
    tlc -workers 2 -config Refunds.cfg MCRefunds
    tlapm DriverPoolProofs.tla

and so on for the other runs and modules of proofs; the longest runs, `payments`, `pool_safety`, `fulfilment` and `ride_safety`, take two to three minutes.
