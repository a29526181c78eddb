# Verification of the Jio20 session platform

This directory holds a TLA+ model of the backend in `src/`: what is modelled,
what TLC checks on small instances, what TLAPS proves for every instance, and
what is still open.  Paths below are relative to `src/src/app` unless they start
with `src/`.

Run everything from this directory:

    tlasany CouponApply.tla
    tlc -workers 2 -config CouponApplyOnePod.cfg MCCouponApply
    tlapm CouponApplyProofs.tla
    tlapm CouponApplyOnePodProofs.tla
    tlapm CouponApplyContestProofs.tla
    tlc -workers 2 -config LifecycleFleet.cfg MCSessionLifecycle
    tlapm SessionLifecycleProofs.tla
    tlc -workers 2 -config OrphanOnePod.cfg MCOrphanCoupons
    tlapm OrphanCouponsProofs.tla
    tlc -workers 2 -config SalesSync.cfg MCSalesSync
    tlapm SalesSyncProofs.tla
    tlc -workers 2 -config SessionCreation.cfg MCSessionCreation
    tlapm SessionCreationProofs.tla
    tlc -workers 2 -config SocketGateway.cfg MCSocketGateway
    tlapm SocketGatewayProofs.tla

## 1. The system

A *session* is a short competition inside a *profile*: a number of reward slots
(`session_profiles.max_slots`, 0 = unlimited) and an end time.  Orders bring
users coupons; coupons are linked to a session; while the session is LIVE a user
applies a coupon and the first `max_slots` coupons win.  When enough sales are
counted (a *threshold*) the profile's next session is created.

The backend is one NestJS process, started three times (`src/k8s/deployment.yaml:6`).
Every pod serves the HTTP API, holds socket connections, subscribes to Redis
pub/sub, and runs one BullMQ worker of the queue `session-jobs` with
`concurrency: 1` (`jobs/workers/session/session.worker.ts:263`).  Concurrency 1
is per worker: with three pods three jobs run at the same time.  Shared state is
in Postgres (through Prisma), in Redis keys, and in the queue.

| Component | State | Operations | Interacts through |
|---|---|---|---|
| Coupon application (`coupon/`, `handlers/apply-coupon`, `expire-session-coupons`, `stop-session`, `session.worker`) | `session_coupons`, `session_rewards`, `sessions.status`, `current_participant_count`; Redis `session:applied:{id}` | `applyCoupon` (HTTP), jobs `apply-coupon`, `stop-session`, `expire-session-coupons`, `schedule-stop-sessions` | the queue, Postgres rows, the Redis counter |
| Session lifecycle (`session-transition.helper`, `start-live`, `sync-opening`, `schedule-stop`, `bullmq.module`) | `sessions.status` UPCOMING, OPENING, LIVE, …; job ids | `startLiveSession` (row locks), `scheduleStartLiveJob`, `syncOpeningSessionsToLive` | delayed jobs, repeatable jobs |
| Session creation (`session.service`, `session-creation.service`, `threshold-reached`, `redis-subscriber`) | `sessions`, `session_profiles.session_count`, Redis profile keys | `createSession`, `disableSalesForProfile`, `isSalesEnabled`, threshold messages | Redis pub/sub, the queue |
| Sales synchronisation (`sync-sales`, `redis-subscriber`) | Redis `session:sales:*`, `sessions.current_sales_count` | INCR by sellers, SET on messages, the periodic sync, deletion of keys | pub/sub, Postgres |
| Orphan coupons (`orphan-coupon.service`) | coupons without a session, refunds | assignment, refund (Razorpay, Stripe), the periodic check | the sales counter, payment services |
| Socket gateway (`socket/`) | rooms, `client.user`, `connectionCount` of each pod | connect, disconnect, the request for a term's sales, broadcasts | Redis adapter, the sales keys |
| Authentication (`auth/`) | the blacklist and the users, both written by the shop | `validateToken`, token extraction | the gateway, the HTTP guard |
| Rate limiting, coupon codes, infrastructure | a Redis window counter, none | configuration, logging | – |

### What is hard

* **Interleaving.** The handlers are written as if only one ran at a time; with
  several pods every `await` lets another pod's handler run.
* **Read, then write.** The counter sync, the participant count, the stop job and
  the expire job write what they decided from an earlier read.
* **Crash and reclaim.** A pod may die between the Redis increment and the
  database update, or between the update and the reward; BullMQ runs the job
  again once (`maxStalledCount` 1).
* **Partial failure.** Errors of the counter sync and of the duplicate lookup are
  swallowed; a lost decrement is only logged; `apply-coupon` has one attempt.
* **Boundaries.** The last slot is `position === max_slots`; 0 means unlimited.
* **Messages.** Pub/sub messages are lost, duplicated (each pod gets each) and
  handled concurrently.

`PROJECT.json` lists the hazards with their lines and the properties that watch
each of them.

### What makes each component correct

* Coupon application: slots and win limits respected, ranks 1..n without gaps or
  repetition, a final outcome, at most one reward, a reward for every winner, a
  closed session stays closed, requests decided in the order they came.
* Session lifecycle: at most one LIVE session per profile, no way back from LIVE,
  an OPENING session eventually LIVE, a LIVE one eventually stopped, nothing early.
* Session creation: every session is counted, sales are disabled only at the limit,
  `isCreated` is stored only of a created session, a threshold gets an answer.
* Sales: no count exceeds the sales, an active session keeps its key, key and row
  agree once it is quiet.
* Orphan coupons: a coupon gets one session or its money back, not both; it is
  invalid only when the money is back; every assignment is counted; none is forgotten.
* Socket gateway and authentication: only admitted sockets hear, nobody barred gets
  in, screens show no sales that were not made, a published count reaches the room,
  the connection counter counts nobody twice.

## 2. What is modelled

### `CouponApply` – the competition for the slots of one LIVE session

| Variable | In the code |
|---|---|
| `session` | the row in `session.sessions`: status, `current_participant_count`, and whether the sales count has reached its trigger |
| `coupon`, `reward` | rows of `session_coupons` (`applied_at`/`is_redeemed` as one field, position, `is_valid`, status) and `session_rewards` |
| `counter` | the Redis key `session:applied:{id}`; a missing key reads as 0 |
| `queue`, `delayed`, `expireId` | waiting jobs, delayed or backed-off jobs, the used job id `expire-session-{id}` |
| `call` | HTTP requests between validation, duplicate lookup and `queue.add` |
| `pc`, `job`, `mem` | for each pod the next step of its handler, its job, the locals it still uses |
| `orphan` | a job whose pod died, until the stalled check |
| `arrivals`, `faults` | history and bound; no action depends on `arrivals` |

Every `await` of a handler that reads or writes Postgres or Redis is one action,
named for what it does, so that pods interleave exactly where the code lets them:

| Action | Code |
|---|---|
| `Admit`, `RefuseMaxWins`, `LookUp`, `Enqueue` | `coupon.service.ts` `applyCoupon`, lines 94–272 |
| `ReadSession`, `ReadCoupon`, `CheckWins` | `apply-coupon.handler.ts:122-182` |
| `CountApplied`, `GetCounter`, `SetCounter` | the counter sync, lines 184–210, only with a slot limit |
| `TakeSlot` | the Lua script, lines 388–440, atomic in Redis |
| `UpdateCoupon`, `RevertCounter` | `updateMany … applied_at: null` and the `decr` of the loser, lines 225–271 |
| `CreateReward`, `RecheckWins`, `CloseSession`, `EnqueueExpire` | lines 273–370 |
| `ReadStatus`, `MarkTimeReached` | `stop-session.handler.ts:45-111` |
| `CheckExpirable`, `FindUnused`, `ExpireBatch` | `expire-session-coupons.handler.ts:73-205` |
| `Take`, `Promote`, `Reclaim`, `Crash` | BullMQ as the worker uses it: FIFO, delays and backoff, stalled jobs put back in front once |
| `DbFails`, `RedisFails` | a rejected call at any step, with the code's reaction: swallow, fail the job, or retry it |
| `SalesReachTrigger` | `sync-sales.handler.ts`, its effect on this session |

Abstractions.  The reads of one request before the queue are one step, as what
they test is only ever lost.  Counting a user's wins and retiring the user's
coupons are one step.  A failing Redis
call is one that had no effect.  The session has one stop job: rescheduling it belongs
to the lifecycle.  Job
priorities, the limiter of two jobs per second, TTLs of the counter key (longer than a session),
notifications and logging are left out.

### `SlotContest` – what users are promised

A ranking that only grows by one unranked coupon at a time, only while the session
is live and slots are left, and a status that changes once, to `completed` only
when full.  `CouponApply` maps its positions to that ranking (`Ranking`) and
implements it (`ContestSpec`) with one worker pod, also when that pod crashes.
With several pods it does not; the findings below say how.

### `MCCouponApply`

Up to three coupons, the first two of one user, so that slots, duplicates and the win
limit all come into play; permutations of the calls as symmetry in the runs
without liveness.

### `SessionLifecycle` – the sessions of one profile and their times

Statuses go upcoming, opening, live and then time_reached or completed.  A
threshold message makes every subscribed pod run `createSession`, which opens
the UPCOMING session and schedules its start-live job; delayed and repeatable jobs
do the rest.

| Variable | In the code |
|---|---|
| `now` | the time; `start_time` and the due times of jobs refer to it |
| `row` | status and `start_time` of the rows in `session.sessions`; `created_at` ascends with the id |
| `opener` | per session and subscribed pod, the call of `createSession` and its `currentTime` |
| `startJob`, `stopJob` | the jobs `start-live-{id}` and `stop-session-{id}`: state, due time, attempts left, stalled before |
| `pc`, `mem` | per pod, the next step of the job it runs, the session, the list of a sweep, and of the transaction the rows to lock, those found OPENING, and the row locks it holds |

| Action | Code |
|---|---|
| `ReadUpcoming`, `OpenSession`, `ScheduleStart`, `OpenerFails` | `session.service.ts:126-200`, `scheduleStartLiveJob` (`session-transition.helper.ts:361`) |
| `TakeStart`, `TakeStop`, `TakeSync`, `TakeStops` | the worker takes a job; the repeatable ones of `bullmq.module.ts:207-315` at any time |
| `CheckOpening`, `CheckOthers`, `SelectOpening`, `LockRow`, `CheckFinal`, `Commit` | `startLiveSession`, `session-transition.helper.ts:61-338`, query by query |
| `FinishStart` | `start-live.handler.ts:64-102` |
| `ListOpening`, `NextOpening` | `syncOpeningSessionsToLive`, lines 529–672 |
| `ListLive`, `ScheduleStop` | `schedule-stop-sessions.handler.ts:79-204` |
| `ReadStatus`, `MarkTimeReached` | `stop-session.handler.ts:45-111` |
| `Complete` | the write of `CouponApply`'s `CloseSession`, seen from here |
| `DbFails`, `RedisFails`, `Crash` | a rejected call with the code's reaction, a process exit with the stalled check |

Postgres is READ COMMITTED: the `SELECT … FOR UPDATE` finds its rows in one step,
then locks them one after another in the order of the query, and drops a row that
is no longer OPENING when its lock is granted.  Every update of a locked row waits.

Abstractions.  The profile stays active and its durations are valid: the early
returns for other profiles change nothing.  The first read of `startLiveSession`,
before the transaction, tests what the transaction tests first and is one step with it.
Removing a job and adding it again is one step, but a fault in it may leave the job
removed.  Repeatable jobs run at any time, which includes their periods and the extra run
after a start.  A subscribed pod handles one message per session.  Priorities,
the limiter and rotate-session (a placeholder) are left out.

### `SessionTimetable` – what is promised of the sessions of a profile

A session is opened once, with a start time that stays, goes LIVE from its moment on when no
other session is, and ends when it is full or its time is up.  There are no processes, jobs
or locks.  `SessionLifecycle` implements it (`TimetableSpec`, time as `clock`, rows as `session`)
with one subscribed process, whatever fails.  It implies `OneLivePerProfile`, `StatusMovesForward`
and that `start_time` is fixed.  Its `TimeUp` of a completed session and `FillUp` of one whose
time is up are the late writes described under "Also seen".

### `MCSessionLifecycle`

Two sessions of one profile, triggers of one time unit each.

### `SalesChannel` – the sales key and its channel

What the next three modules share: `sales` is the key `session:sales:{id}` (a missing key
reads as 0), `chan[p]` the messages of `session:sales:update` on their way to pod p.  A
seller INCRs the key and publishes the count it got; the subscriber of every pod SETs the
key to the count of each message (`Overwrite`, `redis-subscriber.service.ts:741`), so that
late messages undo later increments.  A pod that reconnects loses what was on its way.
Handlers of one pod run in the order of its connection: the SETs go out over one
connection, in the order the messages came in.

### `CouponFate` – what the buyer of a coupon without a session is promised

Each coupon is settled once: with a session, for good, or with its money.  `OrphanCoupons`
implements it (`FateSpec`) with one pod whose queries succeed, when every order has one coupon
and a listing fits in one page, so that it shows no coupon twice.

### `OrphanCoupons` – the job `process-orphan-coupons`

| Variable | In the code |
|---|---|
| `made`, `coupon` | which rows of `session_coupons` are there, and their `session_id`, `is_valid` |
| `status` | the sessions of the term, in the order of `priority_position` |
| `refunded` | the orders whose payment the gateway has returned |
| `pc`, `mem` | per pod, the next step of its run, the listing, the page offset, the coupon in hand, the session found for it and the count to publish |
| `counted`, `sold`, `faults` | history and bounds |

| Action | Code (`services/orphan-coupon.service.ts`) |
|---|---|
| `Start` | the repeatable job, `bullmq.module.ts:317-365`, on any pod |
| `ListPage` | `findOrphanCoupons`, 31–86, one page: a query of its own over `Answers`, with the offset so far; what two pages both show is kept twice |
| `NextListed`, `SkipTermless` | the loop of `processOrphanCoupons`, 815–837 |
| `FindSession` | `findUpcomingSessionsByTermId`, 219–296; none found means refund |
| `CheckSales`, `RecheckSales` | the two comparisons with the trigger, 838–908 and 304–336 |
| `Assign`, `CountSale`, `PublishSale` | the transaction, the INCR and the PUBLISH, 338–402 |
| `RequestRefund`, `MarkInvalid` | `processRefund` with `processRazorpayRefund` and `processStripeRefund`, 408–794 |
| `DbFails`, `RedisFails`, `SubscriberFails`, `GatewayFails`, `Crash` | a rejected call with the reaction of the code; the gateway's answer may be lost after it has paid |
| `Buy`, `Sell`, `Announce`, `Open` | the shop, and the lifecycle of the sessions |

Abstractions.  All coupons are of one term, or of none.  The gateway returns a payment in full
and refuses a second time, as both gateways do; it is external.  Amounts and currencies
are left out.  A run whose job fails or stalls is taken again like any other.

The listing is ordered by `created_at` and nothing else.  `Answers` are all orders of the orphans
by a given `CreatedAt`, in which coupons may share a value, and each page chooses one anew; `Buy`
lets rows become visible in any order, as a transaction that began earlier may commit later.
So rows move across the offset in both directions: a page may show a coupon again, or skip one.

### `SalesSync` – a sale's way into the database

| Variable | In the code |
|---|---|
| `sales`, `ttl` | the keys `session:sales:*`, and which of them expire |
| `offer` | a seller's count between INCR and PUBLISH |
| `status`, `row` | the sessions' rows: active, stopped, completed or missing, and `current_sales_count` |
| `pc`, `mem` | per pod, the next step of its run of `sync-sales`, what it read, the keys to delete, the sessions still to write, the batch or sample in hand |
| `made`, `faults` | history and bound |

| Action | Code (`handlers/sync-sales.handler.ts`) |
|---|---|
| `ReadKeys`, `FetchRows` | SCAN and MGET, 75–203; `findMany` and the first pass, 205–304 |
| `DeleteKey` | the keys of missing and completed sessions, 305–333 |
| `WriteBatch`, `WriteAgain`, `FinishBatches` | the batch transactions, and the items of a batch that changed nothing once more, 359–511, 589–605 |
| `GetKey`, `PutRow`, `FinishItems` | the fallback after a failed transaction, 544–588, and the verification of a sample, 596–672 |
| `Store` | `handleSalesUpdate`, `redis-subscriber.service.ts:656-771` |
| `End`, `Expire`, `Remove` | the TTL of `session-redis-ttl.util.ts`, expiry, and a row deleted by an administrator |
| `DbFails`, `RedisFails`, `SubscriberFails`, `Crash` | a rejected call with the reaction of the code |

Abstractions.  SCAN and the MGETs of its batches are one step: the run writes nothing between
them, and sessions meet in a run's locals only.  A transaction is one step.  What
SCAN's order and the random sample choose is any set of the right size (`Some`).

### `SessionCreation` – a threshold and the profile's next session

| Variable | In the code |
|---|---|
| `status` | the rows of `sessions` of one profile, up to OPENING |
| `announced` | the sessions whose threshold message was published |
| `count`, `active` | `session_profiles.sessions_count`, `is_active` |
| `enabled`, `flag` | the taxonomy term, the key `taxonomy:{term}:sales_disabled` |
| `creation` | `isCreated` in `session:creation:pending:{profile}:{session}` |
| `pc`, `seen`, `tries` | per call of `createSession`, its next step and the count it read; the attempts of a job |
| `next`, `faults` | history and bound |

A task is one call of `createSession`: by the subscriber of a pod (`session.service.ts:100`)
or by a job `threshold-reached` (`services/session-creation.service.ts:47`), which are
two versions of one procedure.

| Action | Code |
|---|---|
| `ReadProfile`, `ReadExisting`, `OpenExisting` | `session.service.ts:100-202`, `session-creation.service.ts:47-100` |
| `CreateNext`, `RefuseNext`, `Increment` | `session.service.ts:203-271`, `session-creation.service.ts:101-151` |
| `DisableTerms`, `SetFlag` | `disableSalesForProfile`, `session.service.ts:280-393` |
| `MarkPending`, `MarkCreated`, `MarkFailed` | `threshold-reached.handler.ts:88-168` |
| `Announce` | the shop publishes, every subscriber hears it, `redis-subscriber.service.ts:558-648` |
| `Enqueue` | a producer of the job; nothing under `src/` is one, though the subscriber logs "Queued threshold-reached job" |
| `DbFails`, `RedisFails`, `MessageLost`, `Crash`, `CrashWorker` | failing calls, a subscriber that reconnects, a pod that stops |
| `Deactivate` | the administrator |

Abstractions.  One term per profile.  The schedule of the session that is opened belongs to
`SessionLifecycle`.  The flag's TTL of 30 days and the TTL of the status key are left out.

### `SocketGateway` – connections, and the counts on the screens

| Variable | In the code |
|---|---|
| `link`, `home`, `token`, `check` | a socket, its pod, what it presents, the next query of its validation |
| `user`, `room`, `count` | `client.user`, the room of the term, `connectionCount` of each pod |
| `revoked`, `barred` | the token blacklist, and users who are inactive, deleted or blocked, written by the shop |
| `request`, `found`, `seen` | a request for the term's sales, the session and count it has read |
| `emitting`, `relay`, `shown` | messages stored and to be broadcast, broadcasts between pods, what each client shows |
| `upcoming`, `term`, `offer` | the sessions of the term, the term's row, counts to be published |
| `made`, `barredAtConnect`, `asked`, `events` | history and bounds |

| Action | Code |
|---|---|
| `Connect`, `HandleDisconnect` | `socket.gateway.ts:50-80`, 118–122 |
| `CheckJti`, `CheckToken`, `CheckUser` | `validateToken`, `auth/jwt-auth.service.ts:55-207`, query by query, and what `handleConnection` does with its result |
| `Ask`, `JoinRoom` | `handleSessionSales`, `socket.gateway.ts:156-252` |
| `ReadTerm`, `ReadSessions`, `GetCount` | `buildSalesSnapshot`, `taxonomy-sales.service.ts:41-206`; `getSalesCount` |
| `StoreSale`, `Broadcast`, `Deliver` | `handleSalesUpdate`, `broadcastSalesCountUpdate` (299–340), the Socket.IO Redis adapter |
| `QueryFails`, `GetFails`, `SetFails`, `SubscriberFails`, `RelayFails` | a rejected call, a lost message, with the reaction of the code |
| `Bar`, `Change`, `Sell`, `Publish` | the shop, the lifecycle of sessions and the administrator |

Abstractions.  One term, one token per user.  The verification of a JWT is the library's: a
token verifies or is `BadToken`.  Clients show the last count they got.  A pod that stops takes
its sockets with it, so pods do not crash here.  Percentages, the participant update and ping
keep no state.

### `MCOrphanCoupons`, `MCSalesSync`, `MCSessionCreation`, `MCSocketGateway`

Model values and, for the orphans, three orders of which one cannot be paid back, a coupon
without an order, and two functions for `created_at`, one of which is the same for two coupons; for the sockets, two placements (both on one pod, or on one each) and
three handshakes: a good token behind a source that has none, a bad token before a
good one, and nothing.

## 3. What TLC checks

Passing runs (all of the reachable states of the instance are explored):

| Run | Instance | Shows |
|---|---|---|
| `one_pod` | 1 pod, 3 coupons, 3 calls, 2 slots, win limit 1, ≤ 2 crashes | `TypeOK`, `PositionsDense`, `CompletedMeansFull`, `WinsWithinLimit`, refinement `ContestSpec`; as long as nothing has crashed also `FirstComeFirstServed`, `BooksBalance` |
| `one_pod_errors` | 1 pod, 3 coupons, 3 calls, 2 slots, win limit 2, ≤ 2 faults of any kind | `SlotsRespected`, `OutcomeIsFinal` |
| `fleet` | 2 pods, 2 coupons of two users, 2 calls, 2 slots, ≤ 1 crash, fair | `RewardsSound`, `ParticipantsNeverOvercount`, `ClosedStaysClosed`; without a crash `WinnerIsRewarded` |
| `one_pod_decided` | 1 pod, 3 coupons, 2 calls, 1 slot, ≤ 2 crashes, fair | `RequestIsDecided` |
| `lifecycle_fleet` | 2 sessions, 2 pods of which one is subscribed, times 0–2, no fault | `TypeOK`, `OneLivePerProfile`, `NoLockCycle`, `KeepsSchedule`, refinement `TimetableSpec` |
| `lifecycle_progress` | 2 sessions, 1 pod, times 0–1, ≤ 1 fault of any kind, fair | `OpeningGoesLive`, `LiveEnds` |
| `orphan_one_pod` | 1 pod, 4 coupons, 2 sessions, a sale by the shop, two coupons with one `created_at`, page size 4, trigger 1, ≤ 1 Redis fault | `CountsEveryAssignment`, refinement `FateSpec` |
| `orphan_fleet` | 2 pods, 2 coupons, 1 session, page size 1, ≤ 1 fault of any kind, fair | `TypeOK`, `InvalidMeansRefunded`, `OrphanIsSettled`; without a fault `NoAssignmentUncounted` |
| `sales` | 2 pods, 1 seller, 1 session, 2 sales, ≤ 1 fault of any kind, fair | `TypeOK`, `NeverOvercounts`, `ActiveKeysStay`, `EventuallyInSync` |
| `creation` | 1 pod and a job with 2 attempts, 2 sessions that reach the trigger, limit 2, ≤ 1 fault of any kind, fair | `TypeOK`, `CountsEveryRow`, `AnswersAreTrue`, `ThresholdIsAnswered` |
| `socket` | 2 pods, 2 sockets, 1 user, 1 sale, 1 request, ≤ 1 event of any kind, fair | `TypeOK`, `NeverShowsUnsold`, `AdmittedOnly`, `NeverCountsMore`, `PublishedIsShown` |

### Bounds

*Coupons against slots.*  Three coupons against two slots give a winner, the last winner and a
refused coupon.  Three calls give a duplicate next to a competitor, or three competitors.
Two crashes cover a job that stalls twice and is given up.  A lookup window of 1
makes the duplicate lookup miss a job.  A batch of 1 makes the expire job loop.
Two pods suffice for every race between two handlers, the only kind the code's
shared rows and keys allow: each hazard is one write that invalidates one read.
`MaxFaults`, the calls and the coupons bound the behaviours; no counter of the
code is cut off.

*Lifecycle.*  Two sessions are what the lock and the "only one LIVE" rule decide between.
Times 0–2 let a session opened at 0 go LIVE at 1 and end at 2, and one opened later
overlap it.  Times past `MaxNow` count as `MaxNow`, so that everything scheduled
becomes due and handlers of all kinds overlap, with times 0–1 too.  The fleet run
has no faults, which would multiply its states; for the properties it checks
the theorems of section 4 admit any faults, and `lifecycle_progress` has one of every kind.

*Orphans.*  Four coupons: one that can be refunded or assigned, a second one, one whose order
cannot be paid back, one without term and order.  In `orphan_fleet` a page of 1 makes the listing take
several queries, between which rows leave it and join it in any order, so that a page repeats one
coupon or skips the other.  In `orphan_one_pod` a page holds all coupons, which is the hypothesis
of its properties (the code's page is 50), and two coupons share their `created_at`.  A trigger of 1 is reached by one
assignment or one sale.  Two coupons on two pods give each run one coupon the
other is at, or both the same.

*Sales.*  Two sales make a message late by one increment; two pods and a seller let a SET, an
INCR and a run overlap.  Sessions do not interact but through the
batches, and the theorems of section 4 are for any number of them.

*Creation.*  With limit 2 and two thresholds the first creation fills the profile and the second
disables the sales, or both count past the limit.  A task creates at most once per attempt, and
seven session ids are more than the tasks can create, so no creation is held up by that bound.

*Sockets.*  Two sockets of one user are two tabs: on one pod or on two.  One sale is a count that
travels over every path at once, and a snapshot that is older or newer than it.  With two
requests (`MaxAsked` 2) the run also passes, in 204 s; with two sales the invariants hold as well
(7.6 million states).

### Fairness

`CouponApply`: a running pod goes on with its handler and takes waiting
jobs (the BullMQ worker loop), delayed jobs are promoted, the stalled check
reclaims jobs, and a request that passed validation goes on.  No fairness makes a
user send a request or a fault happen.  `WinnerIsRewarded` is claimed
without crashes, since the handler writes coupon and reward separately and a job
cut off in between is not repeated to completion: the coupon is taken as used.

`SessionLifecycle`: time passes, and a handler that has begun goes on
(weak).  An idle worker chooses among waiting jobs, and choosing one disables the
others, so taking a stop job, a sync and a stop sweep is strongly fair: BullMQ repeats the
sweeps and hands out every waiting job in turn.  Taking a start-live job needs no
fairness: `OpeningGoesLive` holds by the sync alone, which is what the code's
"fallback" is for.  Nothing makes a message arrive or a fault happen.

`OrphanCoupons` and `SalesSync`: the job repeats, every five minutes or every period, on some
pod; a run that has begun goes on; a subscriber handles what it receives.  No pod in particular
has to take the job, so `OrphanIsSettled` and `EventuallyInSync` do not rest on a run of the pod
that left something behind.

`SessionCreation`: a call that has begun goes on.  `SocketGateway`: a connection delivers, and a
broadcast, which is one synchronous call, happens.  Clients need do nothing.

### What each property notices

Every property has a mutant in `PROJECT.json`, one of the "wrong variants" in its module.
Under the run's own configuration TLC finds the property violated:

| Module | Wrong variant → property |
|---|---|
| `CouponApply` | `ApplyJobRetried` → `TypeOK`, `NeverOutOfSync` → `PositionsDense`, `LastSlotOffByOne` → `CompletedMeansFull`, `AtMaxWinsOffByOne` → `WinsWithinLimit`, `LastInFirstOut` → `FirstComeFirstServed`, `LastSlotMissed` → `BooksBalance`, `OpenUnlessCompleted` → `ContestSpec`, `UnusedIgnoresApplied` → `OutcomeIsFinal`, `FullOffByOne` → `SlotsRespected`, `StopWhateverStatus` → `ClosedStaysClosed`, `AppliedUnchecked` → `RewardsSound`, `PositionAsCount` → `ParticipantsNeverOvercount`, `RewardOffByOne` → `WinnerIsRewarded`, `WaitForSlot` → `RequestIsDecided` |
| `SessionLifecycle` | `FourAttempts` → `TypeOK`, `EndTimeFromOpening` → `KeepsSchedule`, `NeverLocked` → `OneLivePerProfile`, `Unsorted` → `NoLockCycle`, `OpenedSometime` → `TimetableSpec`, `OtherStarted` → `OpeningGoesLive`, `NextStopOffByOne` → `LiveEnds` |
| `OrphanCoupons` | `OrphanIfInvalid` → `FateSpec`, `OrphanIfAssigned` → `CountsEveryAssignment`, `CountSaleIfUpcoming` → `NoAssignmentUncounted`, `NextListedStopsEarly` → `OrphanIsSettled`, `GatewayFailsUnheard` → `InvalidMeansRefunded`, `CountSalePublishesOld` → `TypeOK` |
| `SalesChannel` | `OverwriteAdds` → `NeverOvercounts`, `NeverShowsUnsold` |
| `SalesSync` | `GoneNever` → `TypeOK`, `RemovableInSync` → `ActiveKeysStay`, `IfHigher` → `EventuallyInSync` |
| `SessionCreation` | `RetriedForEver` → `TypeOK`, `CountRead` → `CountsEveryRow`, `LimitOffByOne` → `AnswersAreTrue`, `NeverDisables` → `ThresholdIsAnswered` |
| `SocketGateway` | `BelowZero` → `TypeOK`, `ByJtiOnly` → `AdmittedOnly`, `KeepsCounting` → `NeverCountsMore`, `LocalOnly` → `PublishedIsShown` |

### Finding

| Run | What happens |
|---|---|
| `fleet_slots` | Two pods apply two coupons to one slot: the counter sync of `apply-coupon.handler.ts:189-201` sets the counter back to a count read before the other pod's increment. `src/docs/COUPON_MODULE_GUIDE.md:26,1045` promises that no race exists. |

### Also seen

Without a run of its own; the properties named here are defined in the modules and TLC
violates them when they are added to a configuration.

* With two pods the second job overtakes the first and gets the lower position
  (`session.worker.ts:263`), although the guide says (`COUPON_MODULE_GUIDE.md:986`) "First request in queue
  = first processed".
* `expire-session-coupons.handler.ts:181` updates by id what a query at 163 found unused: a
  coupon applied in between by another pod loses its win (`OnlyUnusedExpire`).
* `stop-session.handler.ts:80` updates a status read at 47: a session completed in between
  becomes TIME_REACHED, and then its coupons are never expired (`OnlyLiveIsStopped`).  That is all the
  two can do: `ClosedStaysClosed` says of any number of pods that the session is not LIVE again, and
  that only handlers which had read LIVE write once more.  The job
  writes TIME_REACHED; its comment (22) says COMPLETED.
* The win limit is compared at `apply-coupon.handler.ts:151-182` with wins counted before the coupon is
  updated: two pods that run two jobs of one user both pass it and both win (`WinsWithinLimit`).
* With two subscribed pods both receive the threshold message.  If the slower one is held up
  between the read at `session.service.ts:129` and the update by id at 149 until the start
  trigger has passed, it resets the LIVE session to OPENING.  The same stale write, in the
  gap between `SELECT` and lock of another start, also lets two sessions be LIVE.  That is why
  the fleet run and all but the first of the lifecycle theorems take one subscribed process as hypothesis;
  with `Subscribers = {p1, p2}` in `LifecycleFleet.cfg` TLC finds the stale write (it reports
  `KeepsSchedule` first, as `start_time` moves).
* With one pod, a sync of the counter that fails after a crash lets a handler skip a position, and the
  next sync, which sets the counter to the number of applied coupons, then has a position handed
  out twice.  So `PositionsDense` is claimed under crashes only, whereas `SlotsRespected` survives
  every fault, as the counter is never too low.  With `max_slots` 0 the counter is never synced.
* Two subscribed pods create two next sessions for one threshold, past `max_sessions` too
  (`SessionsWithinLimit`).  A message lost, or a database error, leaves the profile without a next
  session (`NoSessionLost`), although `src/docs/SESSION_CREATION_FLOW.md:184` says "No sessions lost
  even under failures!".  The key that disables sales is one per term, whatever other profiles
  sell there.
* `sync-sales.handler.ts:25,28,34` say the row is updated only if the Redis count is higher; it is
  written whenever they differ, and a run that read earlier lowers it (`OnlyRaises`) until the next.
* The orphan job compares the sales with the trigger before it assigns, and two pods, or a late
  SET, let a session have more coupons than the trigger (`AssignedWithinTrigger`).  A failing search for
  sessions is taken for none, and the coupon is refunded.
  With more orphans than a page holds, one pod and no fault are enough for a coupon to be listed twice, when
  a row joins before the offset between two pages (`orphan-coupon.service.ts:60-62`): it is assigned
  twice and counted twice (`CountsEveryAssignment`), or refunded and then assigned all the same, as `Assign`
  writes by id (`FateSpec`).  With `BatchSize` 1 in `OrphanOnePod.cfg` TLC finds both.  Of coupons
  with one `created_at` the pages of every run may show the same one, which the gateway refuses, and
  skip the other: hence `Alone` in `OrphanIsSettled`.  Of several coupons of one order the
  first refund takes the whole payment, and the others stay open.
* `connectionCount` is decremented for every socket that goes, also for those never counted, so that it
  falls below the number of authenticated sockets (`CountsAuthenticated`; `socket.gateway.ts:376`
  logs it as their number).  A socket that leaves during its validation is counted for ever.
  A token revoked after the connection stays valid for it.
* A snapshot is read before the socket joins the room: a broadcast in between is missed.  It is
  also sent to the user's other sockets, which may then show an older count.  A client gets each
  update once per pod.

## 4. What TLAPS proves

All theorems assume `ConstantsAssumption` of their module (types of the constants, which TLC
evaluates in every run), and the hypotheses named here.

Those about `CouponApply` hold for any finite set of coupons, any users, calls, limits, batch
sizes and bounds on faults.

`CouponApplyProofs`, any number of pods and any faults:

* `TypeCorrect`: `Spec => []TypeOK`.  `TypeOK` is not inductive: the handlers use
  `job[p].coupon`, so `TypeInv` adds that a pod at a step of the apply handler runs
  an apply job and that an admitted call names a coupon.
* `RewardsAreSound`: at most one reward, for an applied coupon only.  Strengthening
  `RewardInv`: a pod about to create a reward is the only one to do so for
  its coupon, which is applied and not rewarded yet.  The update that leads there
  is conditional on `applied_at` being null, which is the whole argument.
* `NeverOvercounted`: `CountInv` says that the count a handler has read is at most
  the number of applied coupons, and less once its own coupon is applied.
* `ClosedForGood`: `Spec => ClosedStaysClosed`.  An action property that needs no more than `TypeInv`: the
  read of the status is the only way into the steps `Applying` and `Ending`, every step that applies a
  coupon or writes the status leaves them, and none writes LIVE.

`CouponApplyOnePodProofs`, `\A p, q \in Pods : p = q`, any faults:

* `OutcomesAreFinal`: `StatusInv`, the session is LIVE from the read of the status to the write
  that relies on it; `FreshInv`, from validation to update the coupon stays
  unapplied, no handler has to revert, and a batch found unused stays unused.
* `WinsLimited`: `WinsInv`, past its check of the wins the user is below the limit.
* `SlotsNeverOverfilled`: `SlotsInv`, the Redis counter is never below the number of
  applied coupons, and a granted position is above that number and within the slots.

* `FirstServed`: `Spec => []FirstComeFirstServed`; the property says nothing once something has
  failed.  A coupon is `Settled` when it is applied or can never be (`Doomed`: invalid, its user at
  the win limit, the session closed or full), and settled for good (`LimitsApproach`).
  `LineInv`: a coupon that has come and is not settled is in hand or in the queue, and nobody who came
  later is applied, in hand, or ahead of it; `ArrivalsInv`: whatever is queued, in hand or applied has
  come, once.  A handler settles its coupon by whichever exit it takes (`HandlerInv`), and the
  position it is given lies above all others (`CounterInv`, the counter is the number of applied
  coupons, one more between Lua script and update).
* `BooksAreBalanced`: `Spec => []BooksBalance`.  `BooksInv`: the count a handler read from the session's row
  is still there when it writes; the row is one coupon behind from the update to
  that write and at no other time; a winner without a reward is in the hands of its handler.

`CouponApplyContestProofs`, one pod, `Faults \subseteq {"crash"}`, `MaxSlots > 0`:

* `PositionsAreDense`, `CompletedIsFull`: `DenseInv`, the counter equals the number of
  applied coupons when a handler asks for a position, the granted position is the next
  one, and positions are distinct.  The sync of the counter restores the equality
  after a crash between increment and update; with failing calls, or with
  `MaxSlots = 0`, it is not restored, which is why these are hypotheses.
* `ImplementsContest`: `Spec => ContestSpec`.  `ByPositionIsSeq` turns a set of coupons
  with distinct positions 1..n into the ranking; the conditional update is a `Rank`
  step, the last slot's `CloseSession` a `Complete` step, `MarkTimeReached` a `TimeUp`
  step, all others stutter.

These proofs share two lemmas that keep them short: `CalmSteps` (most actions touch
nothing the reward and count invariants mention) and `BackgroundCalm` (what happens
outside a handler leaves a running handler's facts alone).

`SessionLifecycleProofs`, any number of sessions and processes, any times and faults; all
but the first for one subscribed process (`OneSubscriber`):

* `TypeCorrect`: `TypeInv` adds that a sweep under way has a next session.
* `OneLive`: `Spec => []OneLivePerProfile`.  `SafeInv` says that row locks are disjoint
  and the first listed row stays OPENING while it is locked (`LocksHeld`); that past its
  first check a transaction's session is no longer UPCOMING (`OpenedBefore`); and that
  of two transactions which have both selected and may both still start their session,
  one has the other's session among its rows (`SeeEachOther`), since whichever selects
  later finds the other's session OPENING.  Two transactions about to commit would both hold
  that row (`OneCommits`), so the last check for another LIVE session is still true
  when the commit comes (`NoneLive`).
* `OnlyForward`: `Spec => StatusMovesForward`, from the same invariant.
* `NothingEarly`: `Spec => KeepsSchedule`.  `ScheduleInv` says that a waiting or active job
  has the due time of its session, and an active one is past it (`StartsDue`, `StopsDue`);
  that a worker has its start or stop job to itself (`Owns`); and that the sessions a sweep
  has still to visit are due, or carry their right end times (`Visits`).  All of it needs
  that `start_time` no longer changes once a session is opened (`RowsStayStable`), which
  `OpenedBefore` gives.  A fault never makes a job active or moves its due time (`Fewer`).
* `NeverInACircle`: `Spec => []NoLockCycle`.  `LocksInOrder`: a transaction's rows are opened, its list is in
  the order of `start_time` and id, and what it holds comes before what it still wants.  In
  a circle, the process whose next row comes last (there is one even among infinitely many
  processes, as there are finitely many rows: `LastSession`) waits for one that holds that row
  and wants a later one.  It rests on `start_time` being fixed once a session
  is opened; if a late message could move it, two lists might disagree.
* `ImplementsTimetable`: `Spec => TimetableSpec`.  `TimetableStep`: `OpenSession` is an `Open` step with a start
  time not in the future (`StartsKnown`), `Commit` a `GoLive` step, for `NoneLive` and `StartsDue` say that
  it is alone and in time, `Complete` a `FillUp` step, `MarkTimeReached` a `TimeUp` step; all others
  stutter.

The steps fall into five kinds (`RestSafe`, `LeavesSafe`, `ContinueSafe`, `OpenSafe`,
`CommitSafe`) and the two of the lock, so that each action needs only its kind shown.

`OrphanCouponsProofs`, any coupons, orders, sessions and any `created_at`.  Any number of pods, any
page size and any faults:

* `TypeCorrect`: `LoopOK` adds that a pod in the loop has a coupon, and from the check to the
  message a session.
* `NoneLosesMoney`: `Spec => []InvalidMeansRefunded`.  `RefundInv` adds that a pod about to mark a coupon
  has seen its order paid back; payments are never taken again.
* `NoneUncounted`: `Spec => []NoAssignmentUncounted`.  `UncountedInv`: the coupons of a session are at most
  the increments made and the increments due, of which there is one for each pod between
  transaction and INCR.  Assigning a coupon again adds one due and no coupon.

With one pod and a page that holds all coupons (`OnePage`):

* `AssignmentsCounted`: `Spec => []CountsEveryAssignment`.  Like `NoneUncounted` it says nothing once something
  has failed, when the increment of a run cut off after its transaction is lost.  `OrphanInv` says that what
  the run has listed and the coupon in its hands are still orphans, which a second pod or a repeat would
  break; then `Assign` takes a coupon that had no session, and adds one assignment and one increment due.
* `ImplementsFate`: `Faults \subseteq {"redis"}` and one coupon per order.  `FateInv` adds that a coupon whose
  order has been paid back has no session and is invalid, or about to be marked so.  A crash, a
  database error or a lost answer between refund and mark leaves a refunded coupon
  among the orphans, which the next run may assign: hence the hypothesis.

Both rest on the lemmas `CountedUnlessRepeated` and `FateUnlessRepeated`, which for any page size
conclude the same from `Spec /\ []NoRepeats`: what a run has listed, with the coupon in its hands, has
no coupon twice.  `OnePageRepeatsNone` derives that from `OnePage`: when the run asks for its second page, at an
offset of `BatchSize`, there is nothing left to show, so the first page, which repeats none, is all it lists.

`SalesSyncProofs`, any number of pods, sellers and sessions, any faults:

* `TypeCorrect`; `MemOK` adds that what a run has still to write, and what it looks at
  again, was found in its read, and that an idle pod has nothing left to write.
* `ActiveKeysKept`: `Spec => ActiveKeysStay`.  `EndedInv`: keys to be deleted and keys with a TTL are of
  sessions that have ended, and a session that has ended never becomes active again.
* `NoneOvercounted`: `Spec => []NeverOvercounts`.  `SoldInv`: every copy of a count, in a seller's hands, in a
  message, in what a run has read, is at most the sales made.

`SessionCreationProofs`, any number of pods, sessions and attempts, any faults:

* `TypeCorrect`; `TypeOK` needs that a job under way has used an attempt, which `CreationInv` says.
* `TrueAnswers`: `Spec => []AnswersAreTrue`.  `CreationInv`: what a call has read is at most the count, which
  never falls; past a refusal the limit is reached; a call past its creation has
  a session to show.
* `EveryRowCounted`: `Spec => []CountsEveryRow`.  `CountInv` keeps the calls about to increment a finite
  set, which they are though pods may be infinitely many.

`SocketGatewayProofs`, any number of pods and users, any events:

* `TypeCorrect`; `TypeOK` is inductive.
* `OnlyAdmitted`: `Spec => []AdmittedOnly`.  `AdmitInv`: a socket that was barred when it connected, and is
  still being validated, will be refused by one of the queries to come (`WillRefuse`), as entries
  of the blacklist and barred users stay.
* `NoneCountedTwice`: `Spec => []NeverCountsMore`, inductive beside `AdmitInv`, for finitely many sockets.
* `NothingUnsoldShown`: `Spec => []NeverShowsUnsold`.  `SoldInv`, as in `SalesSyncProofs`, over messages, relays
  and requests.

Every safety and action property that a passing run checks is stated by one of these theorems.  Only
model-checked are the liveness properties, as ENABLED and fairness are out of the prover's
reach: `RequestIsDecided`, `WinnerIsRewarded`, `OpeningGoesLive`, `LiveEnds`, `OrphanIsSettled`,
`EventuallyInSync`, `ThresholdIsAnswered` and `PublishedIsShown`.

## 5. What is not modelled

* Functions without a caller: `processCouponApplication`, `applyCouponWithRedisAtomic`,
  `getTotalSalesCountForTermId`, `isSalesThresholdReachedForTermId`.  Those that only read for a
  response: `getCouponStatus`, `getActiveSessions`.
* Coupon codes are random numbers and `node:crypto`.  Rate limiting is a configured library that
  lets requests pass when Redis fails.  The HTTP guard runs `validateToken` once per request and
  keeps nothing.
* Amounts, currencies and percentages; the checks of a message's form.
* Configuration, logging, metrics, health, and the HTTP, socket and gateway transports are I/O.
* In `SessionLifecycle`, profiles that become inactive and the priority of start-live jobs; the
  placeholder `rotate-session`, which does nothing.

## 6. What could follow

Abstract specifications of `SalesSync` (a count that only rises) and `SessionCreation` (one next
session per threshold) under the hypotheses they need; weaker hypotheses for theorems that take
one pod although only some handlers must not overlap; the composition of `SessionCreation` with
`SessionLifecycle` through the session it opens.
