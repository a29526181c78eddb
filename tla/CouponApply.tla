---------------------------- MODULE CouponApply ----------------------------
(***************************************************************************)
(* The competition for the reward slots of one LIVE session.               *)
(*                                                                         *)
(* Requests reach any pod's HTTP API (CouponService.applyCoupon), which    *)
(* validates them and puts an apply-coupon job on the shared BullMQ queue  *)
(* session-jobs.  Every pod runs one session worker with concurrency 1     *)
(* (session.worker.ts); k8s/deployment.yaml starts three pods, so jobs of  *)
(* one session may run at the same time in different pods.  A worker takes *)
(* a job and runs its handler; every await of the handler that reads or    *)
(* writes Postgres or Redis is one step here, so other pods interleave.    *)
(*                                                                         *)
(* Jobs of one session: apply-coupon, stop-session, expire-session-coupons.*)
(***************************************************************************)
EXTENDS Integers, Sequences, FiniteSets

CONSTANTS
  Coupons,       \* coupons linked to the session (session_coupons.session_id)
  Users,         \* users holding them
  Owner,         \* Owner[c] is the coupon's user_id
  Pods,          \* worker processes consuming session-jobs
  Calls,         \* API calls; each is used once, which bounds the requests
  None,          \* model value: no job, no coupon
  MaxSlots,      \* session_profiles.max_slots, 0 = unlimited
  MaxWins,       \* MAX_SESSION_COUPON_APPLY, 0 = not configured
  Invalidate,    \* COUPON_INVALIDATE === 'true'
  Window,        \* how many queued jobs the duplicate lookup inspects
  BatchSize,     \* coupons expired per batch
  Faults,        \* the faults of this instance: "crash", "db", "redis"
  MaxFaults      \* bound: how many faults happen in a behaviour

ASSUME ConstantsAssumption ==
  /\ IsFiniteSet(Coupons)
  /\ Owner \in [Coupons -> Users]
  /\ None \notin Coupons
  /\ MaxSlots \in Nat /\ MaxWins \in Nat /\ Invalidate \in BOOLEAN
  /\ Window \in Nat /\ BatchSize \in Nat \ {0}
  /\ Faults \subseteq {"crash", "db", "redis"} /\ MaxFaults \in Nat

VARIABLES
  session,   \* the row in session.sessions
  coupon,    \* rows of session.session_coupons
  reward,    \* reward[c]: rows of session.session_rewards for coupon c
  counter,   \* the Redis key session:applied:{id}; a missing key reads as 0
  queue,     \* waiting jobs of session-jobs, first in, first out
  delayed,   \* jobs waiting for their delay or their retry backoff
  expireId,  \* whether a job with id expire-session-{id} was ever added
  arrivals,  \* history: coupons in the order their first job was queued
  call,      \* API calls in progress
  pc,        \* pc[p]: the next step of the handler pod p is running
  job,       \* job[p]: the job it is running
  mem,       \* mem[p]: what the handler has read and still uses
  orphan,    \* orphan[p]: the job a crash left active until BullMQ reclaims it
  faults     \* how many faults have happened

db      == <<session, coupon, reward>>
jobs    == <<queue, delayed, expireId, arrivals>>
worker  == <<pc, job, mem, orphan>>
vars    == <<db, counter, jobs, call, worker, faults>>

(***************************************************************************)
(* Data                                                                    *)
(***************************************************************************)
SessionStatuses == {"live", "completed", "time_reached"}
CouponStatuses  == {"issued", "winner", "applied_late", "expired"}

\* applied_at, position and is_redeemed are written together, never apart.
CouponRows == [applied: BOOLEAN, position: Int, valid: BOOLEAN, status: CouponStatuses]

ApplyJobs == [kind: {"apply"}, coupon: Coupons, attempts: 1..1, stalled: BOOLEAN]
OtherJobs == [kind: {"stop", "expire"}, coupon: {None}, attempts: 1..3, stalled: BOOLEAN]
Jobs      == ApplyJobs \cup OtherJobs

StopJob     == [kind |-> "stop", coupon |-> None, attempts |-> 3, stalled |-> FALSE]
ExpireJob   == [kind |-> "expire", coupon |-> None, attempts |-> 3, stalled |-> FALSE]

\* The handler's locals: session.current_participant_count as it was read,
\* the count of applied coupons, the position Redis granted, the batch to expire.
Mem   == [participants: Nat, count: Nat, position: Int, batch: SUBSET Coupons]
Fresh == [participants |-> 0, count |-> 0, position |-> 0, batch |-> {}]

ApplySteps == {"session", "coupon", "wins", "count", "get", "set", "slot", "update",
               "revert", "reward", "rewins", "close", "enqueue"}
OtherSteps == {"stop.read", "stop.write", "expire.read", "expire.find", "expire.write"}

Applied == {c \in Coupons : coupon[c].applied}
Winners == {c \in Applied : coupon[c].status = "winner"}
Wins(u) == Cardinality({c \in Winners : Owner[c] = u})

\* updateMany of the user's valid, unredeemed coupons to is_valid = false.
Retired(u) ==
  [c \in Coupons |-> IF Owner[c] = u /\ ~coupon[c].applied
                     THEN [coupon[c] EXCEPT !.valid = FALSE]
                     ELSE coupon[c]]

TypeOK ==
  /\ session \in [status: SessionStatuses, participants: Nat, salesMet: BOOLEAN]
  /\ coupon \in [Coupons -> CouponRows]
  /\ reward \in [Coupons -> Nat]
  /\ counter \in Int
  /\ queue \in Seq(Jobs)
  /\ delayed \subseteq Jobs
  /\ expireId \in BOOLEAN
  /\ arrivals \in Seq(Coupons)
  /\ call \in [Calls -> [stage: {"new", "admitted", "unique", "over"}, coupon: Coupons \cup {None}]]
  /\ pc \in [Pods -> {"idle"} \cup ApplySteps \cup OtherSteps]
  /\ job \in [Pods -> Jobs \cup {None}]
  /\ mem \in [Pods -> Mem]
  /\ orphan \in [Pods -> Jobs \cup {None}]
  /\ faults \in 0..MaxFaults

Init ==
  /\ session \in [status: {"live"}, participants: {0}, salesMet: BOOLEAN]
  /\ coupon = [c \in Coupons |->
                 [applied |-> FALSE, position |-> 0, valid |-> TRUE, status |-> "issued"]]
  /\ reward = [c \in Coupons |-> 0]
  /\ counter = 0
  /\ queue = <<>>
  /\ delayed = {StopJob}          \* schedule-stop-sessions has seen the LIVE session
  /\ expireId = FALSE
  /\ arrivals = <<>>
  /\ call = [k \in Calls |-> [stage |-> "new", coupon |-> None]]
  /\ pc = [p \in Pods |-> "idle"]
  /\ job = [p \in Pods |-> None]
  /\ mem = [p \in Pods |-> Fresh]
  /\ orphan = [p \in Pods |-> None]
  /\ faults = 0

(***************************************************************************)
(* Wrong variants of the definitions below, each the slip a change to the  *)
(* code could make; README.md says which property notices which.           *)
(***************************************************************************)
ApplyJobRetried(c)      == [kind |-> "apply", coupon |-> c, attempts |-> 3, stalled |-> FALSE]
AtMaxWinsOffByOne(u)    == MaxWins > 0 /\ Wins(u) > MaxWins
LastInFirstOut(j)       == <<j>> \o queue
NeverOutOfSync(p)       == FALSE
FullOffByOne            == MaxSlots > 0 /\ counter > MaxSlots
WaitForSlot(p)          == FALSE
LastSlotOffByOne(p)     == MaxSlots > 0 /\ mem[p].position >= MaxSlots - 1
LastSlotMissed(p)       == MaxSlots > 0 /\ mem[p].position > MaxSlots
RewardOffByOne(pos)     == IF MaxSlots = 0 \/ pos < MaxSlots THEN "reward" ELSE "close"
AppliedUnchecked(c)     == TRUE
PositionAsCount(p)      == mem[p].position
OpenUnlessCompleted     == session.status # "completed"
StopWhateverStatus      == TRUE
UnusedIgnoresApplied    == {c \in Coupons : coupon[c].valid}

(***************************************************************************)
(* The definitions the variants above stand in for.                        *)
(***************************************************************************)
ApplyJob(c) == [kind |-> "apply", coupon |-> c, attempts |-> 1, stalled |-> FALSE]

AtMaxWins(u) == MaxWins > 0 /\ Wins(u) >= MaxWins

\* Jobs are added without lifo or priority ("Process in FIFO order"), so BullMQ puts
\* them behind the others.
Queued(j) == Append(queue, j)

\* Redis and the database disagree on the number of applied coupons.
OutOfSync(p) == counter # mem[p].count

\* The test of the Lua script.
SlotsFull == MaxSlots > 0 /\ counter >= MaxSlots

LastSlot(p) == MaxSlots > 0 /\ mem[p].position = MaxSlots

IsWinner(pos) == MaxSlots = 0 \/ pos <= MaxSlots

AfterUpdate(pos) == IF IsWinner(pos) THEN "reward" ELSE "close"

\* The condition applied_at: null of the update.
NotYetApplied(c) == ~coupon[c].applied

CountAfter(p) == mem[p].participants + 1

SessionOpen == session.status = "live"

ShouldStop == session.status = "live"

Unused == {c \in Coupons : coupon[c].valid /\ ~coupon[c].applied}

(***************************************************************************)
(* The API: CouponService.applyCoupon                                      *)
(***************************************************************************)

\* Every check before the queue passes.  The reads are one step: what they test is
\* only ever lost, so a call that passes them one by one would pass them at once.
Admit(k, c) ==
  /\ call[k].stage = "new"
  /\ coupon[c].valid /\ ~coupon[c].applied
  /\ ~AtMaxWins(Owner[c])
  /\ session.status = "live"
  /\ call' = [call EXCEPT ![k] = [stage |-> "admitted", coupon |-> c]]
  /\ UNCHANGED <<db, counter, jobs, worker, faults>>

\* The user has won often enough: 409, after retiring the remaining coupons.  Count
\* and updateMany are one step: a handler in between meets the same win limit.
RefuseMaxWins(k, c) ==
  /\ call[k].stage = "new"
  /\ coupon[c].valid /\ ~coupon[c].applied
  /\ AtMaxWins(Owner[c])
  /\ coupon' = IF Invalidate THEN Retired(Owner[c]) ELSE coupon
  /\ call' = [call EXCEPT ![k] = [stage |-> "over", coupon |-> c]]
  /\ UNCHANGED <<session, reward, counter, jobs, worker, faults>>

\* getJobs(['waiting', 'active', 'delayed'], 0, 50): is a job of the coupon there?
HasJob(c) ==
  \/ \E i \in 1..Len(queue) : queue[i].coupon = c
  \/ \E p \in Pods : \/ pc[p] # "idle" /\ job[p].coupon = c
                     \/ orphan[p] # None /\ orphan[p].coupon = c

\* The lookup sees no more than Window jobs, and a failing lookup is ignored.
LookupMisses == Len(queue) > Window \/ "redis" \in Faults

LookUp(k) ==
  /\ call[k].stage = "admitted"
  /\ \/ HasJob(call[k].coupon) /\ call' = [call EXCEPT ![k].stage = "over"]
     \/ (~HasJob(call[k].coupon) \/ LookupMisses) /\ call' = [call EXCEPT ![k].stage = "unique"]
  /\ UNCHANGED <<db, counter, jobs, worker, faults>>

Enqueue(k) ==
  LET c == call[k].coupon IN
  /\ call[k].stage = "unique"
  /\ queue' = Queued(ApplyJob(c))
  /\ arrivals' = IF \E i \in 1..Len(arrivals) : arrivals[i] = c THEN arrivals
                 ELSE Append(arrivals, c)
  /\ call' = [call EXCEPT ![k].stage = "over"]
  /\ UNCHANGED <<db, counter, delayed, expireId, worker, faults>>

(***************************************************************************)
(* Running jobs                                                            *)
(***************************************************************************)
FirstStep == [apply |-> "session", stop |-> "stop.read", expire |-> "expire.read"]

Take(p) ==
  /\ pc[p] = "idle" /\ queue # <<>>
  /\ job' = [job EXCEPT ![p] = Head(queue)]
  /\ pc' = [pc EXCEPT ![p] = FirstStep[Head(queue).kind]]
  /\ queue' = Tail(queue)
  /\ UNCHANGED <<db, counter, delayed, expireId, arrivals, call, mem, orphan, faults>>

\* A delay or a retry backoff is over.
Promote(j) ==
  /\ j \in delayed
  /\ delayed' = delayed \ {j}
  /\ queue' = Queued(j)
  /\ UNCHANGED <<db, counter, expireId, arrivals, call, worker, faults>>

Goto(p, step) ==
  /\ pc' = [pc EXCEPT ![p] = step]
  /\ UNCHANGED <<job, orphan>>

\* The handler returned, or threw with no attempt left.
Finish(p) ==
  /\ pc' = [pc EXCEPT ![p] = "idle"]
  /\ job' = [job EXCEPT ![p] = None]
  /\ mem' = [mem EXCEPT ![p] = Fresh]
  /\ UNCHANGED orphan

(***************************************************************************)
(* handleApplyCoupon                                                       *)
(***************************************************************************)

\* validateSessionExists; a session that is not LIVE is a NonRetryableError.
ReadSession(p) ==
  /\ pc[p] = "session"
  /\ \/ /\ SessionOpen
        /\ mem' = [mem EXCEPT ![p].participants = session.participants]
        /\ Goto(p, "coupon")
     \/ ~SessionOpen /\ Finish(p)
  /\ UNCHANGED <<db, counter, jobs, call, faults>>

\* findUnique, then validateCouponIsValid and validateCouponNotUsed.
ReadCoupon(p) ==
  LET c == job[p].coupon IN
  /\ pc[p] = "coupon"
  /\ \/ coupon[c].valid /\ ~coupon[c].applied /\ Goto(p, "wins") /\ UNCHANGED mem
     \/ (~coupon[c].valid \/ coupon[c].applied) /\ Finish(p)
  /\ UNCHANGED <<db, counter, jobs, call, faults>>

\* validateUserWinCountPerSession.  The counter is synced only with a slot limit.
CheckWins(p) ==
  LET u == Owner[job[p].coupon] IN
  /\ pc[p] = "wins"
  /\ \/ /\ ~AtMaxWins(u)
        /\ Goto(p, IF MaxSlots > 0 THEN "count" ELSE "slot")
        /\ UNCHANGED <<coupon, mem>>
     \/ /\ AtMaxWins(u)
        /\ coupon' = IF Invalidate THEN Retired(u) ELSE coupon
        /\ Finish(p)
  /\ UNCHANGED <<session, reward, counter, jobs, call, faults>>

\* The counter sync: count in the database, read Redis, overwrite if different.
CountApplied(p) ==
  /\ pc[p] = "count"
  /\ mem' = [mem EXCEPT ![p].count = Cardinality(Applied)]
  /\ Goto(p, "get")
  /\ UNCHANGED <<db, counter, jobs, call, faults>>

GetCounter(p) ==
  /\ pc[p] = "get"
  /\ Goto(p, IF OutOfSync(p) THEN "set" ELSE "slot")
  /\ UNCHANGED <<db, counter, jobs, call, mem, faults>>

SetCounter(p) ==
  /\ pc[p] = "set"
  /\ counter' = mem[p].count
  /\ Goto(p, "slot")
  /\ UNCHANGED <<db, jobs, call, mem, faults>>

\* The Lua script returned nil: the job fails.
RefuseFull(p) == SlotsFull /\ Finish(p) /\ UNCHANGED counter

\* The Lua script: refuse when full, otherwise the next position.
TakeSlot(p) ==
  /\ pc[p] = "slot"
  /\ \/ RefuseFull(p)
     \/ /\ ~SlotsFull
        /\ counter' = counter + 1
        /\ mem' = [mem EXCEPT ![p].position = counter + 1]
        /\ Goto(p, "update")
  /\ UNCHANGED <<db, jobs, call, faults>>

\* updateMany ... where applied_at is null.
UpdateCoupon(p) ==
  LET c == job[p].coupon
      position == mem[p].position
  IN
  /\ pc[p] = "update"
  /\ \/ /\ NotYetApplied(c)
        /\ coupon' = [coupon EXCEPT
             ![c].applied = TRUE, ![c].position = position,
             ![c].status = IF IsWinner(position) THEN "winner" ELSE "applied_late"]
        /\ Goto(p, AfterUpdate(position))
     \/ ~NotYetApplied(c) /\ Goto(p, "revert") /\ UNCHANGED coupon
  /\ UNCHANGED <<session, reward, counter, jobs, call, mem, faults>>

\* Another job applied the coupon: give the position back and fail.
RevertCounter(p) ==
  /\ pc[p] = "revert"
  /\ counter' = counter - 1
  /\ Finish(p)
  /\ UNCHANGED <<db, jobs, call, faults>>

CreateReward(p) ==
  /\ pc[p] = "reward"
  /\ reward' = [reward EXCEPT ![job[p].coupon] = @ + 1]
  /\ Goto(p, "rewins")
  /\ UNCHANGED <<session, coupon, counter, jobs, call, mem, faults>>

\* checkAndInvalidateRemainingCouponsAfterWin.
RecheckWins(p) ==
  LET u == Owner[job[p].coupon] IN
  /\ pc[p] = "rewins"
  /\ coupon' = IF Invalidate /\ AtMaxWins(u) THEN Retired(u) ELSE coupon
  /\ Goto(p, "close")
  /\ UNCHANGED <<session, reward, counter, jobs, call, mem, faults>>

\* sessions.update: the count read at the start plus one; the last slot completes.
CloseSession(p) ==
  /\ pc[p] = "close"
  /\ session' = [session EXCEPT
       !.participants = CountAfter(p),
       !.status = IF LastSlot(p) THEN "completed" ELSE @]
  /\ IF LastSlot(p) THEN Goto(p, "enqueue") /\ UNCHANGED mem ELSE Finish(p)
  /\ UNCHANGED <<coupon, reward, counter, jobs, call, faults>>

\* enqueueExpireSessionCouponsJob: a job id that exists is not added again.
EnqueueExpire(p) ==
  /\ pc[p] = "enqueue"
  /\ queue' = IF expireId THEN queue ELSE Queued(ExpireJob)
  /\ expireId' = TRUE
  /\ Finish(p)
  /\ UNCHANGED <<db, counter, delayed, arrivals, call, faults>>

(***************************************************************************)
(* handleStopSession                                                       *)
(***************************************************************************)
ReadStatus(p) ==
  /\ pc[p] = "stop.read"
  /\ IF ShouldStop THEN Goto(p, "stop.write") /\ UNCHANGED mem ELSE Finish(p)
  /\ UNCHANGED <<db, counter, jobs, call, faults>>

MarkTimeReached(p) ==
  /\ pc[p] = "stop.write"
  /\ session' = [session EXCEPT !.status = "time_reached"]
  /\ Finish(p)
  /\ UNCHANGED <<coupon, reward, counter, jobs, call, faults>>

(***************************************************************************)
(* handleExpireSessionCoupons                                              *)
(***************************************************************************)
CheckExpirable(p) ==
  /\ pc[p] = "expire.read"
  /\ IF session.status = "completed" /\ session.salesMet
     THEN Goto(p, "expire.find") /\ UNCHANGED mem ELSE Finish(p)
  /\ UNCHANGED <<db, counter, jobs, call, faults>>

FindUnused(p) ==
  /\ pc[p] = "expire.find"
  /\ \/ /\ Unused # {}
        /\ \E batch \in SUBSET Unused :
             /\ \/ Cardinality(batch) = BatchSize
                \/ batch = Unused /\ Cardinality(batch) < BatchSize
             /\ mem' = [mem EXCEPT ![p].batch = batch]
        /\ Goto(p, "expire.write")
     \/ Unused = {} /\ Finish(p)
  /\ UNCHANGED <<db, counter, jobs, call, faults>>

\* The update selects by id only; a full batch looks for another one.
ExpireBatch(p) ==
  /\ pc[p] = "expire.write"
  /\ coupon' = [c \in Coupons |-> IF c \in mem[p].batch
                  THEN [coupon[c] EXCEPT !.valid = FALSE, !.status = "expired"]
                  ELSE coupon[c]]
  /\ IF Cardinality(mem[p].batch) < BatchSize THEN Finish(p)
     ELSE Goto(p, "expire.find") /\ UNCHANGED mem
  /\ UNCHANGED <<session, reward, counter, jobs, call, faults>>

\* sync-sales brings sessions.current_sales_count up to the trigger.
SalesReachTrigger ==
  /\ ~session.salesMet
  /\ session' = [session EXCEPT !.salesMet = TRUE]
  /\ UNCHANGED <<coupon, reward, counter, jobs, call, worker, faults>>

(***************************************************************************)
(* Faults                                                                  *)
(***************************************************************************)
Fault(kind) ==
  /\ kind \in Faults /\ faults < MaxFaults
  /\ faults' = faults + 1

\* A Postgres call rejects: the sync swallows it, any other job throws and is
\* retried while it has attempts left.
DbFails(p) ==
  /\ Fault("db")
  /\ \/ /\ pc[p] = "count" /\ Goto(p, "slot")
        /\ UNCHANGED <<delayed, mem>>
     \/ /\ pc[p] \in (ApplySteps \cup OtherSteps)
                       \ {"count", "get", "set", "slot", "revert", "enqueue"}
        /\ delayed' = IF job[p].attempts > 1
                      THEN delayed \cup {[job[p] EXCEPT !.attempts = @ - 1]} ELSE delayed
        /\ Finish(p)
  /\ UNCHANGED <<db, counter, queue, expireId, arrivals, call>>

\* A Redis call rejects: the sync goes on, no position means no slot, a lost
\* decrement is only logged, a lost expire job is only logged.
RedisFails(p) ==
  /\ Fault("redis")
  /\ \/ pc[p] \in {"get", "set"} /\ Goto(p, "slot") /\ UNCHANGED mem
     \/ pc[p] \in {"slot", "revert", "enqueue"} /\ Finish(p)
  /\ UNCHANGED <<db, counter, jobs, call>>

\* The process dies; its job stays active until the stalled check finds it.
Crash(p) ==
  /\ Fault("crash")
  /\ pc[p] # "idle" /\ orphan[p] = None
  /\ orphan' = [orphan EXCEPT ![p] = job[p]]
  /\ pc' = [pc EXCEPT ![p] = "idle"]
  /\ job' = [job EXCEPT ![p] = None]
  /\ mem' = [mem EXCEPT ![p] = Fresh]
  /\ UNCHANGED <<db, counter, jobs, call>>

\* The stalled check puts the job back in front of the queue once (maxStalledCount
\* 1), and fails it the second time.
Reclaim(p) ==
  /\ orphan[p] # None
  /\ queue' = IF orphan[p].stalled THEN queue
              ELSE <<[orphan[p] EXCEPT !.stalled = TRUE]>> \o queue
  /\ orphan' = [orphan EXCEPT ![p] = None]
  /\ UNCHANGED <<db, counter, delayed, expireId, arrivals, call, pc, job, mem, faults>>

----------------------------------------------------------------------------
Api(k) == (\E c \in Coupons : Admit(k, c) \/ RefuseMaxWins(k, c)) \/ LookUp(k) \/ Enqueue(k)

Handle(p) ==
  \/ ReadSession(p) \/ ReadCoupon(p) \/ CheckWins(p)
  \/ CountApplied(p) \/ GetCounter(p) \/ SetCounter(p)
  \/ TakeSlot(p) \/ UpdateCoupon(p) \/ RevertCounter(p)
  \/ CreateReward(p) \/ RecheckWins(p) \/ CloseSession(p) \/ EnqueueExpire(p)
  \/ ReadStatus(p) \/ MarkTimeReached(p)
  \/ CheckExpirable(p) \/ FindUnused(p) \/ ExpireBatch(p)

Next ==
  \/ \E k \in Calls : Api(k)
  \/ \E p \in Pods : Take(p) \/ Handle(p) \/ Reclaim(p)
  \/ \E p \in Pods : DbFails(p) \/ RedisFails(p) \/ Crash(p)
  \/ \E j \in delayed : Promote(j)
  \/ SalesReachTrigger

Spec == Init /\ [][Next]_vars

\* A running pod goes on with its handler and takes the next job; Redis promotes
\* delayed jobs and the stalled check reclaims orphans.  Nothing makes a user call.
Fairness ==
  /\ \A p \in Pods : WF_vars(Take(p)) /\ WF_vars(Handle(p)) /\ WF_vars(Reclaim(p))
  /\ WF_vars(\E j \in delayed : Promote(j))
  /\ \A k \in Calls : WF_vars(LookUp(k)) /\ WF_vars(Enqueue(k))

FairSpec == Spec /\ Fairness

(***************************************************************************)
(* What holds for any number of pods and any faults.                       *)
(***************************************************************************)

\* A coupon never brings more than one reward row, and only a coupon that was
\* applied brings one: duplicate jobs, stalled jobs that run again and racing
\* pods all meet in the conditional update of apply-coupon.handler.ts.
RewardsSound ==
  \A c \in Coupons : reward[c] <= 1 /\ (reward[c] = 1 => coupon[c].applied)

\* The participant count shown to clients may lose updates, because each handler
\* writes the value it read plus one, but it never exceeds the applied coupons.
ParticipantsNeverOvercount == session.participants <= Cardinality(Applied)

\* Closed is closed, up to the handlers that had read LIVE: once a session is not LIVE it is
\* never LIVE again, and nothing queued, delayed, retried or reclaimed later applies a coupon
\* or writes the status.  Each such handler may do so once; stop-session and the one that
\* fills the last slot then overwrite each other.
Applying == {p \in Pods : pc[p] \in {"coupon", "wins", "count", "get", "set", "slot", "update"}}
Ending   == Applying \cup {p \in Pods : pc[p] \in {"reward", "rewins", "close", "stop.write"}}

ClosedStaysClosed ==
  [][session.status # "live" =>
       /\ session'.status # "live"
       /\ Applying' \subseteq Applying /\ Ending' \subseteq Ending
       /\ Applied' # Applied => Applying' # Applying
       /\ session'.status # session.status => Ending' # Ending]_vars

(***************************************************************************)
(* What holds when one pod runs the worker, the deployment the queue's     *)
(* concurrency of 1 is meant for.  PositionsDense, CompletedMeansFull and  *)
(* ContestSpec survive crashes but not failing calls of the counter sync;  *)
(* FirstComeFirstServed and BooksBalance need a quiet pod.                 *)
(***************************************************************************)

\* The positions handed out are exactly 1..n, none twice and none skipped, also
\* after crashes between the Redis increment and the database update.
PositionsDense == {coupon[c].position : c \in Applied} = 1..Cardinality(Applied)

\* No more coupons are applied than the profile has slots.
SlotsRespected == MaxSlots > 0 => Cardinality(Applied) <= MaxSlots

\* Nobody wins more often in the session than MAX_SESSION_COUPON_APPLY allows.
WinsWithinLimit == MaxWins > 0 => \A u \in Users : Wins(u) <= MaxWins

\* A session is marked COMPLETED only when every slot is taken.
CompletedMeansFull == session.status = "completed" => Cardinality(Applied) = MaxSlots

\* The outcome of an applied coupon is final: neither a second job nor the
\* expiration of the unused coupons rewrites its position or its status.
OutcomeIsFinal ==
  [][\A c \in Coupons : coupon[c].applied =>
       /\ coupon'[c].applied
       /\ coupon'[c].position = coupon[c].position
       /\ coupon'[c].status = coupon[c].status]_vars

\* First come, first served: of two applied coupons the one whose request was
\* queued first has the lower position.
FirstComeFirstServed ==
  faults = 0 => \A i, j \in 1..Len(arrivals) :
    i < j /\ {arrivals[i], arrivals[j]} \subseteq Applied
      => coupon[arrivals[i]].position < coupon[arrivals[j]].position

\* When no handler runs and none was cut short, the books agree: every applied
\* coupon is counted, every winner has its reward, a full session is closed.
BooksBalance ==
  faults = 0 /\ (\A p \in Pods : pc[p] = "idle" /\ orphan[p] = None) =>
    /\ session.participants = Cardinality(Applied)
    /\ \A c \in Winners : reward[c] = 1
    /\ MaxSlots > 0 /\ Cardinality(Applied) = MaxSlots => session.status # "live"

(***************************************************************************)
(* What comments of the code say and the code does not do.                 *)
(***************************************************************************)

\* stop-session.handler.ts:66 says only a LIVE session is stopped: a COMPLETED
\* session never becomes TIME_REACHED.
OnlyLiveIsStopped ==
  [][session.status = "completed" => session'.status # "time_reached"]_vars

\* expire-session-coupons.handler.ts:2 says the job expires unused coupons: a coupon
\* that was applied never turns expired.
OnlyUnusedExpire == \A c \in Coupons : coupon[c].status = "expired" => ~coupon[c].applied

(***************************************************************************)
(* Liveness                                                                *)
(***************************************************************************)

\* Every winner is eventually rewarded, whichever jobs compete, if no process
\* dies and no database call fails after the coupon was applied.
WinnerIsRewarded == \A c \in Coupons : c \in Winners ~> (reward[c] = 1 \/ faults > 0)

\* A queued application is eventually decided: its job leaves queue and workers,
\* whatever crashes, because a stalled job is put back or given up.
RequestIsDecided == \A c \in Coupons : HasJob(c) ~> ~HasJob(c)

(***************************************************************************)
(* The session as its users see it                                         *)
(***************************************************************************)
Ranking == [i \in 1..Cardinality(Applied) |->
              CHOOSE c \in Applied : coupon[c].position = i]

Contest == INSTANCE SlotContest WITH ranking <- Ranking, phase <- session.status

\* One worker pod implements the contest: coupons are ranked one at a time, while
\* slots are left and the session is live, and the ranking never changes afterwards.
ContestSpec == Contest!Spec
=============================================================================
