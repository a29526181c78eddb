-------------------------- MODULE SessionCreation --------------------------
(***************************************************************************)
(* The sales of a session reach the trigger: the shop publishes it, every  *)
(* pod's subscriber hears it, and each calls createSession, which opens    *)
(* the session and creates the profile's next one; a job threshold-reached *)
(* does the same with retries.  At max_sessions the sales are disabled     *)
(* instead.                                                                *)
(*                                                                         *)
(*   subscriber:          profile -> existing -> open -> create -> increment *)
(*                                                    \-> disable -> flag  *)
(*   job:      pending -> profile -> existing -> open -> create -> increment *)
(*                          \------> error -> pending       -> confirm     *)
(*                                                                         *)
(* Nothing is locked: each query is one step.                              *)
(***************************************************************************)
EXTENDS Integers, FiniteSets

CONSTANTS
  Pods,         \* the processes with a subscriber
  Job,          \* the worker that runs threshold-reached, not one of Pods
  MaxSession,   \* bound: the sessions are 1..MaxSession
  MaxAnnounced, \* bound: only the sessions up to this one reach the trigger
  Limit,        \* max_sessions; null is a limit that is never reached
  Attempts,     \* attempts of a job, 3; 0 when nobody enqueues one
  Faults,       \* the faults of this instance: "crash", "db", "redis"
  MaxFaults     \* bound: how many faults happen in a behaviour

ASSUME ConstantsAssumption ==
  /\ Job \notin Pods
  /\ MaxSession \in Nat \ {0} /\ MaxAnnounced \in 0..MaxSession
  /\ Limit \in Nat \ {0} /\ Attempts \in Nat
  /\ Faults \subseteq {"crash", "db", "redis"} /\ MaxFaults \in Nat

VARIABLES
  status,    \* status[s] of the session's row, "none" before it is created
  announced, \* the sessions whose threshold has been published
  count,     \* sessions_count of the profile
  active,    \* is_active of the profile
  enabled,   \* is_enabled of the profile's taxonomy term
  flag,      \* the key taxonomy:{term}:sales_disabled
  creation,  \* creation[s]: isCreated of session:creation:pending:{profile}:{s}
  next,      \* history: next[s] the sessions created because s reached the trigger
  pc,        \* pc[t]: the next step of task t
  seen,      \* seen[t]: the sessions_count it has read
  tries,     \* tries[s]: attempts of the job of s
  faults

profile == <<count, active>>
selling == <<enabled, flag>>
task    == <<pc, seen>>
vars    == <<status, announced, profile, selling, creation, next, task, tries, faults>>

Sessions == 1..MaxSession
Selling  == 1..MaxAnnounced

\* A task is the call of createSession by one subscriber, or by a job, for one session.
Tasks == (Pods \cup {Job}) \X Selling
By(t) == t[1]
Of(t) == t[2]

Steps == {"idle", "pending", "profile", "existing", "open", "create", "increment", "confirm",
          "error", "disable", "flag"}

TypeOK ==
  /\ status \in [Sessions -> {"none", "upcoming", "opening"}]
  /\ announced \subseteq Selling
  /\ count \in Nat /\ active \in BOOLEAN /\ enabled \in BOOLEAN /\ flag \in BOOLEAN
  /\ creation \in [Selling -> {"none", "pending", "created"}]
  /\ next \in [Selling -> SUBSET Sessions]
  /\ pc \in [Tasks -> Steps] /\ seen \in [Tasks -> Nat]
  /\ tries \in [Selling -> 0..Attempts] /\ faults \in 0..MaxFaults

Rows == {s \in Sessions : status[s] # "none"}

\* isSalesEnabled: the key first, then the row.
SalesEnabled == ~flag /\ enabled

(***************************************************************************)
(* Wrong variants of the definitions below, each the slip a change to the  *)
(* code could make; README.md says which property notices which.           *)
(***************************************************************************)
LimitOffByOne(t)   == seen[t] + 1 >= Limit
RetriedForEver(t)  == tries[Of(t)] <= Attempts
NeverDisables(t)   == FALSE
CountRead(t)       == seen[t] + 1

(***************************************************************************)
(* Decisions of the code                                                   *)
(***************************************************************************)

\* Decided on the count that was read before the session was opened.
LimitReached(t) == seen[t] >= Limit

\* sessions_count: { increment: 1 }.
Incremented(t) == count + 1

\* The subscriber disables the sales of a full profile; the job does not.
DisablesSales(t) == By(t) # Job

\* BullMQ takes a failed job again.
Retried(t) == tries[Of(t)] < Attempts

\* What is stored before the creation.
Begun(t) == "pending"

Goto(t, step) == pc' = [pc EXCEPT ![t] = step]
Quit(t)       == Goto(t, "idle") /\ seen' = [seen EXCEPT ![t] = 0]

\* createSession throws: the subscriber logs it, the job stores it and is retried.
Throw(t) == IF By(t) = Job THEN Goto(t, "error") /\ seen' = [seen EXCEPT ![t] = 0] ELSE Quit(t)

(***************************************************************************)
(* createSession                                                           *)
(***************************************************************************)
\* An active profile with one session, its sales enabled.
Init ==
  /\ status = [s \in Sessions |-> IF s = 1 THEN "upcoming" ELSE "none"]
  /\ announced = {} /\ count = 1 /\ active = TRUE /\ enabled = TRUE /\ flag = FALSE
  /\ creation = [s \in Selling |-> "none"] /\ next = [s \in Selling |-> {}]
  /\ pc = [t \in Tasks |-> "idle"] /\ seen = [t \in Tasks |-> 0]
  /\ tries = [s \in Selling |-> 0] /\ faults = 0

\* findFirst, active and not deleted.
ReadProfile(t) ==
  /\ pc[t] = "profile"
  /\ IF active THEN Goto(t, "existing") /\ seen' = [seen EXCEPT ![t] = count] ELSE Throw(t)
  /\ UNCHANGED <<status, announced, profile, selling, creation, next, tries, faults>>

ReadExisting(t) ==
  /\ pc[t] = "existing"
  /\ Goto(t, IF status[Of(t)] = "upcoming" THEN "open" ELSE "create")
  /\ UNCHANGED <<status, announced, profile, selling, creation, next, seen, tries, faults>>

\* status = OPENING, by id; SessionLifecycle takes it from there.
OpenExisting(t) ==
  /\ pc[t] = "open"
  /\ status' = [status EXCEPT ![Of(t)] = "opening"]
  /\ Goto(t, "create")
  /\ UNCHANGED <<announced, profile, selling, creation, next, seen, tries, faults>>

CreateNext(t) ==
  /\ pc[t] = "create" /\ ~LimitReached(t)
  /\ \E s \in Sessions \ Rows :
       /\ \A r \in Sessions \ Rows : s <= r
       /\ status' = [status EXCEPT ![s] = "upcoming"]
       /\ next' = [next EXCEPT ![Of(t)] = @ \cup {s}]
  /\ Goto(t, "increment")
  /\ UNCHANGED <<announced, profile, selling, creation, seen, tries, faults>>

RefuseNext(t) ==
  /\ pc[t] = "create" /\ LimitReached(t)
  /\ IF DisablesSales(t) THEN Goto(t, "disable") /\ seen' = [seen EXCEPT ![t] = 0] ELSE Throw(t)
  /\ UNCHANGED <<status, announced, profile, selling, creation, next, tries, faults>>

Increment(t) ==
  /\ pc[t] = "increment"
  /\ count' = Incremented(t)
  /\ IF By(t) = Job THEN Goto(t, "confirm") /\ seen' = [seen EXCEPT ![t] = 0] ELSE Quit(t)
  /\ UNCHANGED <<status, announced, active, selling, creation, next, tries, faults>>

(***************************************************************************)
(* Around it: disableSalesForProfile and the job                           *)
(***************************************************************************)

\* Without an enabled term there is nothing to disable.
DisableTerms(t) ==
  /\ pc[t] = "disable"
  /\ Goto(t, IF enabled THEN "flag" ELSE "idle") /\ enabled' = FALSE
  /\ UNCHANGED <<status, announced, profile, flag, creation, next, seen, tries, faults>>

SetFlag(t) ==
  /\ pc[t] = "flag" /\ flag' = TRUE /\ Goto(t, "idle")
  /\ UNCHANGED <<status, announced, profile, enabled, creation, next, seen, tries, faults>>

MarkPending(t) ==
  /\ pc[t] = "pending"
  /\ creation' = [creation EXCEPT ![Of(t)] = Begun(t)] /\ Goto(t, "profile")
  /\ UNCHANGED <<status, announced, profile, selling, next, seen, tries, faults>>

MarkCreated(t) ==
  /\ pc[t] = "confirm"
  /\ creation' = [creation EXCEPT ![Of(t)] = "created"] /\ Goto(t, "idle")
  /\ UNCHANGED <<status, announced, profile, selling, next, seen, tries, faults>>

\* Another attempt, if there is one left.
Retry(t) ==
  IF Retried(t)
    THEN Goto(t, "pending") /\ tries' = [tries EXCEPT ![Of(t)] = @ + 1]
    ELSE Goto(t, "idle") /\ UNCHANGED tries

MarkFailed(t) ==
  /\ pc[t] = "error"
  /\ creation' = [creation EXCEPT ![Of(t)] = "pending"] /\ Retry(t)
  /\ UNCHANGED <<status, announced, profile, selling, next, seen, faults>>

(***************************************************************************)
(* Faults                                                                  *)
(***************************************************************************)
Fault(kind) == kind \in Faults /\ faults < MaxFaults /\ faults' = faults + 1

\* disableSalesForProfile swallows its errors, createSession throws.
DbFails(t) ==
  /\ Fault("db")
  /\ \/ pc[t] \in {"profile", "existing", "open", "create", "increment"} /\ Throw(t)
     \/ pc[t] = "disable" /\ Quit(t)
  /\ UNCHANGED <<status, announced, profile, selling, creation, next, tries>>

\* A SETEX of the job fails it, also the one after the creation.
RedisFails(t) ==
  /\ Fault("redis")
  /\ \/ pc[t] \in {"pending", "confirm"} /\ Goto(t, "error") /\ UNCHANGED tries
     \/ pc[t] = "error" /\ Retry(t)
     \/ pc[t] = "flag" /\ Goto(t, "idle") /\ UNCHANGED tries
  /\ UNCHANGED <<status, announced, profile, selling, creation, next, seen>>

\* While it reconnects a subscriber hears nothing.
MessageLost(p, s) ==
  /\ Fault("redis")
  /\ pc[<<p, s>>] = "profile" /\ Goto(<<p, s>>, "idle")
  /\ UNCHANGED <<status, announced, profile, selling, creation, next, seen, tries>>

\* A pod stops and forgets its calls.
Crash(p) ==
  /\ Fault("crash")
  /\ \E s \in Selling : pc[<<p, s>>] # "idle"
  /\ pc' = [t \in Tasks |-> IF By(t) = p THEN "idle" ELSE pc[t]]
  /\ seen' = [t \in Tasks |-> IF By(t) = p THEN 0 ELSE seen[t]]
  /\ UNCHANGED <<status, announced, profile, selling, creation, next, tries>>

\* The pod that runs the job stops: the stalled job is taken again from the start.
CrashWorker(t) ==
  /\ Fault("crash")
  /\ By(t) = Job /\ pc[t] \notin {"idle", "pending"}
  /\ Goto(t, "pending") /\ seen' = [seen EXCEPT ![t] = 0]
  /\ UNCHANGED <<status, announced, profile, selling, creation, next, tries>>

(***************************************************************************)
(* The shop and the administrator                                          *)
(***************************************************************************)

\* The shop publishes that s has reached the trigger; every subscriber hears it.
Announce(s) ==
  /\ status[s] = "upcoming" /\ s \notin announced /\ SalesEnabled
  /\ announced' = announced \cup {s}
  /\ pc' = [t \in Tasks |-> IF Of(t) = s /\ By(t) # Job THEN "profile" ELSE pc[t]]
  /\ UNCHANGED <<status, profile, selling, creation, next, seen, tries, faults>>

\* Nothing under src/ adds this job; its handler is there for whoever does.
Enqueue(s) ==
  /\ s \in announced /\ tries[s] = 0 /\ Attempts > 0
  /\ Goto(<<Job, s>>, "pending") /\ tries' = [tries EXCEPT ![s] = 1]
  /\ UNCHANGED <<status, announced, profile, selling, creation, next, seen, faults>>

Deactivate ==
  /\ active /\ active' = FALSE
  /\ UNCHANGED <<status, announced, count, selling, creation, next, task, tries, faults>>

-----------------------------------------------------------------------------
Handle(t) ==
  \/ ReadProfile(t) \/ ReadExisting(t) \/ OpenExisting(t) \/ CreateNext(t) \/ RefuseNext(t)
  \/ Increment(t) \/ DisableTerms(t) \/ SetFlag(t) \/ MarkPending(t) \/ MarkCreated(t) \/ MarkFailed(t)

Next ==
  \/ \E t \in Tasks : Handle(t) \/ DbFails(t) \/ RedisFails(t) \/ CrashWorker(t)
  \/ \E p \in Pods : Crash(p) \/ \E s \in Selling : MessageLost(p, s)
  \/ \E s \in Selling : Announce(s) \/ Enqueue(s)
  \/ Deactivate

Spec == Init /\ [][Next]_vars

\* A call that has begun goes on.
Fairness == \A t \in Tasks : WF_vars(Handle(t))

FairSpec == Spec /\ Fairness

(***************************************************************************)
(* Properties                                                              *)
(***************************************************************************)

\* sessions_count never runs ahead of the sessions, and when nothing fails it misses only
\* those created and not yet counted, however many calls overlap.
CountsEveryRow ==
  LET counting == {t \in Tasks : pc[t] = "increment"}
  IN /\ count + Cardinality(counting) <= Cardinality(Rows)
     /\ faults = 0 => count + Cardinality(counting) = Cardinality(Rows)

\* The two answers are true: sales are disabled only when the profile has all its sessions,
\* though that was decided on a count read several steps before, and isCreated is stored only
\* when there is a session created for it, also after retries.
AnswersAreTrue ==
  /\ ~SalesEnabled => count >= Limit
  /\ \A s \in Selling : creation[s] = "created" => next[s] # {}

\* A threshold is answered with a next session, or by disabling the sales, unless something
\* fails or the profile is switched off.
ThresholdIsAnswered ==
  \A s \in Selling :
    s \in announced ~> next[s] # {} \/ ~SalesEnabled \/ ~active \/ faults > 0

\* "100% session creation guarantee - No sessions lost even under failures!"
NoSessionLost ==
  \A s \in Selling : s \in announced ~> next[s] # {} \/ ~SalesEnabled \/ ~active

\* A profile never has more sessions than max_sessions.
SessionsWithinLimit == Cardinality(Rows) <= Limit
=============================================================================
