-------------------------- MODULE SessionLifecycle --------------------------
(***************************************************************************)
(* The sessions of one profile from the moment one is opened to the end of *)
(* its competition:                                                        *)
(*                                                                         *)
(*   upcoming -> opening -> live -> time_reached | completed               *)
(*                                                                         *)
(* A threshold message makes every pod open the UPCOMING session and       *)
(* schedule its start-live job (module SessionCreation has the rest of     *)
(* that handler).  The pods' session workers, each with concurrency 1, run *)
(* start-live and stop-session jobs at their delays, sync-opening-sessions *)
(* every 30 seconds and schedule-stop-sessions every 5 minutes.  Each      *)
(* await that reads or writes Postgres or Redis is one step.  Postgres     *)
(* runs READ COMMITTED: a read sees what is committed, and an update of a  *)
(* locked row waits.                                                       *)
(***************************************************************************)
EXTENDS Integers, Sequences, FiniteSets

CONSTANTS
  Pods,          \* worker processes
  Subscribers,   \* the pods whose Redis subscriber is connected
  MaxId,         \* the sessions are 1..MaxId; created_at ascends with the id
  StartAfter,    \* session_duration_value and _unit, copied to start_trigger_*
  StopAfter,     \* SESSION_STOP_TRIGGER_VALUE, copied to stop_trigger_*
  MaxNow,        \* bound: the clock stops here, and everything delayed is due
  Faults,        \* the faults of this instance: "crash", "db", "redis"
  MaxFaults      \* bound: how many faults happen in a behaviour

ASSUME ConstantsAssumption ==
  /\ Subscribers \subseteq Pods
  /\ MaxId \in Nat /\ MaxNow \in Nat
  /\ StartAfter \in Nat \ {0} /\ StopAfter \in Nat
  /\ Faults \subseteq {"crash", "db", "redis"} /\ MaxFaults \in Nat

VARIABLES
  now,       \* the time
  row,       \* row[i]: status and start_time of the row in session.sessions
  opener,    \* opener[i][p]: pod p's call of createSession for session i
  startJob,  \* the BullMQ job start-live-{i}
  stopJob,   \* the BullMQ job stop-session-{i}
  pc,        \* pc[p]: the next step of the job that p's worker runs
  mem,       \* mem[p]: what that job has read, and the row locks it holds
  faults

queue  == <<startJob, stopJob>>
worker == <<pc, mem>>
vars   == <<now, row, opener, queue, worker, faults>>

(***************************************************************************)
(* Data                                                                    *)
(***************************************************************************)
Ids      == 1..MaxId
Statuses == {"upcoming", "opening", "live", "time_reached", "completed"}
Ended    == {"time_reached", "completed"}

With(status) == {i \in Ids : row[i].status = status}

\* ORDER BY start_time, created_at.
Earlier(i, j) == row[i].start < row[j].start \/ (row[i].start = row[j].start /\ i < j)

\* The ways to list S.
Listings(S) ==
  {q \in [1..Cardinality(S) -> S] : \A i \in S : \E k \in 1..Cardinality(S) : q[k] = i}

\* Moments beyond the end of the modelled time are taken to be its end.
Until(t) == IF t > MaxNow THEN MaxNow ELSE t

LiveTime(i) == Until(row[i].start + StartAfter)

Openers == [pc: {"none", "open", "schedule", "over"}, time: Nat]
Jobs    == [state: {"none", "waiting", "active", "done"}, at: Nat, tries: 1..3, stalled: BOOLEAN]
Plans   == [id: Ids, end: Nat]

\* via: the job; id: its session; todo: the sessions a sweep has still to visit;
\* want, list: the rows still to lock, and those found OPENING; held: the rows locked.
Mem   == [via: {"none", "start", "stop", "sync", "stops"}, id: Ids \cup {0}, todo: Seq(Plans),
          want: Seq(Ids), list: Seq(Ids), held: SUBSET Ids]
Fresh == [via |-> "none", id |-> 0, todo |-> <<>>, want |-> <<>>, list |-> <<>>, held |-> {}]
Over  == [pc |-> "over", time |-> 0]

TxSteps == {"check", "others", "select", "lock", "commit"}
Steps   == TxSteps \cup {"idle", "finish", "sync.list", "stops.list", "stops.next",
                         "stop.read", "stop.write"}

TypeOK ==
  /\ now \in 0..MaxNow
  /\ row \in [Ids -> [status: Statuses, start: Nat]]
  /\ opener \in [Ids -> [Subscribers -> Openers]]
  /\ startJob \in [Ids -> Jobs] /\ stopJob \in [Ids -> Jobs]
  /\ pc \in [Pods -> Steps] /\ mem \in [Pods -> Mem]
  /\ faults \in 0..MaxFaults

Goto(p, step) == pc' = [pc EXCEPT ![p] = step]
Idle(p) == Goto(p, "idle") /\ mem' = [mem EXCEPT ![p] = Fresh]

(***************************************************************************)
(* Wrong variants of the definitions below, each the slip a change to the  *)
(* code could make; README.md says which property notices which.           *)
(***************************************************************************)
OtherStarted(i)       == {j \in Ids : row[j].status \in Ended \cup {"live"}} \ {i} # {}
NeverLocked(i)        == FALSE
OpenedSometime(i)     == row[i].status # "upcoming"
EndTimeFromOpening(i) == Until(row[i].start + StopAfter)
Unsorted(S)           == Listings(S)
FourAttempts          == [state |-> "none", at |-> 0, tries |-> 4, stalled |-> FALSE]
NextStopOffByOne(p, todo) ==
  IF Len(todo) <= 1 THEN Idle(p)
  ELSE Goto(p, "stops.next") /\ mem' = [mem EXCEPT ![p].todo = todo]

(***************************************************************************)
(* Decisions of the code                                                   *)
(***************************************************************************)

\* start_time plus start_trigger plus stop_trigger.
EndTime(i) == Until(row[i].start + StartAfter + StopAfter)

\* ORDER BY start_time, created_at: the listing with the earliest first.
Sorted(S) ==
  {q \in Listings(S) : \A k, l \in DOMAIN q : k < l => Earlier(q[k], q[l])}

\* Three attempts (START_LIVE_JOB_OPTIONS, defaultJobOptions).
NoJob == [state |-> "none", at |-> 0, tries |-> 3, stalled |-> FALSE]
Done  == [NoJob EXCEPT !.state = "done"]

\* force_stop is never written, so every other LIVE session blocks.
OtherLive(i) == With("live") \ {i} # {}

\* Only the first OPENING session of the locked list may go on.
FirstListed(p) == mem[p].list # <<>> /\ Head(mem[p].list) = mem[p].id

\* A transaction holds the row's lock.
Locked(i) == \E p \in Pods : i \in mem[p].held

StillOpening(i) == row[i].status = "opening"

NextStop(p, todo) ==
  IF todo = <<>> THEN Idle(p)
  ELSE Goto(p, "stops.next") /\ mem' = [mem EXCEPT ![p].todo = todo]

\* An id that exists is removed first; an active job cannot be removed, and then
\* adding the id again changes nothing.
Added(jobs, i, t) ==
  IF jobs[i].state = "active" THEN jobs
  ELSE [jobs EXCEPT ![i] = [NoJob EXCEPT !.state = "waiting", !.at = t]]

\* A failure after the removal and before the addition loses the job.
Removed(jobs, lost) ==
  [i \in Ids |-> IF i \in lost /\ jobs[i].state # "active" THEN NoJob ELSE jobs[i]]

Init ==
  /\ now = 0
  /\ row = [i \in Ids |-> [status |-> "upcoming", start |-> 0]]
  /\ opener = [i \in Ids |-> [p \in Subscribers |-> [pc |-> "none", time |-> 0]]]
  /\ startJob = [i \in Ids |-> NoJob] /\ stopJob = [i \in Ids |-> NoJob]
  /\ pc = [p \in Pods |-> "idle"] /\ mem = [p \in Pods |-> Fresh]
  /\ faults = 0

Fault(kind) == kind \in Faults /\ faults < MaxFaults /\ faults' = faults + 1

Tick == now < MaxNow /\ now' = now + 1 /\ UNCHANGED <<row, opener, queue, worker, faults>>

(***************************************************************************)
(* createSession opens the session that reached its threshold              *)
(***************************************************************************)

\* The message arrives at pod p, which takes the time and reads the status.  A pod
\* that reads another status goes on to create the next session.
ReadUpcoming(i, p) ==
  /\ opener[i][p].pc = "none" /\ row[i].status = "upcoming"
  /\ opener' = [opener EXCEPT ![i][p] = [pc |-> "open", time |-> now]]
  /\ UNCHANGED <<now, row, queue, worker, faults>>

\* The update selects by id only.
OpenSession(i, p) ==
  /\ opener[i][p].pc = "open" /\ ~Locked(i)
  /\ row' = [row EXCEPT ![i] = [status |-> "opening", start |-> opener[i][p].time]]
  /\ opener' = [opener EXCEPT ![i][p].pc = "schedule"]
  /\ UNCHANGED <<now, queue, worker, faults>>

\* scheduleStartLiveJob.
ScheduleStart(i, p) ==
  /\ opener[i][p].pc = "schedule"
  /\ startJob' = Added(startJob, i, Until(opener[i][p].time + StartAfter))
  /\ opener' = [opener EXCEPT ![i][p] = Over]
  /\ UNCHANGED <<now, row, stopJob, worker, faults>>

\* The update rejects, or scheduleStartLiveJob swallows an error of Redis.
OpenerFails(i, p) ==
  /\ \/ opener[i][p].pc = "open" /\ Fault("db") /\ UNCHANGED startJob
     \/ /\ opener[i][p].pc = "schedule" /\ Fault("redis")
        /\ \E lost \in SUBSET {i} : startJob' = Removed(startJob, lost)
  /\ opener' = [opener EXCEPT ![i][p] = Over]
  /\ UNCHANGED <<now, row, stopJob, worker>>

(***************************************************************************)
(* The worker takes a job.  Runs of the repeatable jobs may start at any   *)
(* time; the run that handleStartLive adds when it succeeds is one of them.*)
(***************************************************************************)
Begin(p, step, via, i) ==
  /\ pc[p] = "idle"
  /\ Goto(p, step)
  /\ mem' = [mem EXCEPT ![p].via = via, ![p].id = i]

TakeStart(p, i) ==
  /\ startJob[i].state = "waiting" /\ now >= startJob[i].at
  /\ Begin(p, "check", "start", i)
  /\ startJob' = [startJob EXCEPT ![i].state = "active"]
  /\ UNCHANGED <<now, row, opener, stopJob, faults>>

TakeStop(p, i) ==
  /\ stopJob[i].state = "waiting" /\ now >= stopJob[i].at
  /\ Begin(p, "stop.read", "stop", i)
  /\ stopJob' = [stopJob EXCEPT ![i].state = "active"]
  /\ UNCHANGED <<now, row, opener, startJob, faults>>

TakeSync(p) ==
  /\ Begin(p, "sync.list", "sync", 0)
  /\ UNCHANGED <<now, row, opener, queue, faults>>

TakeStops(p) ==
  /\ Begin(p, "stops.list", "stops", 0)
  /\ UNCHANGED <<now, row, opener, queue, faults>>

(***************************************************************************)
(* startLiveSession: one transaction                                       *)
(***************************************************************************)

\* The sync goes on with its next session.
NextOpening(p, todo) ==
  IF todo = <<>> THEN Idle(p)
  ELSE /\ Goto(p, "check")
       /\ mem' = [mem EXCEPT ![p] = [Fresh EXCEPT
                    !.via = "sync", !.id = Head(todo).id, !.todo = Tail(todo)]]

\* success: false.  The locks are released, and the job does not run again.
GiveUp(p) ==
  /\ \/ /\ mem[p].via = "start" /\ Idle(p)
        /\ startJob' = [startJob EXCEPT ![mem[p].id] = Done]
     \/ mem[p].via = "sync" /\ NextOpening(p, mem[p].todo) /\ UNCHANGED startJob
  /\ UNCHANGED stopJob

Continue(p, step) == Goto(p, step) /\ UNCHANGED <<mem, queue>>

\* findUnique; the read before the transaction tests the same and is part of it.
CheckOpening(p) ==
  /\ pc[p] = "check"
  /\ IF StillOpening(mem[p].id) THEN Continue(p, "others") ELSE GiveUp(p)
  /\ UNCHANGED <<now, row, opener, faults>>

CheckOthers(p) ==
  /\ pc[p] = "others"
  /\ IF OtherLive(mem[p].id) THEN GiveUp(p) ELSE Continue(p, "select")
  /\ UNCHANGED <<now, row, opener, faults>>

\* SELECT ... ORDER BY ... FOR UPDATE finds its rows, and then locks them in order.
SelectOpening(p) ==
  /\ pc[p] = "select"
  /\ \E q \in Sorted(With("opening")) : mem' = [mem EXCEPT ![p].want = q]
  /\ Goto(p, "lock")
  /\ UNCHANGED <<now, row, opener, queue, faults>>

\* A row that is not OPENING any more once its lock is granted leaves the list.
LockRow(p) ==
  LET i == Head(mem[p].want) IN
  /\ pc[p] = "lock" /\ mem[p].want # <<>> /\ ~Locked(i)
  /\ mem' = [mem EXCEPT ![p].want = Tail(@), ![p].held = @ \cup {i},
               ![p].list = IF StillOpening(i) THEN Append(@, i) ELSE @]
  /\ UNCHANGED <<now, row, opener, queue, pc, faults>>

\* Only the first of the list goes on, unless another session is LIVE by now.
CheckFinal(p) ==
  /\ pc[p] = "lock" /\ mem[p].want = <<>>
  /\ IF FirstListed(p) /\ ~OtherLive(mem[p].id) THEN Continue(p, "commit") ELSE GiveUp(p)
  /\ UNCHANGED <<now, row, opener, faults>>

\* The update selects by id only; the commit releases the locks.
Commit(p) ==
  /\ pc[p] = "commit"
  /\ row' = [row EXCEPT ![mem[p].id].status = "live"]
  /\ \/ mem[p].via = "start" /\ Goto(p, "finish")
        /\ mem' = [mem EXCEPT ![p] = [Fresh EXCEPT !.via = "start", !.id = mem[p].id]]
     \/ mem[p].via = "sync" /\ NextOpening(p, mem[p].todo)
  /\ UNCHANGED <<now, opener, queue, faults>>

FinishStart(p) ==
  /\ pc[p] = "finish"
  /\ startJob' = [startJob EXCEPT ![mem[p].id] = Done]
  /\ Idle(p)
  /\ UNCHANGED <<now, row, opener, stopJob, faults>>

(***************************************************************************)
(* syncOpeningSessionsToLive                                               *)
(***************************************************************************)

\* The OPENING sessions, earliest first; those not yet due are skipped.
Due == {i \in With("opening") : now >= LiveTime(i)}

ListOpening(p) ==
  /\ pc[p] = "sync.list"
  /\ \E q \in Sorted(Due) : NextOpening(p, [k \in DOMAIN q |-> [id |-> q[k], end |-> 0]])
  /\ UNCHANGED <<now, row, opener, queue, faults>>

(***************************************************************************)
(* handleScheduleStopSessions and handleStopSession                        *)
(***************************************************************************)
\* The LIVE sessions, in an order the query leaves open.
ListLive(p) ==
  /\ pc[p] = "stops.list"
  /\ \E q \in Listings(With("live")) :
       NextStop(p, [k \in DOMAIN q |-> [id |-> q[k], end |-> EndTime(q[k])]])
  /\ UNCHANGED <<now, row, opener, queue, faults>>

ScheduleStop(p) ==
  /\ pc[p] = "stops.next"
  /\ stopJob' = Added(stopJob, Head(mem[p].todo).id, Head(mem[p].todo).end)
  /\ NextStop(p, Tail(mem[p].todo))
  /\ UNCHANGED <<now, row, opener, startJob, faults>>

FinishStop(p) ==
  /\ stopJob' = [stopJob EXCEPT ![mem[p].id] = Done]
  /\ Idle(p)
  /\ UNCHANGED startJob

ReadStatus(p) ==
  /\ pc[p] = "stop.read"
  /\ IF row[mem[p].id].status = "live" THEN Continue(p, "stop.write") ELSE FinishStop(p)
  /\ UNCHANGED <<now, row, opener, faults>>

MarkTimeReached(p) ==
  /\ pc[p] = "stop.write" /\ ~Locked(mem[p].id)
  /\ row' = [row EXCEPT ![mem[p].id].status = "time_reached"]
  /\ FinishStop(p)
  /\ UNCHANGED <<now, opener, faults>>

\* The last slot is taken: CloseSession of module CouponApply.  Its job has read LIVE,
\* and may write after the stop job of another pod did.
Complete(i) ==
  /\ row[i].status \in {"live", "time_reached"} /\ ~Locked(i)
  /\ row' = [row EXCEPT ![i].status = "completed"]
  /\ UNCHANGED <<now, opener, queue, worker, faults>>

(***************************************************************************)
(* Faults of a worker                                                      *)
(***************************************************************************)

\* The handler throws: the job is retried while it has attempts left.
Retried(jobs, i) ==
  IF jobs[i].tries = 1 THEN [jobs EXCEPT ![i] = Done]
  ELSE [jobs EXCEPT ![i].state = "waiting", ![i].tries = @ - 1]

\* A Postgres call rejects.  Inside the transaction that is success: false; the read
\* before it throws, which the sync catches for the session; a sweep ends.
DbFails(p) ==
  /\ Fault("db")
  /\ \/ pc[p] \in TxSteps /\ GiveUp(p)
     \/ /\ pc[p] = "check" /\ mem[p].via = "start"
        /\ startJob' = Retried(startJob, mem[p].id)
        /\ Idle(p) /\ UNCHANGED stopJob
     \/ /\ pc[p] \in {"stop.read", "stop.write"}
        /\ stopJob' = Retried(stopJob, mem[p].id)
        /\ Idle(p) /\ UNCHANGED startJob
     \/ pc[p] \in {"sync.list", "stops.list"} /\ Idle(p) /\ UNCHANGED queue
  /\ UNCHANGED <<now, row, opener>>

\* A Redis call rejects: one stop job is not scheduled.
RedisFails(p) ==
  /\ Fault("redis")
  /\ pc[p] = "stops.next" /\ NextStop(p, Tail(mem[p].todo))
  /\ \E lost \in SUBSET {Head(mem[p].todo).id} : stopJob' = Removed(stopJob, lost)
  /\ UNCHANGED <<now, row, opener, startJob>>

\* A stalled job is put back once (maxStalledCount 1), and fails the second time.
Reclaimed(jobs, i) ==
  [jobs EXCEPT ![i] = IF @.stalled THEN Done ELSE [@ EXCEPT !.state = "waiting", !.stalled = TRUE]]

\* The process dies with its calls and its transaction, and is restarted.  The stalled
\* check finds its job; a lost sweep is repeated anyway.
Opening(p) == {i \in Ids : p \in Subscribers /\ opener[i][p].pc \in {"open", "schedule"}}

Crash(p) ==
  /\ Fault("crash")
  /\ opener' = [i \in Ids |-> IF i \in Opening(p) THEN [opener[i] EXCEPT ![p] = Over]
                              ELSE opener[i]]
  /\ \E lost \in SUBSET {i \in Opening(p) : opener[i][p].pc = "schedule"} :
       startJob' = IF mem[p].via = "start" THEN Reclaimed(Removed(startJob, lost), mem[p].id)
                   ELSE Removed(startJob, lost)
  /\ \E lost \in SUBSET {i \in Ids : pc[p] = "stops.next" /\ i = Head(mem[p].todo).id} :
       stopJob' = IF mem[p].via = "stop" THEN Reclaimed(stopJob, mem[p].id)
                  ELSE Removed(stopJob, lost)
  /\ Idle(p)
  /\ UNCHANGED <<now, row>>

----------------------------------------------------------------------------
OpenerStep(i, p) == OpenSession(i, p) \/ ScheduleStart(i, p)

JobStep(p) ==
  \/ CheckOpening(p) \/ CheckOthers(p) \/ SelectOpening(p) \/ LockRow(p) \/ CheckFinal(p)
  \/ Commit(p) \/ FinishStart(p)
  \/ ListOpening(p) \/ ListLive(p) \/ ScheduleStop(p) \/ ReadStatus(p) \/ MarkTimeReached(p)

Next ==
  \/ Tick
  \/ \E i \in Ids : Complete(i)
  \/ \E i \in Ids, p \in Subscribers : ReadUpcoming(i, p) \/ OpenerStep(i, p) \/ OpenerFails(i, p)
  \/ \E i \in Ids, p \in Pods : TakeStart(p, i) \/ TakeStop(p, i)
  \/ \E p \in Pods : TakeSync(p) \/ TakeStops(p) \/ JobStep(p)
  \/ \E p \in Pods : DbFails(p) \/ RedisFails(p) \/ Crash(p)

Spec == Init /\ [][Next]_vars

\* Time passes and handlers go on.  An idle worker may find every kind of job waiting
\* again and again, but BullMQ serves each in turn: strong fairness of the takes.
Fairness ==
  /\ WF_vars(Tick)
  /\ \A i \in Ids, p \in Subscribers : WF_vars(OpenerStep(i, p))
  /\ \A p \in Pods : WF_vars(JobStep(p))
  /\ SF_vars(\E p \in Pods : TakeSync(p)) /\ SF_vars(\E p \in Pods : TakeStops(p))
  /\ \A i \in Ids : SF_vars(\E p \in Pods : TakeStop(p, i))

FairSpec == Spec /\ Fairness

(***************************************************************************)
(* Properties                                                              *)
(***************************************************************************)

\* At most one session of the profile is LIVE, whichever jobs start sessions at the
\* same time: the purpose of the transaction and the row locks of startLiveSession.
OneLivePerProfile == \A i, j \in With("live") : i = j

\* A session goes LIVE no earlier than start_time plus the start trigger, and its time
\* is reached no earlier than the stop trigger after that.
KeepsSchedule ==
  [][\A i \in Ids : row'[i].status # row[i].status =>
       /\ row'[i].status = "live" => now >= Until(row[i].start + StartAfter)
       /\ row'[i].status = "time_reached" => now >= Until(row[i].start + StartAfter + StopAfter)]_vars

\* A session never goes back, whichever of the handlers that read its status before they
\* write it run at the same time; only the stop job and the job that takes the last slot
\* may overwrite each other's end (see OnlyLiveIsStopped of module CouponApply).
Forward == {<<"upcoming", "opening">>, <<"opening", "live">>, <<"live", "time_reached">>,
            <<"live", "completed">>, <<"completed", "time_reached">>,
            <<"time_reached", "completed">>}
MovesForward == \A i \in Ids :
  row'[i].status # row[i].status => <<row[i].status, row'[i].status>> \in Forward
StatusMovesForward == [][MovesForward]_vars

\* One subscribed process implements the timetable: the start time written with OPENING stays
\* for good, and jobs, sweeps, row locks and updates by id come to no more than opening a
\* session, starting it alone and in time, and ending it.
Timetable == INSTANCE SessionTimetable WITH clock <- now, session <- row
TimetableSpec == Timetable!Spec

\* No transactions of startLiveSession wait for each other's row locks in a circle, so that
\* Postgres never has to abort one: they lock the OPENING rows in one order.
Awaits(p, q) ==
  /\ pc[p] = "lock" /\ mem[p].want # <<>>
  /\ Head(mem[p].want) \in mem[q].held
NoLockCycle ==
  ~\E waiting \in (SUBSET Pods) \ {{}} : \A p \in waiting : \E q \in waiting : Awaits(p, q)

\* An OPENING session becomes LIVE although its start-live job may be lost: the
\* periodic sync finds it once the sessions before it have ended.
OpeningGoesLive == \A i \in Ids : row[i].status = "opening" ~> row[i].status = "live"

\* A LIVE session ends although the stop job may be lost: schedule-stop-sessions runs
\* every five minutes.
LiveEnds == \A i \in Ids : row[i].status = "live" ~> row[i].status \in Ended
=============================================================================
