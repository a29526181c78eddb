----------------------- MODULE SessionLifecycleProofs -----------------------
(***************************************************************************)
(* Proofs about SessionLifecycle for any number of sessions, worker        *)
(* processes and faults.                                                   *)
(***************************************************************************)
EXTENDS SessionLifecycle, TLAPS, FiniteSetTheorems, SequenceTheorems, WellFoundedInduction

(***************************************************************************)
(* Listings of a set of sessions are sequences with each of its members.   *)
(***************************************************************************)
LEMMA ListingsAreComplete ==
  ASSUME NEW S \in SUBSET Ids, NEW q \in Listings(S)
  PROVE  /\ q \in Seq(Ids)
         /\ \A i \in S : \E k \in DOMAIN q : q[k] = i
<1>1. Cardinality(S) \in Nat
  <2>1. IsFiniteSet(Ids)
    BY FS_Interval, ConstantsAssumption DEF Ids, ConstantsAssumption
  <2> QED
    BY <2>1, FS_Subset, FS_CardinalityType
<1>2. q \in [1..Cardinality(S) -> S]
  BY DEF Listings
<1>3. q \in Seq(S)
  BY <1>1, <1>2
<1>4. q \in Seq(Ids)
  BY <1>1, <1>2
<1>5. \A i \in S : \E k \in DOMAIN q : q[k] = i
  BY <1>2 DEF Listings
<1> QED
  BY <1>4, <1>5

LEMMA SortedAreListings ==
  ASSUME NEW S, NEW q \in Sorted(S)
  PROVE  q \in Listings(S)
BY DEF Sorted

LEMMA WithIds == \A status : With(status) \in SUBSET Ids /\ Due \in SUBSET Ids
BY DEF With, Due

LEMMA HeadAndTail ==
  ASSUME NEW s \in Seq(Ids), s # <<>>
  PROVE  {s[k] : k \in DOMAIN s} = {Head(s)} \cup {Tail(s)[k] : k \in DOMAIN Tail(s)}
<1>1. /\ Head(s) = s[1] /\ Len(s) \in Nat \ {0}
      /\ DOMAIN s = 1..Len(s)
      /\ DOMAIN Tail(s) = 1..(Len(s) - 1)
      /\ \A k \in 1..(Len(s) - 1) : Tail(s)[k] = s[k + 1]
  OBVIOUS
<1> DEFINE t == Tail(s)
           n == Len(s)
<1> HIDE DEF t, n
<1>2. ASSUME NEW k \in 1..n PROVE s[k] \in {s[1]} \cup {t[l] : l \in 1..(n - 1)}
  <2>1. CASE k # 1
    <3>1. k - 1 \in 1..(n - 1) /\ t[k - 1] = s[k]
      BY <1>1, <2>1 DEF t, n
    <3> QED
      BY <3>1
  <2> QED
    BY <2>1
<1>3. ASSUME NEW l \in 1..(n - 1) PROVE t[l] \in {s[k] : k \in 1..n}
  <2>1. l + 1 \in 1..n /\ t[l] = s[l + 1]
    BY <1>1 DEF t, n
  <2> QED
    BY <2>1
<1>4. s[1] \in {s[k] : k \in 1..n}
  <2>1. 1 \in 1..n
    BY <1>1 DEF n
  <2> QED
    BY <2>1
<1>5. {s[k] : k \in 1..n} = {s[1]} \cup {t[l] : l \in 1..(n - 1)}
  BY <1>2, <1>3, <1>4
<1> QED
  BY <1>1, <1>5 DEF t, n

(***************************************************************************)
(* Types.  What makes them inductive: the sweep that schedules stop jobs   *)
(* has a next session, and a job inside a transaction has one of its own.  *)
(***************************************************************************)
SweepsAhead == \A p \in Pods : pc[p] = "stops.next" => mem[p].todo # <<>>

StoreOK ==
  /\ now \in 0..MaxNow /\ faults \in 0..MaxFaults
  /\ row \in [Ids -> [status: Statuses, start: Nat]]
  /\ opener \in [Ids -> [Subscribers -> Openers]]
  /\ startJob \in [Ids -> Jobs] /\ stopJob \in [Ids -> Jobs]

WorkersOK == pc \in [Pods -> Steps] /\ mem \in [Pods -> Mem] /\ SweepsAhead

TypeInv == StoreOK /\ WorkersOK

LEMMA TypeInvImpliesTypeOK == TypeInv => TypeOK
BY DEF TypeInv, TypeOK, StoreOK, WorkersOK

LEMMA InitTypes == Init => TypeInv
<1> SUFFICES ASSUME Init PROVE TypeInv
  OBVIOUS
<1>1. now \in 0..MaxNow /\ faults \in 0..MaxFaults
  BY ConstantsAssumption, SMT DEF Init, ConstantsAssumption
<1>2. row \in [Ids -> [status: Statuses, start: Nat]]
  BY DEF Init, Statuses
<1>3. opener \in [Ids -> [Subscribers -> Openers]]
  BY DEF Init, Openers
<1>4. startJob \in [Ids -> Jobs] /\ stopJob \in [Ids -> Jobs]
  BY DEF Init, NoJob, Jobs
<1>5. WorkersOK
  <2>1. pc \in [Pods -> Steps]
    BY DEF Init, Steps
  <2>2. mem \in [Pods -> Mem]
    BY DEF Init, Fresh, Mem
  <2> QED
    BY <2>1, <2>2 DEF Init, WorkersOK, SweepsAhead
<1> QED
  BY <1>1, <1>2, <1>3, <1>4, <1>5 DEF TypeInv, StoreOK

LEMMA FreshMem == Fresh \in Mem
BY DEF Fresh, Mem

LEMMA JobsOK ==
  /\ NoJob \in Jobs /\ Done \in Jobs
  /\ \A jobs \in [Ids -> Jobs], i \in Ids, t \in Nat : Added(jobs, i, t) \in [Ids -> Jobs]
  /\ \A jobs \in [Ids -> Jobs] : \A i : Retried(jobs, i) \in [Ids -> Jobs]
  /\ \A jobs \in [Ids -> Jobs] : \A i : Reclaimed(jobs, i) \in [Ids -> Jobs]
  /\ \A jobs \in [Ids -> Jobs] : \A lost : Removed(jobs, lost) \in [Ids -> Jobs]
<1>1. NoJob \in Jobs /\ Done \in Jobs
  <2>1. NoJob \in Jobs
    BY DEF NoJob, Jobs
  <2>2. Done \in Jobs
    BY <2>1 DEF Done, Jobs
  <2> QED
    BY <2>1, <2>2
<1>2. ASSUME NEW jobs \in [Ids -> Jobs], NEW i \in Ids, NEW t \in Nat
      PROVE  Added(jobs, i, t) \in [Ids -> Jobs]
  <2> DEFINE new == [NoJob EXCEPT !.state = "waiting", !.at = t]
  <2>2. new \in Jobs
    BY <1>1 DEF Jobs
  <2> HIDE DEF new
  <2>3. [jobs EXCEPT ![i] = new] \in [Ids -> Jobs]
    BY <2>2
  <2> QED
    BY <2>3, Zenon DEF Added, new
<1>3. ASSUME NEW jobs \in [Ids -> Jobs], NEW i
      PROVE  Retried(jobs, i) \in [Ids -> Jobs]
  <2>1. CASE i \in Ids /\ jobs[i].tries # 1
    <3>1. ASSUME NEW j \in Jobs, j.tries # 1
          PROVE  [j EXCEPT !.state = "waiting", !.tries = j.tries - 1] \in Jobs
      <4>1. j.tries - 1 \in 1..3
        BY <3>1 DEF Jobs
      <4>2. ASSUME NEW n \in 1..3
            PROVE  [j EXCEPT !.state = "waiting", !.tries = n] \in Jobs
        BY DEF Jobs
      <4> QED
        BY <4>1, <4>2
    <3>2. Retried(jobs, i) =
            [jobs EXCEPT ![i] = [jobs[i] EXCEPT !.state = "waiting", !.tries = jobs[i].tries - 1]]
      BY <2>1 DEF Retried
    <3> QED
      BY <2>1, <3>1, <3>2, ZenonT(40)
  <2>2. CASE jobs[i].tries = 1
    BY <1>1, <2>2 DEF Retried
  <2>3. CASE i \notin Ids
    BY <1>1, <2>3 DEF Retried
  <2> QED
    BY <2>1, <2>2, <2>3
<1>4. ASSUME NEW jobs \in [Ids -> Jobs], NEW i
      PROVE  Reclaimed(jobs, i) \in [Ids -> Jobs]
  <2>1. CASE i \in Ids
    BY <1>1, <2>1 DEF Reclaimed, Jobs
  <2>2. CASE i \notin Ids
    BY <2>2 DEF Reclaimed
  <2> QED
    BY <2>1, <2>2
<1>5. ASSUME NEW jobs \in [Ids -> Jobs], NEW lost
      PROVE  Removed(jobs, lost) \in [Ids -> Jobs]
  BY <1>1 DEF Removed
<1> QED
  BY <1>1, <1>2, <1>3, <1>4, <1>5

LEMMA TimesOK ==
  ASSUME row \in [Ids -> [status: Statuses, start: Nat]]
  PROVE  /\ \A t \in Nat : Until(t) \in Nat
         /\ \A i \in Ids : EndTime(i) \in Nat
BY ConstantsAssumption DEF ConstantsAssumption, EndTime, Until

(***************************************************************************)
(* A worker step keeps the types of pc and mem.                            *)
(***************************************************************************)
LEMMA StayTypes ==
  ASSUME WorkersOK, NEW p \in Pods, NEW step \in Steps \ {"stops.next"}, Goto(p, step), mem' = mem
  PROVE  WorkersOK'
BY DEF WorkersOK, SweepsAhead, Goto

LEMMA MoveTypes ==
  ASSUME WorkersOK, NEW p \in Pods, NEW step \in Steps, Goto(p, step),
         NEW m \in Mem, mem' = [mem EXCEPT ![p] = m],
         step = "stops.next" => m.todo # <<>>
  PROVE  WorkersOK'
BY DEF WorkersOK, SweepsAhead, Goto

LEMMA IdleTypes ==
  ASSUME WorkersOK, NEW p \in Pods, Idle(p)
  PROVE  WorkersOK'
<1>1. "idle" \in Steps
  BY DEF Steps
<1> QED
  BY <1>1, FreshMem, MoveTypes DEF Idle

LEMMA NextOpeningTypes ==
  ASSUME WorkersOK, NEW p \in Pods, NEW todo \in Seq(Plans), NextOpening(p, todo)
  PROVE  WorkersOK'
<1>1. CASE todo = <<>>
  BY <1>1, IdleTypes DEF NextOpening
<1>2. CASE todo # <<>>
  <2> DEFINE m == [Fresh EXCEPT !.via = "sync", !.id = Head(todo).id, !.todo = Tail(todo)]
  <2>1. Head(todo) \in Plans /\ Tail(todo) \in Seq(Plans)
    BY <1>2, HeadTailProperties
  <2>2. m \in Mem
    <3>1. Head(todo).id \in Ids
      BY <2>1 DEF Plans
    <3> QED
      BY <2>1, <3>1, FreshMem DEF Mem
  <2>3. Goto(p, "check") /\ mem' = [mem EXCEPT ![p] = m]
    BY <1>2 DEF NextOpening
  <2>4. "check" \in Steps
    BY DEF Steps, TxSteps
  <2> HIDE DEF m
  <2> QED
    BY <2>2, <2>3, <2>4, MoveTypes
<1> QED
  BY <1>1, <1>2

LEMMA NextStopTypes ==
  ASSUME WorkersOK, NEW p \in Pods, NEW todo \in Seq(Plans), NextStop(p, todo)
  PROVE  WorkersOK'
<1>1. CASE todo = <<>>
  BY <1>1, IdleTypes DEF NextStop
<1>2. CASE todo # <<>>
  <2> DEFINE m == [mem[p] EXCEPT !.todo = todo]
  <2>1. m \in Mem /\ m.todo = todo
    <3>1. mem[p] \in Mem
      BY DEF WorkersOK
    <3>2. m.todo = todo
      BY <3>1 DEF Mem
    <3>3. m \in Mem
      BY <3>1 DEF Mem
    <3> QED
      BY <3>2, <3>3
  <2>2. Goto(p, "stops.next") /\ mem' = [mem EXCEPT ![p] = m]
    BY <1>2 DEF NextStop, WorkersOK
  <2>3. "stops.next" \in Steps
    BY DEF Steps
  <2> HIDE DEF m
  <2> QED
    BY <1>2, <2>1, <2>2, <2>3, MoveTypes
<1> QED
  BY <1>1, <1>2

LEMMA GiveUpTypes ==
  ASSUME WorkersOK, startJob \in [Ids -> Jobs], stopJob \in [Ids -> Jobs], NEW p \in Pods, GiveUp(p)
  PROVE  WorkersOK' /\ startJob' \in [Ids -> Jobs] /\ stopJob' \in [Ids -> Jobs]
<1>1. stopJob' \in [Ids -> Jobs]
  BY DEF GiveUp
<1>2. CASE mem[p].via = "start" /\ Idle(p) /\ startJob' = [startJob EXCEPT ![mem[p].id] = Done]
  BY <1>1, <1>2, IdleTypes, JobsOK
<1>3. CASE NextOpening(p, mem[p].todo) /\ UNCHANGED startJob
  <2>1. mem[p].todo \in Seq(Plans)
    BY DEF WorkersOK, Mem
  <2> QED
    BY <1>1, <1>3, <2>1, NextOpeningTypes
<1> QED
  BY <1>2, <1>3 DEF GiveUp

LEMMA SyncPlans ==
  ASSUME NEW q \in Seq(Ids)
  PROVE  [k \in DOMAIN q |-> [id |-> q[k], end |-> 0]] \in Seq(Plans)
<1>1. Len(q) \in Nat /\ DOMAIN q = 1..Len(q) /\ \A k \in 1..Len(q) : q[k] \in Ids
  BY LenProperties, ElementOfSeq
<1>2. \A k \in 1..Len(q) : [id |-> q[k], end |-> 0] \in Plans
  BY <1>1 DEF Plans
<1> QED
  BY <1>1, <1>2

LEMMA StepsOK ==
  /\ TxSteps \subseteq Steps \ {"stops.next"}
  /\ {"finish", "sync.list", "stops.list", "stop.read", "stop.write"} \subseteq Steps \ {"stops.next"}
BY DEF Steps, TxSteps

(***************************************************************************)
(* Every step keeps the types.                                             *)
(***************************************************************************)
LEMMA OpenerTypes ==
  ASSUME TypeInv, NEW i \in Ids, NEW p \in Subscribers,
         ReadUpcoming(i, p) \/ OpenerStep(i, p) \/ OpenerFails(i, p)
  PROVE  TypeInv'
<1> USE DEF TypeInv, StoreOK
<1>1. UNCHANGED worker => WorkersOK'
  BY DEF worker, WorkersOK, SweepsAhead
<1>2. Over \in Openers /\ \A step \in {"open", "schedule"} : [pc |-> step, time |-> now] \in Openers
  BY SMT DEF Over, Openers
<1>3. CASE ReadUpcoming(i, p)
  BY <1>1, <1>2, <1>3 DEF ReadUpcoming, queue
<1>4. CASE OpenSession(i, p)
  <2>1. opener[i][p].time \in Nat
    BY DEF Openers
  <2>2. row' \in [Ids -> [status: Statuses, start: Nat]]
    BY <1>4, <2>1 DEF OpenSession, Statuses
  <2>3. opener' \in [Ids -> [Subscribers -> Openers]]
    <3>1. ASSUME NEW o \in Openers PROVE [o EXCEPT !.pc = "schedule"] \in Openers
      BY DEF Openers
    <3>2. opener' = [opener EXCEPT ![i] = [opener[i] EXCEPT ![p] = [opener[i][p] EXCEPT !.pc = "schedule"]]]
      BY <1>4 DEF OpenSession
    <3> QED
      BY <3>1, <3>2
  <2> QED
    BY <1>1, <1>4, <2>2, <2>3 DEF OpenSession, queue
<1>5. CASE ScheduleStart(i, p)
  <2>1. Until(opener[i][p].time + StartAfter) \in Nat
    <3>1. opener[i][p].time \in Nat
      BY DEF Openers
    <3> QED
      BY <3>1, TimesOK, ConstantsAssumption DEF ConstantsAssumption
  <2>2. startJob' \in [Ids -> Jobs]
    BY <1>5, <2>1, JobsOK DEF ScheduleStart
  <2> QED
    BY <1>1, <1>2, <1>5, <2>2 DEF ScheduleStart
<1>6. CASE OpenerFails(i, p)
  <2>1. faults' \in 0..MaxFaults
    BY <1>6, ConstantsAssumption DEF OpenerFails, Fault, ConstantsAssumption
  <2>2. startJob' \in [Ids -> Jobs]
    BY <1>6, JobsOK DEF OpenerFails
  <2> QED
    BY <1>1, <1>2, <1>6, <2>1, <2>2 DEF OpenerFails
<1> QED
  BY <1>3, <1>4, <1>5, <1>6 DEF OpenerStep

LEMMA BeginTypes ==
  ASSUME WorkersOK, NEW p \in Pods, NEW step \in Steps \ {"stops.next"},
         NEW via \in {"start", "stop", "sync", "stops"}, NEW i \in Ids \cup {0}, Begin(p, step, via, i)
  PROVE  WorkersOK'
<1> DEFINE m == [mem[p] EXCEPT !.via = via, !.id = i]
<1>1. mem[p] \in Mem
  BY DEF WorkersOK
<1>2. m \in Mem
  BY <1>1 DEF Mem
<1>3. Goto(p, step) /\ mem' = [mem EXCEPT ![p] = m]
  BY DEF Begin, WorkersOK
<1> HIDE DEF m
<1> QED
  BY <1>2, <1>3, MoveTypes

LEMMA TakeTypes ==
  ASSUME TypeInv, NEW p \in Pods,
         \/ \E i \in Ids : TakeStart(p, i) \/ TakeStop(p, i)
         \/ TakeSync(p) \/ TakeStops(p)
  PROVE  TypeInv'
<1> USE DEF TypeInv, StoreOK
<1>1. ASSUME NEW jobs \in [Ids -> Jobs], NEW i \in Ids
      PROVE  [jobs EXCEPT ![i].state = "active"] \in [Ids -> Jobs]
  <2>1. ASSUME NEW j \in Jobs PROVE [j EXCEPT !.state = "active"] \in Jobs
    BY DEF Jobs
  <2> QED
    BY <2>1
<1>2. "check" \in Steps \ {"stops.next"}
  BY StepsOK DEF TxSteps
<1>3. ASSUME NEW i \in Ids, TakeStart(p, i) PROVE TypeInv'
  BY <1>1, <1>2, <1>3, BeginTypes DEF TakeStart
<1>4. ASSUME NEW i \in Ids, TakeStop(p, i) PROVE TypeInv'
  BY <1>1, <1>4, StepsOK, BeginTypes DEF TakeStop
<1>5. CASE TakeSync(p)
  BY <1>5, StepsOK, BeginTypes DEF TakeSync, queue
<1>6. CASE TakeStops(p)
  BY <1>6, StepsOK, BeginTypes DEF TakeStops, queue
<1> QED
  BY <1>3, <1>4, <1>5, <1>6

LEMMA TransactionTypes ==
  ASSUME TypeInv, NEW p \in Pods,
         \/ CheckOpening(p) \/ CheckOthers(p) \/ SelectOpening(p) \/ LockRow(p) \/ CheckFinal(p)
         \/ Commit(p) \/ FinishStart(p)
  PROVE  TypeInv'
<1> USE DEF TypeInv, StoreOK
<1>s. TxSteps = {"check", "others", "select", "lock", "commit"}
  BY DEF TxSteps
<1>m. mem[p] \in Mem
  BY DEF WorkersOK
<1>g. GiveUp(p) => WorkersOK' /\ startJob' \in [Ids -> Jobs] /\ stopJob' \in [Ids -> Jobs]
  BY GiveUpTypes
<1>c. ASSUME NEW step \in TxSteps, Continue(p, step)
      PROVE  WorkersOK' /\ startJob' \in [Ids -> Jobs] /\ stopJob' \in [Ids -> Jobs]
  BY <1>c, StepsOK, StayTypes DEF Continue, queue
<1>1. CASE CheckOpening(p)
  BY <1>1, <1>s, <1>g, <1>c DEF CheckOpening
<1>2. CASE CheckOthers(p)
  BY <1>2, <1>s, <1>g, <1>c DEF CheckOthers
<1>3. CASE SelectOpening(p)
  <2>1. PICK q \in Sorted(With("opening")) : mem' = [mem EXCEPT ![p].want = q]
    BY <1>3 DEF SelectOpening
  <2>2. q \in Seq(Ids)
    BY WithIds, SortedAreListings, ListingsAreComplete
  <2> DEFINE m == [mem[p] EXCEPT !.want = q]
  <2>3. m \in Mem
    BY <1>m, <2>2 DEF Mem
  <2>4. mem' = [mem EXCEPT ![p] = m]
    BY <2>1 DEF WorkersOK
  <2> HIDE DEF m
  <2>5. WorkersOK'
    BY <1>3, <1>s, <2>3, <2>4, StepsOK, MoveTypes DEF SelectOpening
  <2> QED
    BY <1>3, <2>5 DEF SelectOpening, queue
<1>4. CASE LockRow(p)
  <2> DEFINE i == Head(mem[p].want)
             listed == IF StillOpening(i) THEN Append(mem[p].list, i) ELSE mem[p].list
             m == [mem[p] EXCEPT !.want = Tail(mem[p].want), !.held = mem[p].held \cup {i},
                                 !.list = listed]
  <2>1. mem[p].want \in Seq(Ids) /\ mem[p].list \in Seq(Ids) /\ mem[p].held \in SUBSET Ids
    BY <1>m DEF Mem
  <2>2. i \in Ids /\ Tail(mem[p].want) \in Seq(Ids)
    BY <1>4, <2>1, HeadTailProperties DEF LockRow
  <2>3. listed \in Seq(Ids)
    BY <2>1, <2>2, AppendProperties
  <2>4. mem' = [mem EXCEPT ![p] = m]
    BY <1>4 DEF LockRow, WorkersOK
  <2>5. m \in Mem
    <3> HIDE DEF listed, i
    <3>1. ASSUME NEW w \in Seq(Ids), NEW h \in SUBSET Ids, NEW l \in Seq(Ids)
          PROVE  [mem[p] EXCEPT !.want = w, !.held = h, !.list = l] \in Mem
      BY <1>m DEF Mem
    <3>2. mem[p].held \cup {i} \in SUBSET Ids
      BY <2>1, <2>2
    <3> QED
      BY <2>2, <2>3, <3>1, <3>2
  <2> HIDE DEF m
  <2>6. pc' = [pc EXCEPT ![p] = "lock"] /\ "lock" \in Steps
    BY <1>4, <1>s, StepsOK DEF LockRow, WorkersOK
  <2>7. WorkersOK'
    BY <2>4, <2>5, <2>6, MoveTypes DEF Goto
  <2> QED
    BY <1>4, <2>7 DEF LockRow, queue
<1>5. CASE CheckFinal(p)
  BY <1>5, <1>s, <1>g, <1>c DEF CheckFinal
<1>6. CASE Commit(p)
  <2>1. row' \in [Ids -> [status: Statuses, start: Nat]]
    BY <1>6 DEF Commit, Statuses
  <2>2. CASE NextOpening(p, mem[p].todo)
    <3>1. mem[p].todo \in Seq(Plans)
      BY <1>m DEF Mem
    <3>2. WorkersOK'
      BY <2>2, <3>1, NextOpeningTypes
    <3> QED
      BY <1>6, <2>1, <3>2 DEF Commit, queue
  <2>3. CASE Goto(p, "finish") /\
             mem' = [mem EXCEPT ![p] = [Fresh EXCEPT !.via = "start", !.id = mem[p].id]]
    <3> DEFINE m == [Fresh EXCEPT !.via = "start", !.id = mem[p].id]
    <3>1. mem[p].id \in Ids \cup {0}
      BY <1>m DEF Mem
    <3>2. m \in Mem
      BY <3>1, FreshMem DEF Mem
    <3> HIDE DEF m
    <3>3. WorkersOK'
      BY <2>3, <3>2, StepsOK, MoveTypes DEF m
    <3> QED
      BY <1>6, <2>1, <3>3 DEF Commit, queue
  <2> QED
    BY <1>6, <2>2, <2>3 DEF Commit
<1>7. CASE FinishStart(p)
  BY <1>7, IdleTypes, JobsOK DEF FinishStart
<1> QED
  BY <1>1, <1>2, <1>3, <1>4, <1>5, <1>6, <1>7

LEMMA SweepTypes ==
  ASSUME TypeInv, NEW p \in Pods,
         ListOpening(p) \/ ListLive(p) \/ ScheduleStop(p) \/ ReadStatus(p) \/ MarkTimeReached(p)
  PROVE  TypeInv'
<1> USE DEF TypeInv, StoreOK
<1>m. mem[p].todo \in Seq(Plans)
  <2>1. mem[p] \in Mem
    BY DEF WorkersOK
  <2> QED
    BY <2>1 DEF Mem
<1>f. FinishStop(p) => WorkersOK' /\ startJob' \in [Ids -> Jobs] /\ stopJob' \in [Ids -> Jobs]
  BY IdleTypes, JobsOK DEF FinishStop
<1>1. CASE ListOpening(p)
  <2>1. PICK q \in Sorted(Due) : NextOpening(p, [k \in DOMAIN q |-> [id |-> q[k], end |-> 0]])
    BY <1>1 DEF ListOpening
  <2>2. q \in Seq(Ids)
    BY WithIds, SortedAreListings, ListingsAreComplete
  <2>3. [k \in DOMAIN q |-> [id |-> q[k], end |-> 0]] \in Seq(Plans)
    BY <2>2, SyncPlans
  <2>4. WorkersOK'
    BY <2>1, <2>3, NextOpeningTypes
  <2> QED
    BY <1>1, <2>4 DEF ListOpening, queue
<1>2. CASE ListLive(p)
  <2>1. PICK q \in Listings(With("live")) :
          NextStop(p, [k \in DOMAIN q |-> [id |-> q[k], end |-> EndTime(q[k])]])
    BY <1>2 DEF ListLive
  <2>2. q \in Seq(Ids)
    BY WithIds, ListingsAreComplete
  <2>3. \A k \in DOMAIN q : q[k] \in Ids /\ EndTime(q[k]) \in Nat
    BY <2>2, TimesOK
  <2>4. [k \in DOMAIN q |-> [id |-> q[k], end |-> EndTime(q[k])]] \in Seq(Plans)
    <3>1. Len(q) \in Nat /\ DOMAIN q = 1..Len(q)
      BY <2>2, LenProperties
    <3>2. \A k \in 1..Len(q) : [id |-> q[k], end |-> EndTime(q[k])] \in Plans
      BY <2>3, <3>1 DEF Plans
    <3> QED
      BY <3>1, <3>2
  <2>5. WorkersOK'
    BY <2>1, <2>4, NextStopTypes
  <2> QED
    BY <1>2, <2>5 DEF ListLive, queue
<1>3. CASE ScheduleStop(p)
  <2>1. mem[p].todo # <<>>
    BY <1>3 DEF ScheduleStop, WorkersOK, SweepsAhead
  <2>2. Head(mem[p].todo) \in Plans /\ Tail(mem[p].todo) \in Seq(Plans)
    BY <1>m, <2>1, HeadTailProperties
  <2>3. stopJob' \in [Ids -> Jobs]
    BY <1>3, <2>2, JobsOK DEF ScheduleStop, Plans
  <2>4. WorkersOK'
    BY <1>3, <2>2, NextStopTypes DEF ScheduleStop
  <2> QED
    BY <1>3, <2>3, <2>4 DEF ScheduleStop
<1>4. CASE ReadStatus(p)
  <2>1. CASE Continue(p, "stop.write")
    BY <1>4, <2>1, StepsOK, StayTypes DEF ReadStatus, Continue, queue
  <2>2. CASE FinishStop(p)
    BY <1>4, <1>f, <2>2 DEF ReadStatus
  <2> QED
    BY <1>4, <2>1, <2>2 DEF ReadStatus
<1>5. CASE MarkTimeReached(p)
  <2>1. row' \in [Ids -> [status: Statuses, start: Nat]]
    BY <1>5 DEF MarkTimeReached, Statuses
  <2> QED
    BY <1>5, <1>f, <2>1 DEF MarkTimeReached
<1> QED
  BY <1>1, <1>2, <1>3, <1>4, <1>5

LEMMA FaultTypes ==
  ASSUME TypeInv, NEW p \in Pods, DbFails(p) \/ RedisFails(p) \/ Crash(p)
  PROVE  TypeInv'
<1> USE DEF TypeInv, StoreOK
<1>f. \A kind : Fault(kind) => faults' \in 0..MaxFaults
  BY ConstantsAssumption DEF Fault, ConstantsAssumption
<1>1. CASE DbFails(p)
  <2>1. GiveUp(p) => WorkersOK' /\ startJob' \in [Ids -> Jobs] /\ stopJob' \in [Ids -> Jobs]
    BY GiveUpTypes
  <2>2. ASSUME Idle(p) PROVE WorkersOK'
    BY <2>2, IdleTypes
  <2>3. /\ Retried(startJob, mem[p].id) \in [Ids -> Jobs]
        /\ Retried(stopJob, mem[p].id) \in [Ids -> Jobs]
    BY JobsOK
  <2> QED
    BY <1>1, <1>f, <2>1, <2>2, <2>3 DEF DbFails, queue
<1>2. CASE RedisFails(p)
  <2>1. mem[p].todo # <<>>
    BY <1>2 DEF RedisFails, WorkersOK, SweepsAhead
  <2>2. mem[p] \in Mem
    BY DEF WorkersOK
  <2>3. Tail(mem[p].todo) \in Seq(Plans)
    BY <2>1, <2>2, HeadTailProperties DEF Mem
  <2>4. WorkersOK'
    BY <1>2, <2>3, NextStopTypes DEF RedisFails
  <2> QED
    BY <1>2, <1>f, <2>4, JobsOK, SMTT(30) DEF RedisFails
<1>3. CASE Crash(p)
  <2>1. opener' \in [Ids -> [Subscribers -> Openers]]
    <3>1. Over \in Openers
      BY DEF Over, Openers
    <3> QED
      BY <1>3, <3>1 DEF Crash
  <2>2. startJob' \in [Ids -> Jobs]
    <3>1. PICK lost : startJob' = IF mem[p].via = "start"
                                  THEN Reclaimed(Removed(startJob, lost), mem[p].id)
                                  ELSE Removed(startJob, lost)
      BY <1>3, Zenon DEF Crash
    <3> QED
      BY <3>1, JobsOK
  <2>3. stopJob' \in [Ids -> Jobs]
    <3>1. PICK lost : stopJob' = IF mem[p].via = "stop" THEN Reclaimed(stopJob, mem[p].id)
                                 ELSE Removed(stopJob, lost)
      BY <1>3, Zenon DEF Crash
    <3> QED
      BY <3>1, JobsOK
  <2>4. WorkersOK'
    BY <1>3, IdleTypes DEF Crash
  <2> QED
    BY <1>3, <1>f, <2>1, <2>2, <2>3, <2>4 DEF Crash
<1> QED
  BY <1>1, <1>2, <1>3

LEMMA NextTypes ==
  ASSUME TypeInv, [Next]_vars
  PROVE  TypeInv'
<1>1. CASE UNCHANGED vars
  BY <1>1 DEF vars, queue, worker, TypeInv, StoreOK, WorkersOK, SweepsAhead
<1>2. CASE Tick
  BY <1>2, ConstantsAssumption
     DEF Tick, ConstantsAssumption, queue, worker, TypeInv, StoreOK, WorkersOK, SweepsAhead
<1>3. ASSUME NEW i \in Ids, Complete(i) PROVE TypeInv'
  <2>1. row' \in [Ids -> [status: Statuses, start: Nat]]
    BY <1>3 DEF Complete, Statuses, TypeInv, StoreOK
  <2> QED
    BY <1>3, <2>1 DEF Complete, queue, worker, TypeInv, StoreOK, WorkersOK, SweepsAhead
<1> QED
  BY <1>1, <1>2, <1>3, OpenerTypes, TakeTypes, TransactionTypes, SweepTypes, FaultTypes
     DEF Next, JobStep

\* Whatever the faults and however many processes, every variable keeps its type; a job
\* never has more than its three attempts.
THEOREM TypeCorrect == Spec => []TypeOK
<1>1. Spec => []TypeInv
  BY InitTypes, NextTypes, PTL DEF Spec
<1> QED
  BY <1>1, TypeInvImpliesTypeOK, PTL

(***************************************************************************)
(* The transaction of startLiveSession.  With one subscribed process a     *)
(* session is opened once, so that its status only moves forward.          *)
(***************************************************************************)
OneSubscriber == \A s, t \in Subscribers : s = t

\* A job works on a session of its own.
OwnSession == \A p \in Pods :
  pc[p] \in TxSteps \cup {"stop.read", "stop.write"} => mem[p].id \in Ids

\* Past its first check a transaction's session has been opened; the stop job's has been LIVE.
OpenedBefore ==
  /\ \A i \in Ids, s \in Subscribers : opener[i][s].pc = "open" => row[i].status = "upcoming"
  /\ \A p \in Pods : pc[p] \in {"others", "select", "lock", "commit"}
       => row[mem[p].id].status # "upcoming"
  /\ \A p \in Pods : pc[p] = "stop.write" => row[mem[p].id].status \in Ended \cup {"live"}

\* What the row locks are worth: nobody shares them, and the first session of the locked
\* list stays OPENING while its row is locked.
LocksHeld ==
  /\ \A p \in Pods : pc[p] \notin {"lock", "commit"} => mem[p].held = {} /\ mem[p].list = <<>>
  /\ \A p, q \in Pods : p # q => mem[p].held \cap mem[q].held = {}
  /\ \A p \in Pods : mem[p].list # <<>>
       => Head(mem[p].list) \in mem[p].held /\ row[Head(mem[p].list)].status = "opening"
  /\ \A p \in Pods : pc[p] = "commit" => FirstListed(p) /\ mem[p].want = <<>>

\* Of two transactions that may still start their sessions, one wants the other's row.
Wanted(p) == {mem[p].want[k] : k \in DOMAIN mem[p].want} \cup mem[p].held

Selected == {p \in Pods : pc[p] \in {"lock", "commit"} /\ row[mem[p].id].status = "opening"}

SeeEachOther == \A p, q \in Selected :
  mem[p].id # mem[q].id => mem[p].id \in Wanted(q) \/ mem[q].id \in Wanted(p)

\* A transaction that is about to commit is right that nothing is LIVE.
NoneLive == \A p \in Pods : pc[p] = "commit" => With("live") = {}

SafeInv ==
  TypeInv /\ OwnSession /\ OpenedBefore /\ LocksHeld /\ SeeEachOther /\ NoneLive /\ OneLivePerProfile

LEMMA InitSafe == Init => SafeInv
<1> SUFFICES ASSUME Init PROVE SafeInv
  OBVIOUS
<1>1. TypeInv
  BY InitTypes
<1>2. \A p \in Pods : pc[p] = "idle" /\ mem[p] = Fresh
  BY DEF Init
<1>3. OwnSession /\ OpenedBefore
  BY <1>2 DEF Init, OwnSession, OpenedBefore, TxSteps
<1>4. LocksHeld
  BY <1>2 DEF LocksHeld, Fresh
<1>5. SeeEachOther /\ NoneLive
  BY <1>2 DEF SeeEachOther, Selected, NoneLive
<1>6. OneLivePerProfile
  BY DEF Init, OneLivePerProfile, With
<1> QED
  BY <1>1, <1>3, <1>4, <1>5, <1>6 DEF SafeInv

\* The row locks exclude each other: one transaction at a time is about to commit.
LEMMA OneCommits ==
  ASSUME SafeInv, NEW p \in Pods, NEW q \in Pods, pc[p] = "commit", pc[q] = "commit"
  PROVE  p = q
<1> SUFFICES ASSUME p # q PROVE FALSE
  OBVIOUS
<1>1. ASSUME NEW r \in Pods, pc[r] = "commit"
      PROVE  /\ mem[r].id \in mem[r].held /\ r \in Selected /\ Wanted(r) = mem[r].held
  <2>1. FirstListed(r) /\ mem[r].want = <<>>
    BY <1>1 DEF SafeInv, LocksHeld
  <2>2. mem[r].id \in mem[r].held /\ row[mem[r].id].status = "opening"
    BY <2>1 DEF SafeInv, LocksHeld, FirstListed
  <2>3. {mem[r].want[k] : k \in DOMAIN mem[r].want} = {}
    BY <2>1
  <2> QED
    BY <1>1, <2>2, <2>3 DEF Selected, Wanted
<1>2. mem[p].id \in mem[p].held /\ mem[q].id \in mem[q].held /\ mem[p].held \cap mem[q].held = {}
  BY <1>1 DEF SafeInv, LocksHeld
<1>3. mem[p].id # mem[q].id => mem[p].id \in mem[q].held \/ mem[q].id \in mem[p].held
  BY <1>1 DEF SafeInv, SeeEachOther
<1> QED
  BY <1>2, <1>3

\* A transaction about to commit holds the lock of its session, which is OPENING.
LEMMA CommitHolds ==
  ASSUME SafeInv, NEW p \in Pods, pc[p] = "commit"
  PROVE  /\ mem[p].id \in Ids /\ mem[p].id \in mem[p].held
         /\ row[mem[p].id].status = "opening"
<1>1. mem[p].id \in Ids
  BY DEF SafeInv, OwnSession, TxSteps
<1>2. FirstListed(p)
  BY DEF SafeInv, LocksHeld
<1> QED
  BY <1>1, <1>2 DEF SafeInv, LocksHeld, FirstListed

(***************************************************************************)
(* Kinds of steps.                                                         *)
(***************************************************************************)
Others(p) == \A q \in Pods : q # p => pc'[q] = pc[q] /\ mem'[q] = mem[q]

\* Openers go on, but none finds its session UPCOMING without reading it.
OpenersGoOn == \A i \in Ids, s \in Subscribers :
  opener'[i][s].pc = "open" => opener[i][s].pc = "open" \/ row'[i].status = "upcoming"

\* p goes to a step outside a transaction, and holds no locks.
Leaves(p) ==
  /\ Others(p)
  /\ pc'[p] \in {"idle", "check", "finish", "stop.read", "sync.list", "stops.list", "stops.next"}
  /\ mem'[p].held = {} /\ mem'[p].list = <<>>
  /\ pc'[p] \in {"check", "stop.read"} => mem'[p].id \in Ids

\* What happens to the rows while p leaves, or while no worker moves.
RowsGoOn ==
  /\ DOMAIN row' = Ids
  /\ \A i \in Ids : row'[i].status # row[i].status =>
       row[i].status \in Ended \cup {"live"} /\ row'[i].status \in Ended

LEMMA RestSafe ==
  ASSUME SafeInv, TypeInv', UNCHANGED worker, RowsGoOn, OpenersGoOn,
         \A i \in Ids : row'[i].status # row[i].status => ~Locked(i)
  PROVE  SafeInv'
<1> USE DEF SafeInv, worker
<1>1. OwnSession'
  BY DEF OwnSession
<1>2. OpenedBefore'
  BY DEF OpenedBefore, OwnSession, RowsGoOn, OpenersGoOn, Ended, TxSteps
<1>3. LocksHeld'
  <2>1. \A p \in Pods : mem[p].held \subseteq Ids
    BY DEF TypeInv, WorkersOK, Mem
  <2>2. \A p \in Pods : FirstListed(p)' <=> FirstListed(p)
    BY DEF FirstListed
  <2> QED
    BY <2>1, <2>2 DEF LocksHeld, Locked
<1>4. SeeEachOther'
  <2>1. Selected' \subseteq Selected
    BY DEF Selected, OwnSession, RowsGoOn, Ended, TxSteps
  <2>2. \A p \in Pods : Wanted(p)' = Wanted(p)
    BY DEF Wanted
  <2> QED
    BY <2>1, <2>2 DEF SeeEachOther, Selected
<1>5. With("live")' \subseteq With("live")
  BY DEF With, RowsGoOn, Ended
<1> QED
  BY <1>1, <1>2, <1>3, <1>4, <1>5 DEF NoneLive, OneLivePerProfile

LEMMA LeavesSafe ==
  ASSUME SafeInv, TypeInv', NEW p \in Pods, Leaves(p), RowsGoOn, OpenersGoOn
  PROVE  SafeInv'
<1> USE DEF SafeInv, Leaves, Others
<1>1. OwnSession'
  BY DEF OwnSession, TxSteps
<1>2. OpenedBefore'
  BY DEF OpenedBefore, OwnSession, RowsGoOn, OpenersGoOn, Ended, TxSteps
<1>3. LocksHeld'
  <2>1. \A q \in Pods : mem[q].held \subseteq Ids
    BY DEF TypeInv, WorkersOK, Mem
  <2>2. \A q \in Pods : q # p => (FirstListed(q)' <=> FirstListed(q))
    BY DEF FirstListed
  <2>3. \A i \in Ids : row[i].status = "opening" => row'[i].status = "opening"
    BY DEF RowsGoOn, Ended
  <2> QED
    BY <2>1, <2>2, <2>3 DEF LocksHeld
<1>4. SeeEachOther'
  <2>1. Selected' \subseteq Selected \ {p}
    BY DEF Selected, OwnSession, RowsGoOn, Ended, TxSteps
  <2>2. \A q \in Pods \ {p} : Wanted(q)' = Wanted(q)
    BY DEF Wanted
  <2> QED
    BY <2>1, <2>2 DEF SeeEachOther, Selected
<1>5. With("live")' \subseteq With("live")
  BY DEF With, RowsGoOn, Ended
<1> QED
  BY <1>1, <1>2, <1>3, <1>4, <1>5 DEF NoneLive, OneLivePerProfile

LEMMA CommitSafe ==
  ASSUME SafeInv, TypeInv', NEW p \in Pods, pc[p] = "commit", Leaves(p),
         row' = [row EXCEPT ![mem[p].id].status = "live"], UNCHANGED opener
  PROVE  SafeInv'
<1> USE DEF SafeInv, Leaves, Others
<1> DEFINE i == mem[p].id
<1>0. /\ i \in Ids /\ i \in mem[p].held /\ row[i].status = "opening"
      /\ row'[i].status = "live" /\ \A j \in Ids : j # i => row'[j] = row[j]
  BY CommitHolds DEF TypeInv, StoreOK
<1> HIDE DEF i
<1>1. OwnSession'
  BY DEF OwnSession, TxSteps
<1>2. OpenedBefore'
  BY <1>0 DEF OpenedBefore, OwnSession, TxSteps
<1>3. LocksHeld'
  <2>1. \A q \in Pods : q # p => mem[q].held \subseteq Ids /\ i \notin mem[q].held
    BY <1>0 DEF TypeInv, WorkersOK, Mem, LocksHeld
  <2>2. \A q \in Pods : q # p => (FirstListed(q)' <=> FirstListed(q))
    BY DEF FirstListed
  <2> QED
    BY <1>0, <2>1, <2>2 DEF LocksHeld
<1>4. SeeEachOther'
  <2>1. Selected' \subseteq Selected \ {p}
    BY <1>0 DEF Selected, OwnSession, TxSteps
  <2>2. \A q \in Pods \ {p} : Wanted(q)' = Wanted(q)
    BY DEF Wanted
  <2> QED
    BY <2>1, <2>2 DEF SeeEachOther, Selected
<1>5. NoneLive'
  <2>1. \A q \in Pods : pc'[q] # "commit"
    BY OneCommits
  <2> QED
    BY <2>1 DEF NoneLive
<1>6. With("live")' = {i}
  BY <1>0 DEF NoneLive, With
<1> QED
  BY <1>1, <1>2, <1>3, <1>4, <1>5, <1>6 DEF OneLivePerProfile

LEMMA OpenSafe ==
  ASSUME SafeInv, TypeInv', OneSubscriber, NEW i \in Ids, NEW s \in Subscribers, OpenSession(i, s)
  PROVE  SafeInv'
<1> USE DEF SafeInv
<1>0. /\ row[i].status = "upcoming" /\ row'[i].status = "opening"
      /\ \A j \in Ids : j # i => row'[j] = row[j]
      /\ UNCHANGED worker
  BY DEF OpenSession, OpenedBefore, TypeInv, StoreOK
<1>1. OwnSession'
  BY <1>0 DEF OwnSession, worker
<1>2. OpenedBefore'
  <2>1. ASSUME NEW j \in Ids, NEW t \in Subscribers, opener'[j][t].pc = "open"
        PROVE  row'[j].status = "upcoming"
    <3>1. opener[j][t].pc = "open" /\ j # i
      BY <2>1 DEF OpenSession, OneSubscriber, TypeInv, StoreOK, Openers
    <3> QED
      BY <1>0, <3>1 DEF OpenedBefore
  <2> QED
    BY <1>0, <2>1 DEF OpenedBefore, OwnSession, TxSteps, worker, Ended
<1>3. LocksHeld'
  <2>1. \A q \in Pods : mem[q].held \subseteq Ids
    BY DEF TypeInv, WorkersOK, Mem
  <2>2. \A q \in Pods : FirstListed(q)' <=> FirstListed(q)
    BY <1>0 DEF FirstListed, worker
  <2> QED
    BY <1>0, <2>1, <2>2 DEF LocksHeld, worker
<1>4. SeeEachOther'
  <2>1. Selected' = Selected
    BY <1>0 DEF Selected, OwnSession, TxSteps, OpenedBefore, worker
  <2>2. \A q \in Pods : Wanted(q)' = Wanted(q)
    BY <1>0 DEF Wanted, worker
  <2> QED
    BY <1>0, <2>1, <2>2 DEF SeeEachOther, Selected, worker
<1>5. With("live")' = With("live")
  BY <1>0 DEF With
<1> QED
  BY <1>0, <1>1, <1>2, <1>3, <1>4, <1>5 DEF NoneLive, OneLivePerProfile, worker

\* Continue: p goes to its next step, and no row changes.
LEMMA ContinueSafe ==
  ASSUME SafeInv, TypeInv', NEW p \in Pods, NEW step, Continue(p, step),
         UNCHANGED <<row, opener>>,
         \/ pc[p] = "check" /\ step = "others" /\ StillOpening(mem[p].id)
         \/ pc[p] = "others" /\ step = "select"
         \/ /\ pc[p] = "lock" /\ step = "commit" /\ mem[p].want = <<>>
            /\ FirstListed(p) /\ ~OtherLive(mem[p].id)
         \/ pc[p] = "stop.read" /\ step = "stop.write" /\ row[mem[p].id].status = "live"
  PROVE  SafeInv'
<1> USE DEF SafeInv
<1>0. pc'[p] = step /\ mem' = mem /\ \A q \in Pods : q # p => pc'[q] = pc[q]
  BY DEF Continue, Goto, TypeInv, WorkersOK
<1>1. OwnSession'
  BY <1>0 DEF OwnSession, TxSteps
<1>2. OpenedBefore'
  BY <1>0 DEF OpenedBefore, StillOpening
<1>3. LocksHeld'
  <2>1. \A q \in Pods : FirstListed(q)' <=> FirstListed(q)
    BY <1>0 DEF FirstListed
  <2> QED
    BY <1>0, <2>1 DEF LocksHeld
<1>4. SeeEachOther'
  <2>1. Selected' = Selected
    BY <1>0 DEF Selected
  <2>2. \A q \in Pods : Wanted(q)' = Wanted(q)
    BY <1>0 DEF Wanted
  <2> QED
    BY <1>0, <2>1, <2>2 DEF SeeEachOther, Selected
<1>5. NoneLive'
  <2>1. With("live")' = With("live")
    BY DEF With
  <2>2. ASSUME step = "commit" PROVE With("live") = {}
    <3>1. row[mem[p].id].status = "opening"
      BY <2>2 DEF LocksHeld, FirstListed
    <3> QED
      BY <2>2, <3>1 DEF OtherLive, With
  <2> QED
    BY <1>0, <2>1, <2>2 DEF NoneLive
<1> QED
  BY <1>1, <1>2, <1>3, <1>4, <1>5 DEF OneLivePerProfile, With

LEMMA SelectSafe ==
  ASSUME SafeInv, TypeInv', NEW p \in Pods, SelectOpening(p)
  PROVE  SafeInv'
<1> USE DEF SafeInv
<1>1. PICK q \in Sorted(With("opening")) : mem' = [mem EXCEPT ![p].want = q]
  BY DEF SelectOpening
<1>2. /\ pc[p] = "select" /\ pc'[p] = "lock" /\ UNCHANGED <<row, opener>>
      /\ \A r \in Pods : r # p => pc'[r] = pc[r] /\ mem'[r] = mem[r]
  BY <1>1 DEF SelectOpening, Goto, TypeInv, WorkersOK
<1>3. /\ mem'[p].id = mem[p].id /\ mem'[p].held = mem[p].held /\ mem'[p].list = mem[p].list
      /\ mem'[p].want = q
  BY <1>1 DEF TypeInv, WorkersOK, Mem
<1>4. mem[p].held = {} /\ mem[p].list = <<>>
  BY <1>2 DEF LocksHeld
<1>5. OwnSession'
  BY <1>2, <1>3 DEF OwnSession, TxSteps
<1>6. OpenedBefore'
  BY <1>2, <1>3 DEF OpenedBefore
<1>7. LocksHeld'
  <2>1. \A r \in Pods : r # p => (FirstListed(r)' <=> FirstListed(r))
    BY <1>2 DEF FirstListed
  <2> QED
    BY <1>2, <1>3, <1>4, <2>1 DEF LocksHeld
<1>8. SeeEachOther'
  <2>1. With("opening") \subseteq Wanted(p)'
    <3>1. \A i \in With("opening") : \E k \in DOMAIN q : q[k] = i
      BY WithIds, SortedAreListings, ListingsAreComplete
    <3> QED
      BY <1>3, <3>1 DEF Wanted
  <2>2. \A r \in Pods : r # p => Wanted(r)' = Wanted(r)
    BY <1>2 DEF Wanted
  <2>3. \A r \in Selected' : mem'[r].id \in With("opening")
    BY <1>2, <1>5 DEF Selected, OwnSession, TxSteps, With
  <2>4. Selected' \ {p} = Selected \ {p}
    BY <1>2 DEF Selected
  <2> QED
    BY <1>2, <2>1, <2>2, <2>3, <2>4 DEF SeeEachOther, Selected
<1>9. With("live")' = With("live") /\ \A r \in Pods : pc'[r] = "commit" => pc[r] = "commit"
  BY <1>2 DEF With
<1> QED
  BY <1>5, <1>6, <1>7, <1>8, <1>9 DEF NoneLive, OneLivePerProfile

LEMMA LockSafe ==
  ASSUME SafeInv, TypeInv', NEW p \in Pods, LockRow(p)
  PROVE  SafeInv'
<1> USE DEF SafeInv
<1> DEFINE i == Head(mem[p].want)
<1>1. /\ pc[p] = "lock" /\ mem[p].want # <<>> /\ ~Locked(i)
      /\ pc' = pc /\ UNCHANGED <<row, opener>>
      /\ \A r \in Pods : r # p => mem'[r] = mem[r]
  BY DEF LockRow, TypeInv, WorkersOK
<1>2. /\ mem'[p].id = mem[p].id /\ mem'[p].want = Tail(mem[p].want)
      /\ mem'[p].held = mem[p].held \cup {i}
      /\ mem'[p].list = IF StillOpening(i) THEN Append(mem[p].list, i) ELSE mem[p].list
  BY DEF LockRow, TypeInv, WorkersOK, Mem
<1>3. mem[p].want \in Seq(Ids) /\ mem[p].list \in Seq(Ids) /\ i \in Ids
  BY <1>1, HeadTailProperties DEF TypeInv, WorkersOK, Mem
<1>4. Wanted(p)' = Wanted(p)
  <2>1. {mem[p].want[k] : k \in DOMAIN mem[p].want}
          = {i} \cup {Tail(mem[p].want)[k] : k \in DOMAIN Tail(mem[p].want)}
    BY <1>1, <1>3, HeadAndTail
  <2> QED
    BY <1>2, <2>1 DEF Wanted
<1> HIDE DEF i
<1>5. OwnSession'
  BY <1>1, <1>2 DEF OwnSession
<1>6. OpenedBefore'
  BY <1>1, <1>2 DEF OpenedBefore
<1>7. LocksHeld'
  <2>1. \A r \in Pods : r # p => i \notin mem[r].held
    BY <1>1 DEF Locked
  <2>2. \A r \in Pods : r # p => (FirstListed(r)' <=> FirstListed(r))
    BY <1>1 DEF FirstListed
  <2>3. mem'[p].list # <<>> =>
          Head(mem'[p].list) \in mem'[p].held /\ row[Head(mem'[p].list)].status = "opening"
    <3>1. CASE ~StillOpening(i)
      BY <1>2, <3>1 DEF LocksHeld
    <3>2. CASE StillOpening(i) /\ mem[p].list # <<>>
      <4>1. Head(mem'[p].list) = Head(mem[p].list)
        BY <1>2, <1>3, <3>2
      <4> QED
        BY <1>2, <3>2, <4>1 DEF LocksHeld
    <3>3. CASE StillOpening(i) /\ mem[p].list = <<>>
      <4>1. Head(mem'[p].list) = i
        BY <1>2, <1>3, <3>3
      <4> QED
        BY <1>2, <3>3, <4>1 DEF StillOpening
    <3> QED
      BY <3>1, <3>2, <3>3
  <2>4. \A r \in Pods : pc'[r] \notin {"lock", "commit"} => mem'[r].held = {} /\ mem'[r].list = <<>>
    BY <1>1 DEF LocksHeld
  <2>5. \A q, r \in Pods : q # r => mem'[q].held \cap mem'[r].held = {}
    BY <1>1, <1>2, <2>1 DEF LocksHeld
  <2>6. \A r \in Pods : mem'[r].list # <<>> =>
          Head(mem'[r].list) \in mem'[r].held /\ row'[Head(mem'[r].list)].status = "opening"
    BY <1>1, <2>3 DEF LocksHeld
  <2>7. \A r \in Pods : pc'[r] = "commit" => FirstListed(r)' /\ mem'[r].want = <<>>
    BY <1>1, <2>2 DEF LocksHeld
  <2> QED
    BY <2>4, <2>5, <2>6, <2>7 DEF LocksHeld
<1>8. SeeEachOther'
  <2>1. Selected' = Selected
    BY <1>1, <1>2 DEF Selected
  <2>2. \A r \in Pods : Wanted(r)' = Wanted(r)
    BY <1>1, <1>4 DEF Wanted
  <2> QED
    BY <1>1, <1>2, <2>1, <2>2 DEF SeeEachOther, Selected
<1>9. With("live")' = With("live")
  BY <1>1 DEF With
<1> QED
  BY <1>1, <1>5, <1>6, <1>7, <1>8, <1>9 DEF NoneLive, OneLivePerProfile

(***************************************************************************)
(* Every step is of one of these kinds.                                    *)
(***************************************************************************)
LEMMA IdleLeaves ==
  ASSUME TypeInv, NEW p \in Pods, Idle(p)
  PROVE  Leaves(p)
BY DEF Idle, Goto, Fresh, Leaves, Others, TypeInv, WorkersOK

LEMMA NextOpeningLeaves ==
  ASSUME TypeInv, NEW p \in Pods, NEW todo \in Seq(Plans), NextOpening(p, todo)
  PROVE  Leaves(p)
<1>1. CASE todo = <<>>
  BY <1>1, IdleLeaves DEF NextOpening
<1>2. CASE todo # <<>>
  <2> DEFINE m == [Fresh EXCEPT !.via = "sync", !.id = Head(todo).id, !.todo = Tail(todo)]
  <2>1. Head(todo).id \in Ids
    <3>1. Head(todo) \in Plans
      BY <1>2, HeadTailProperties
    <3> QED
      BY <3>1 DEF Plans
  <2>2. m.held = {} /\ m.list = <<>> /\ m.id \in Ids
    BY <2>1 DEF Fresh
  <2>3. Goto(p, "check") /\ mem' = [mem EXCEPT ![p] = m]
    BY <1>2 DEF NextOpening
  <2> HIDE DEF m
  <2> QED
    BY <2>2, <2>3 DEF Goto, Leaves, Others, TypeInv, WorkersOK
<1> QED
  BY <1>1, <1>2

LEMMA NextStopLeaves ==
  ASSUME SafeInv, NEW p \in Pods, pc[p] \notin {"lock", "commit"}, NEW todo, NextStop(p, todo)
  PROVE  Leaves(p)
<1>1. CASE todo = <<>>
  BY <1>1, IdleLeaves DEF NextStop, SafeInv
<1>2. CASE todo # <<>>
  <2>1. mem[p].held = {} /\ mem[p].list = <<>>
    BY DEF SafeInv, LocksHeld
  <2>2. mem'[p].held = mem[p].held /\ mem'[p].list = mem[p].list
    BY <1>2 DEF NextStop, SafeInv, TypeInv, WorkersOK, Mem
  <2> QED
    BY <1>2, <2>1, <2>2 DEF NextStop, Goto, Leaves, Others, SafeInv, TypeInv, WorkersOK
<1> QED
  BY <1>1, <1>2

LEMMA GiveUpLeaves ==
  ASSUME TypeInv, NEW p \in Pods, GiveUp(p)
  PROVE  Leaves(p)
<1>1. mem[p].todo \in Seq(Plans)
  <2>1. mem[p] \in Mem
    BY DEF TypeInv, WorkersOK
  <2> QED
    BY <2>1 DEF Mem
<1> QED
  BY <1>1, IdleLeaves, NextOpeningLeaves DEF GiveUp

LEMMA BeginLeaves ==
  ASSUME SafeInv, NEW p \in Pods, NEW step \in {"check", "stop.read", "sync.list", "stops.list"},
         NEW via, NEW i, step \in {"check", "stop.read"} => i \in Ids, Begin(p, step, via, i)
  PROVE  Leaves(p)
<1>1. mem[p].held = {} /\ mem[p].list = <<>>
  BY DEF Begin, SafeInv, LocksHeld
<1>2. mem'[p].held = mem[p].held /\ mem'[p].list = mem[p].list /\ mem'[p].id = i
  BY DEF Begin, SafeInv, TypeInv, WorkersOK, Mem
<1> QED
  BY <1>1, <1>2 DEF Begin, Goto, Leaves, Others, SafeInv, TypeInv, WorkersOK

LEMMA SameRows == ASSUME TypeInv, UNCHANGED row PROVE RowsGoOn
BY DEF RowsGoOn, TypeInv, StoreOK

LEMMA SameOpeners == ASSUME UNCHANGED opener PROVE OpenersGoOn
BY DEF OpenersGoOn

\* Steps of the openers, of the clock and of other components.
LEMMA OutsideSafe ==
  ASSUME SafeInv, TypeInv', OneSubscriber,
         \/ Tick
         \/ \E i \in Ids : Complete(i)
         \/ \E i \in Ids, s \in Subscribers :
              ReadUpcoming(i, s) \/ OpenerStep(i, s) \/ OpenerFails(i, s)
  PROVE  SafeInv'
<1>t. TypeInv
  BY DEF SafeInv
<1>1. CASE Tick
  BY <1>1, <1>t, SameRows, SameOpeners, RestSafe DEF Tick
<1>2. ASSUME NEW i \in Ids, Complete(i) PROVE SafeInv'
  <2>1. RowsGoOn
    BY <1>2, <1>t DEF Complete, RowsGoOn, Ended, TypeInv, StoreOK
  <2>2. \A j \in Ids : row'[j].status # row[j].status => ~Locked(j)
    BY <1>2, <1>t DEF Complete, TypeInv, StoreOK
  <2> QED
    BY <1>2, <2>1, <2>2, SameOpeners, RestSafe DEF Complete
<1>3. ASSUME NEW i \in Ids, NEW s \in Subscribers, ReadUpcoming(i, s) PROVE SafeInv'
  <2>1. OpenersGoOn
    BY <1>3, <1>t DEF ReadUpcoming, OpenersGoOn, TypeInv, StoreOK
  <2> QED
    BY <1>3, <1>t, <2>1, SameRows, RestSafe DEF ReadUpcoming
<1>4. ASSUME NEW i \in Ids, NEW s \in Subscribers, OpenSession(i, s) PROVE SafeInv'
  BY <1>4, OpenSafe
<1>5. ASSUME NEW i \in Ids, NEW s \in Subscribers, ScheduleStart(i, s) PROVE SafeInv'
  <2>1. OpenersGoOn
    BY <1>5, <1>t DEF ScheduleStart, OpenersGoOn, TypeInv, StoreOK, Over
  <2> QED
    BY <1>5, <1>t, <2>1, SameRows, RestSafe DEF ScheduleStart
<1>6. ASSUME NEW i \in Ids, NEW s \in Subscribers, OpenerFails(i, s) PROVE SafeInv'
  <2>1. OpenersGoOn
    BY <1>6, <1>t DEF OpenerFails, OpenersGoOn, TypeInv, StoreOK, Over
  <2> QED
    BY <1>6, <1>t, <2>1, SameRows, RestSafe DEF OpenerFails
<1> QED
  BY <1>1, <1>2, <1>3, <1>4, <1>5, <1>6 DEF OpenerStep

\* Steps of the jobs.
LEMMA JobSafe ==
  ASSUME SafeInv, TypeInv', NEW p \in Pods, JobStep(p)
  PROVE  SafeInv'
<1>t. TypeInv
  BY DEF SafeInv
<1>m. mem[p].todo \in Seq(Plans)
  <2>1. mem[p] \in Mem
    BY <1>t DEF TypeInv, WorkersOK
  <2> QED
    BY <2>1 DEF Mem
<1>l. ASSUME Leaves(p), UNCHANGED <<row, opener>> PROVE SafeInv'
  BY <1>l, <1>t, SameRows, SameOpeners, LeavesSafe
<1>1. CASE CheckOpening(p)
  BY <1>1, <1>t, <1>l, GiveUpLeaves, ContinueSafe DEF CheckOpening
<1>2. CASE CheckOthers(p)
  BY <1>2, <1>t, <1>l, GiveUpLeaves, ContinueSafe DEF CheckOthers
<1>3. CASE SelectOpening(p)
  BY <1>3, SelectSafe
<1>4. CASE LockRow(p)
  BY <1>4, LockSafe
<1>5. CASE CheckFinal(p)
  BY <1>5, <1>t, <1>l, GiveUpLeaves, ContinueSafe DEF CheckFinal
<1>6. CASE Commit(p)
  <2>1. Leaves(p)
    <3>1. CASE NextOpening(p, mem[p].todo)
      BY <3>1, <1>m, <1>t, NextOpeningLeaves
    <3>2. CASE Goto(p, "finish") /\
               mem' = [mem EXCEPT ![p] = [Fresh EXCEPT !.via = "start", !.id = mem[p].id]]
      BY <3>2, <1>t DEF Goto, Fresh, Leaves, Others, TypeInv, WorkersOK
    <3> QED
      BY <1>6, <3>1, <3>2 DEF Commit
  <2> QED
    BY <1>6, <2>1, CommitSafe DEF Commit
<1>7. CASE FinishStart(p)
  BY <1>7, <1>t, <1>l, IdleLeaves DEF FinishStart
<1>8. CASE ListOpening(p)
  <2>1. PICK q \in Sorted(Due) : NextOpening(p, [k \in DOMAIN q |-> [id |-> q[k], end |-> 0]])
    BY <1>8 DEF ListOpening
  <2>2. q \in Seq(Ids)
    BY WithIds, SortedAreListings, ListingsAreComplete
  <2>3. [k \in DOMAIN q |-> [id |-> q[k], end |-> 0]] \in Seq(Plans)
    BY <2>2, SyncPlans
  <2> QED
    BY <1>8, <1>t, <1>l, <2>1, <2>3, NextOpeningLeaves DEF ListOpening
<1>9. CASE ListLive(p)
  BY <1>9, <1>l, NextStopLeaves DEF ListLive
<1>10. CASE ScheduleStop(p)
  BY <1>10, <1>l, NextStopLeaves DEF ScheduleStop
<1>11. CASE ReadStatus(p)
  BY <1>11, <1>t, <1>l, IdleLeaves, ContinueSafe DEF ReadStatus, FinishStop
<1>12. CASE MarkTimeReached(p)
  <2>1. mem[p].id \in Ids /\ row[mem[p].id].status \in Ended \cup {"live"}
    BY <1>12 DEF MarkTimeReached, SafeInv, OwnSession, OpenedBefore
  <2>2. RowsGoOn
    BY <1>12, <1>t, <2>1 DEF MarkTimeReached, RowsGoOn, Ended, TypeInv, StoreOK
  <2>3. Leaves(p)
    BY <1>12, <1>t, IdleLeaves DEF MarkTimeReached, FinishStop
  <2> QED
    BY <1>12, <2>2, <2>3, SameOpeners, LeavesSafe DEF MarkTimeReached
<1> QED
  BY <1>1, <1>2, <1>3, <1>4, <1>5, <1>6, <1>7, <1>8, <1>9, <1>10, <1>11, <1>12 DEF JobStep

\* Taking a job, and faults.
LEMMA TakeSafe ==
  ASSUME SafeInv, TypeInv', NEW p \in Pods,
         \/ \E i \in Ids : TakeStart(p, i) \/ TakeStop(p, i)
         \/ TakeSync(p) \/ TakeStops(p)
  PROVE  SafeInv'
<1>1. Leaves(p)
  BY BeginLeaves DEF TakeStart, TakeStop, TakeSync, TakeStops
<1>2. UNCHANGED <<row, opener>>
  BY DEF TakeStart, TakeStop, TakeSync, TakeStops
<1> QED
  BY <1>1, <1>2, SameRows, SameOpeners, LeavesSafe DEF SafeInv

LEMMA FaultSafe ==
  ASSUME SafeInv, TypeInv', NEW p \in Pods, DbFails(p) \/ RedisFails(p) \/ Crash(p)
  PROVE  SafeInv'
<1>t. TypeInv
  BY DEF SafeInv
<1>1. CASE DbFails(p)
  <2>1. Leaves(p)
    BY <1>1, <1>t, GiveUpLeaves, IdleLeaves DEF DbFails
  <2> QED
    BY <1>1, <1>t, <2>1, SameRows, SameOpeners, LeavesSafe DEF DbFails
<1>2. CASE RedisFails(p)
  BY <1>2, <1>t, NextStopLeaves, SameRows, SameOpeners, LeavesSafe DEF RedisFails
<1>3. CASE Crash(p)
  <2>1. OpenersGoOn
    BY <1>3, <1>t DEF Crash, OpenersGoOn, Over, TypeInv, StoreOK
  <2> QED
    BY <1>3, <1>t, <2>1, IdleLeaves, SameRows, LeavesSafe DEF Crash
<1> QED
  BY <1>1, <1>2, <1>3

LEMMA NextSafe ==
  ASSUME OneSubscriber, SafeInv, [Next]_vars
  PROVE  SafeInv'
<1>t. TypeInv /\ TypeInv'
  BY NextTypes DEF SafeInv
<1>1. CASE UNCHANGED vars
  BY <1>1, <1>t, SameRows, SameOpeners, RestSafe DEF vars
<1>2. CASE Next
  BY <1>2, <1>t, OutsideSafe, JobSafe, TakeSafe, FaultSafe DEF Next
<1> QED
  BY <1>1, <1>2

LEMMA AlwaysSafe ==
  ASSUME OneSubscriber
  PROVE  Spec => []SafeInv
<1>1. Init => SafeInv
  BY InitSafe
<1>2. SafeInv /\ [Next]_vars => SafeInv'
  BY NextSafe
<1> QED
  BY <1>1, <1>2, PTL DEF Spec

\* startLiveSession keeps one session LIVE per profile, whatever crashes or fails and
\* however many processes run start-live and sync jobs at the same time.
THEOREM OneLive ==
  ASSUME OneSubscriber
  PROVE  Spec => []OneLivePerProfile
<1>1. SafeInv => OneLivePerProfile
  BY DEF SafeInv
<1> QED
  BY <1>1, AlwaysSafe, PTL

LEMMA ForwardStep ==
  ASSUME SafeInv, TypeInv', [Next]_vars
  PROVE  MovesForward
<1> SUFFICES ASSUME NEW i \in Ids, row'[i].status # row[i].status
             PROVE  <<row[i].status, row'[i].status>> \in Forward
  BY DEF MovesForward
<1>t. row \in [Ids -> [status: Statuses, start: Nat]]
  BY DEF SafeInv, TypeInv, StoreOK
<1>1. \/ \E s \in Subscribers : OpenSession(i, s)
      \/ Complete(i)
      \/ \E p \in Pods : (Commit(p) \/ MarkTimeReached(p)) /\ mem[p].id = i
  <2>1. \/ \E j \in Ids, s \in Subscribers : OpenSession(j, s)
        \/ \E j \in Ids : Complete(j)
        \/ \E p \in Pods : Commit(p) \/ MarkTimeReached(p)
    BY DEF Next, vars, Tick, ReadUpcoming, OpenerStep, ScheduleStart, OpenerFails,
           TakeStart, TakeStop, TakeSync, TakeStops, JobStep, CheckOpening, CheckOthers,
           SelectOpening, LockRow, CheckFinal, FinishStart, ListOpening, ListLive, ScheduleStop,
           ReadStatus, DbFails, RedisFails, Crash
  <2>3. ASSUME NEW j \in Ids, NEW s \in Subscribers, OpenSession(j, s) PROVE j = i
    BY <1>t, <2>3 DEF OpenSession
  <2>4. ASSUME NEW j \in Ids, Complete(j) PROVE j = i
    BY <1>t, <2>4 DEF Complete
  <2>5. ASSUME NEW p \in Pods, Commit(p) \/ MarkTimeReached(p) PROVE mem[p].id = i
    BY <1>t, <2>5 DEF Commit, MarkTimeReached
  <2> QED
    BY <2>1, <2>3, <2>4, <2>5
<1>2. ASSUME NEW s \in Subscribers, OpenSession(i, s)
      PROVE  row[i].status = "upcoming" /\ row'[i].status = "opening"
  BY <1>2, <1>t DEF OpenSession, SafeInv, OpenedBefore
<1>3. ASSUME Complete(i)
      PROVE  row[i].status \in {"live", "time_reached"} /\ row'[i].status = "completed"
  BY <1>3, <1>t DEF Complete
<1>4. ASSUME NEW p \in Pods, Commit(p), mem[p].id = i
      PROVE  row[i].status = "opening" /\ row'[i].status = "live"
  BY <1>4, <1>t, CommitHolds DEF Commit
<1>5. ASSUME NEW p \in Pods, MarkTimeReached(p), mem[p].id = i
      PROVE  row[i].status \in {"live", "completed"} /\ row'[i].status = "time_reached"
  <2>1. row'[i].status = "time_reached"
    BY <1>5, <1>t DEF MarkTimeReached
  <2>2. row[i].status \in Ended \cup {"live"}
    BY <1>5 DEF MarkTimeReached, SafeInv, OpenedBefore
  <2> QED
    BY <2>1, <2>2 DEF Ended
<1> QED
  BY <1>1, <1>2, <1>3, <1>4, <1>5 DEF Forward

\* Sessions only move forward, although every handler writes a status it chose from one
\* it read earlier.
THEOREM OnlyForward ==
  ASSUME OneSubscriber
  PROVE  Spec => StatusMovesForward
<1>1. SafeInv /\ SafeInv' /\ [Next]_vars => [MovesForward]_vars
  BY ForwardStep DEF SafeInv
<1> QED
  BY <1>1, AlwaysSafe, PTL DEF Spec, StatusMovesForward

(***************************************************************************)
(* Nothing happens early.  The start_time of a session is fixed once it is *)
(* opened, so that the due times of jobs and sweeps stay right.            *)
(***************************************************************************)
Opened(i) == row[i].status # "upcoming"

StableRows ==
  /\ now' >= now
  /\ \A i \in Ids : Opened(i) => Opened(i)' /\ row'[i].start = row[i].start

LEMMA RowsStayStable ==
  ASSUME SafeInv, TypeInv', [Next]_vars
  PROVE  StableRows
<1>t. row \in [Ids -> [status: Statuses, start: Nat]] /\ now \in Nat
  BY ConstantsAssumption DEF ConstantsAssumption, SafeInv, TypeInv, StoreOK
<1>1. now' >= now
  <2>1. now' = now \/ Tick
    BY DEF Next, vars, ReadUpcoming, OpenerStep, OpenSession, ScheduleStart, OpenerFails,
           TakeStart, TakeStop, TakeSync, TakeStops, JobStep, CheckOpening, CheckOthers,
           SelectOpening, LockRow, CheckFinal, Commit, FinishStart, ListOpening, ListLive,
           ScheduleStop, ReadStatus, MarkTimeReached, Complete, DbFails, RedisFails, Crash
  <2> QED
    BY <1>t, <2>1 DEF Tick
<1>2. ASSUME NEW i \in Ids, Opened(i) PROVE Opened(i)' /\ row'[i].start = row[i].start
  <2>1. \/ UNCHANGED row
        \/ \E j \in Ids, s \in Subscribers : OpenSession(j, s)
        \/ \E j \in Ids : Complete(j)
        \/ \E p \in Pods : Commit(p) \/ MarkTimeReached(p)
    BY DEF Next, vars, Tick, ReadUpcoming, OpenerStep, ScheduleStart, OpenerFails,
           TakeStart, TakeStop, TakeSync, TakeStops, JobStep, CheckOpening, CheckOthers,
           SelectOpening, LockRow, CheckFinal, FinishStart, ListOpening, ListLive, ScheduleStop,
           ReadStatus, DbFails, RedisFails, Crash
  <2>2. CASE UNCHANGED row
    BY <1>2, <2>2 DEF Opened
  <2>3. ASSUME NEW j \in Ids, NEW s \in Subscribers, OpenSession(j, s) PROVE row'[i] = row[i]
    BY <1>2, <1>t, <2>3 DEF OpenSession, SafeInv, OpenedBefore, Opened
  <2>4. ASSUME NEW j \in Ids, Complete(j)
        PROVE  row'[i].status # "upcoming" /\ row'[i].start = row[i].start
    BY <1>2, <1>t, <2>4 DEF Complete, Opened
  <2>5. ASSUME NEW p \in Pods, Commit(p) \/ MarkTimeReached(p)
        PROVE  row'[i].status # "upcoming" /\ row'[i].start = row[i].start
    BY <1>2, <1>t, <2>5 DEF Commit, MarkTimeReached, Opened
  <2> QED
    BY <1>2, <2>1, <2>2, <2>3, <2>4, <2>5 DEF Opened
<1> QED
  BY <1>1, <1>2 DEF StableRows

LEMMA StableTimes ==
  ASSUME StableRows, NEW i \in Ids, Opened(i)
  PROVE  /\ LiveTime(i)' = LiveTime(i) /\ EndTime(i)' = EndTime(i)
         /\ Opened(i)'
BY DEF StableRows, LiveTime, EndTime, Until

\* The kind of job that a worker runs, and that its session is one.
Kinds(p) ==
  /\ pc[p] = "idle" => mem[p].via = "none" /\ mem[p].todo = <<>>
  /\ pc[p] \in TxSteps => mem[p].via \in {"start", "sync"}
  /\ pc[p] = "finish" => mem[p].via = "start"
  /\ pc[p] \in {"stop.read", "stop.write"} => mem[p].via = "stop"
  /\ pc[p] \in {"stops.list", "stops.next"} => mem[p].via = "stops"
  /\ pc[p] = "sync.list" => mem[p].via = "sync"
  /\ mem[p].via \in {"start", "stop"} => mem[p].id \in Ids

\* The sessions a sweep visits are due, or get their right end times.
DueNow(todo) == \A k \in DOMAIN todo : Opened(todo[k].id) /\ now >= LiveTime(todo[k].id)
RightEnds(todo) == \A k \in DOMAIN todo :
  Opened(todo[k].id) /\ todo[k].end = EndTime(todo[k].id)

Visits(p) ==
  /\ mem[p].via = "sync" => DueNow(mem[p].todo)
  /\ mem[p].via = "stops" => RightEnds(mem[p].todo)
  /\ mem[p].via = "sync" /\ pc[p] \in TxSteps => Opened(mem[p].id) /\ now >= LiveTime(mem[p].id)

\* A worker has its start or stop job to itself.
Owns ==
  /\ \A p \in Pods : mem[p].via = "start" => startJob[mem[p].id].state = "active"
  /\ \A p \in Pods : mem[p].via = "stop" => stopJob[mem[p].id].state = "active"
  /\ \A p, q \in Pods :
       p # q /\ mem[p].via = mem[q].via /\ mem[p].via \in {"start", "stop"} => mem[p].id # mem[q].id

StartsDue == \A i \in Ids : startJob[i].state \in {"waiting", "active"} =>
  /\ Opened(i) /\ startJob[i].at = LiveTime(i)
  /\ startJob[i].state = "active" => now >= LiveTime(i)

StopsDue == \A i \in Ids : stopJob[i].state \in {"waiting", "active"} =>
  /\ Opened(i) /\ stopJob[i].at = EndTime(i)
  /\ stopJob[i].state = "active" => now >= EndTime(i)

OpenersDue == \A i \in Ids, s \in Subscribers : opener[i][s].pc = "schedule" =>
  Opened(i) /\ row[i].start = opener[i][s].time

ScheduleInv ==
  /\ \A p \in Pods : Kinds(p) /\ Visits(p)
  /\ Owns /\ StartsDue /\ StopsDue /\ OpenersDue

LEMMA InitSchedule == Init => ScheduleInv
<1> SUFFICES ASSUME Init PROVE ScheduleInv
  OBVIOUS
<1>1. \A p \in Pods : pc[p] = "idle" /\ mem[p].via = "none" /\ mem[p].todo = <<>>
  BY DEF Init, Fresh
<1>2. \A p \in Pods : Kinds(p) /\ Visits(p)
  BY <1>1 DEF Kinds, Visits, TxSteps
<1>3. Owns
  BY <1>1 DEF Owns
<1>4. StartsDue /\ StopsDue
  BY DEF Init, StartsDue, StopsDue, NoJob
<1>5. OpenersDue
  BY DEF Init, OpenersDue
<1> QED
  BY <1>2, <1>3, <1>4, <1>5 DEF ScheduleInv

(***************************************************************************)
(* Jobs.  A step that starts no job early leaves at most fewer jobs.       *)
(***************************************************************************)
Fewer(old, new) == \A i \in Ids : new[i].state \in {"waiting", "active"} =>
  /\ old[i].state \in {"waiting", "active"} /\ new[i].at = old[i].at
  /\ new[i].state = "active" => old[i].state = "active"

LEMMA FewerStarts ==
  ASSUME StartsDue, StableRows, TypeInv, TypeInv', Fewer(startJob, startJob')
  PROVE  StartsDue'
<1>1. now \in Nat /\ now' \in Nat /\ now' >= now
  BY ConstantsAssumption DEF ConstantsAssumption, TypeInv, StoreOK, StableRows
<1>2. \A i \in Ids : Opened(i) => LiveTime(i) \in Nat
  BY TimesOK, ConstantsAssumption DEF ConstantsAssumption, TypeInv, StoreOK, LiveTime
<1> QED
  BY <1>1, <1>2, StableTimes DEF StartsDue, Fewer

LEMMA FewerStops ==
  ASSUME StopsDue, StableRows, TypeInv, TypeInv', Fewer(stopJob, stopJob')
  PROVE  StopsDue'
<1>1. now \in Nat /\ now' \in Nat /\ now' >= now
  BY ConstantsAssumption DEF ConstantsAssumption, TypeInv, StoreOK, StableRows
<1>2. \A i \in Ids : EndTime(i) \in Nat
  BY TimesOK DEF TypeInv, StoreOK
<1> QED
  BY <1>1, <1>2, StableTimes DEF StopsDue, Fewer

LEMMA JobChanges ==
  ASSUME NEW jobs \in [Ids -> Jobs]
  PROVE  /\ Fewer(jobs, jobs)
         /\ \A i : Fewer(jobs, [jobs EXCEPT ![i] = Done])
         /\ \A lost : Fewer(jobs, Removed(jobs, lost))
         /\ \A i : (i \in Ids => jobs[i].state = "active") => Fewer(jobs, Retried(jobs, i))
         /\ \A i : (i \in Ids => jobs[i].state = "active") => Fewer(jobs, Reclaimed(jobs, i))
<1>d. Done.state = "done" /\ NoJob.state = "none"
  BY DEF Done, NoJob
<1>1. Fewer(jobs, jobs)
  BY DEF Fewer
<1>2. ASSUME NEW i PROVE Fewer(jobs, [jobs EXCEPT ![i] = Done])
  BY <1>d DEF Fewer
<1>3. ASSUME NEW lost PROVE Fewer(jobs, Removed(jobs, lost))
  BY <1>d DEF Fewer, Removed
<1>4. ASSUME NEW i, i \in Ids => jobs[i].state = "active" PROVE Fewer(jobs, Retried(jobs, i))
  <2>1. CASE jobs[i].tries = 1
    BY <1>2, <2>1 DEF Retried
  <2>2. CASE jobs[i].tries # 1
    <3> DEFINE new == Retried(jobs, i)
    <3>1. \A j \in Ids : j # i => new[j] = jobs[j]
      BY <2>2 DEF Retried
    <3>2. i \in Ids => new[i].state = "waiting" /\ new[i].at = jobs[i].at
      BY <2>2 DEF Retried, Jobs
    <3> HIDE DEF new
    <3>3. Fewer(jobs, new)
      BY <1>4, <3>1, <3>2 DEF Fewer
    <3> QED
      BY <3>3 DEF new
  <2> QED
    BY <2>1, <2>2
<1>5. ASSUME NEW i, i \in Ids => jobs[i].state = "active" PROVE Fewer(jobs, Reclaimed(jobs, i))
  <2> DEFINE new == Reclaimed(jobs, i)
  <2>1. \A j \in Ids : j # i => new[j] = jobs[j]
    BY DEF Reclaimed
  <2>2. i \in Ids => new[i] = Done \/ (new[i].state = "waiting" /\ new[i].at = jobs[i].at)
    BY DEF Reclaimed, Jobs
  <2> HIDE DEF new
  <2>3. Fewer(jobs, new)
    BY <1>5, <1>d, <2>1, <2>2 DEF Fewer
  <2> QED
    BY <2>3 DEF new
<1> QED
  BY <1>1, <1>2, <1>3, <1>4, <1>5
LEMMA FewerAgain ==
  ASSUME NEW a, NEW b, NEW c, Fewer(a, b), Fewer(b, c)
  PROVE  Fewer(a, c)
BY DEF Fewer

\* No job but i's stops being active.
Frees(old, new, i) == \A j \in Ids : j # i /\ old[j].state = "active" => new[j].state = "active"

LEMMA JobsFreed ==
  ASSUME NEW jobs \in [Ids -> Jobs], NEW i
  PROVE  /\ Frees(jobs, jobs, i)
         /\ Frees(jobs, [jobs EXCEPT ![i] = Done], i)
         /\ \A lost : Frees(jobs, Removed(jobs, lost), i)
         /\ Frees(jobs, Retried(jobs, i), i)
         /\ Frees(jobs, Reclaimed(jobs, i), i)
         /\ \A j, t : Frees(jobs, Added(jobs, j, t), i)
<1>1. Frees(jobs, jobs, i) /\ Frees(jobs, [jobs EXCEPT ![i] = Done], i)
  BY DEF Frees
<1>2. ASSUME NEW lost PROVE Frees(jobs, Removed(jobs, lost), i)
  BY DEF Frees, Removed
<1>3. Frees(jobs, Retried(jobs, i), i) /\ Frees(jobs, Reclaimed(jobs, i), i)
  BY DEF Frees, Retried, Reclaimed
<1>4. ASSUME NEW j, NEW t PROVE Frees(jobs, Added(jobs, j, t), i)
  <2>1. CASE jobs[j].state = "active"
    BY <2>1 DEF Frees, Added
  <2>2. CASE jobs[j].state # "active"
    BY <2>2 DEF Frees, Added
  <2> QED
    BY <2>1, <2>2
<1> QED
  BY <1>1, <1>2, <1>3, <1>4

(***************************************************************************)
(* The worker of a step, and the other workers.                            *)
(***************************************************************************)
LEMMA StillDue ==
  ASSUME SafeInv, TypeInv', StableRows
  PROVE  /\ \A i \in Ids : Opened(i) /\ now >= LiveTime(i) => Opened(i)' /\ now' >= LiveTime(i)'
         /\ \A todo \in Seq(Plans) : DueNow(todo) => DueNow(todo)'
         /\ \A todo \in Seq(Plans) : RightEnds(todo) => RightEnds(todo)'
<1>1. ASSUME NEW i \in Ids, Opened(i)
      PROVE  /\ Opened(i)' /\ EndTime(i)' = EndTime(i)
             /\ now >= LiveTime(i) => now' >= LiveTime(i)'
  <2>1. now \in Nat /\ now' \in Nat /\ now' >= now
    BY ConstantsAssumption DEF ConstantsAssumption, SafeInv, TypeInv, StoreOK, StableRows
  <2>2. LiveTime(i) \in Nat
    BY TimesOK, ConstantsAssumption DEF ConstantsAssumption, SafeInv, TypeInv, StoreOK, LiveTime
  <2> QED
    BY <1>1, <2>1, <2>2, StableTimes
<1>2. ASSUME NEW todo \in Seq(Plans), NEW k \in DOMAIN todo PROVE todo[k].id \in Ids
  <2>1. todo[k] \in Plans
    BY ElementOfSeq, LenProperties
  <2> QED
    BY <2>1 DEF Plans
<1>3. ASSUME NEW todo \in Seq(Plans), DueNow(todo) PROVE DueNow(todo)'
  BY <1>1, <1>2, <1>3 DEF DueNow, Opened, LiveTime
<1>4. ASSUME NEW todo \in Seq(Plans), RightEnds(todo) PROVE RightEnds(todo)'
  BY <1>1, <1>2, <1>4 DEF RightEnds, Opened, EndTime
<1> QED
  BY <1>1, <1>3, <1>4

\* p is the worker of the step, takes no start or stop job, and goes on properly.
Works(p) ==
  /\ Others(p)
  /\ Kinds(p)' /\ Visits(p)'
  /\ mem'[p].via \in {"start", "stop"} => mem'[p].via = mem[p].via /\ mem'[p].id = mem[p].id

LEMMA StillVisits ==
  ASSUME SafeInv, TypeInv', StableRows, NEW q \in Pods, Kinds(q), Visits(q),
         NEW step, pc'[q] = step, step \in TxSteps => pc[q] \in TxSteps,
         mem'[q].via = mem[q].via, mem'[q].id = mem[q].id, mem'[q].todo = mem[q].todo
  PROVE  Visits(q)'
<1>1. mem[q].todo \in Seq(Plans)
  <2>1. mem[q] \in Mem
    BY DEF SafeInv, TypeInv, WorkersOK
  <2> QED
    BY <2>1 DEF Mem
<1>2. pc[q] \in TxSteps => mem[q].id \in Ids
  BY DEF SafeInv, OwnSession
<1> QED
  BY <1>1, <1>2, StillDue DEF Visits, DueNow, RightEnds, Opened, LiveTime, EndTime

LEMMA IdleWorks ==
  ASSUME SafeInv, NEW p \in Pods, Idle(p)
  PROVE  Works(p) /\ mem'[p].via = "none"
<1>1. /\ pc'[p] = "idle" /\ mem'[p].via = "none" /\ mem'[p].todo = <<>>
      /\ Others(p)
  BY DEF Idle, Goto, Fresh, Others, SafeInv, TypeInv, WorkersOK
<1>2. Kinds(p)' /\ Visits(p)'
  BY <1>1 DEF Kinds, Visits, TxSteps
<1> QED
  BY <1>1, <1>2 DEF Works

\* p goes on within its job.
LEMMA SameJobWorks ==
  ASSUME SafeInv, TypeInv', StableRows, NEW p \in Pods, Kinds(p), Visits(p), Others(p),
         mem'[p].via = mem[p].via, mem'[p].id = mem[p].id, mem'[p].todo = mem[p].todo,
         \/ pc[p] \in TxSteps /\ pc'[p] \in TxSteps
         \/ pc[p] = "stop.read" /\ pc'[p] = "stop.write"
  PROVE  Works(p)
<1>1. Kinds(p)'
  BY DEF Kinds, TxSteps
<1>2. Visits(p)'
  BY StillVisits DEF TxSteps
<1> QED
  BY <1>1, <1>2 DEF Works

LEMMA NextOpeningWorks ==
  ASSUME SafeInv, TypeInv', StableRows, NEW p \in Pods, NEW todo \in Seq(Plans), DueNow(todo),
         NextOpening(p, todo)
  PROVE  Works(p) /\ mem'[p].via # "start"
<1>1. CASE todo = <<>>
  BY <1>1, IdleWorks DEF NextOpening
<1>2. CASE todo # <<>>
  <2>1. /\ pc'[p] = "check" /\ mem'[p].via = "sync"
        /\ mem'[p].id = Head(todo).id /\ mem'[p].todo = Tail(todo)
        /\ Others(p)
    BY <1>2 DEF NextOpening, Goto, Fresh, Others, SafeInv, TypeInv, WorkersOK
  <2>2. /\ Tail(todo) \in Seq(Plans) /\ Head(todo) = todo[1] /\ 1 \in DOMAIN todo
        /\ \A k \in DOMAIN Tail(todo) : k + 1 \in DOMAIN todo /\ Tail(todo)[k] = todo[k + 1]
    BY <1>2, HeadTailProperties
  <2>3. DueNow(Tail(todo)) /\ Opened(Head(todo).id) /\ now >= LiveTime(Head(todo).id)
    <3>1. ASSUME NEW k \in DOMAIN Tail(todo)
          PROVE  Opened(Tail(todo)[k].id) /\ now >= LiveTime(Tail(todo)[k].id)
      BY <2>2 DEF DueNow
    <3>2. Opened(Head(todo).id) /\ now >= LiveTime(Head(todo).id)
      BY <2>2 DEF DueNow
    <3> QED
      BY <3>1, <3>2 DEF DueNow
  <2>4. Head(todo).id \in Ids
    <3>1. Head(todo) \in Plans
      BY <1>2, HeadTailProperties
    <3> QED
      BY <3>1 DEF Plans
  <2>5. Kinds(p)'
    BY <2>1 DEF Kinds, TxSteps
  <2>6. Visits(p)'
    BY <2>1, <2>2, <2>3, <2>4, StillDue DEF Visits, DueNow, RightEnds, Opened, LiveTime, EndTime
  <2> QED
    BY <2>1, <2>5, <2>6 DEF Works
<1> QED
  BY <1>1, <1>2

LEMMA NextStopWorks ==
  ASSUME SafeInv, TypeInv', StableRows, NEW p \in Pods, mem[p].via = "stops",
         NEW todo \in Seq(Plans), RightEnds(todo), NextStop(p, todo)
  PROVE  Works(p)
<1>1. CASE todo = <<>>
  BY <1>1, IdleWorks DEF NextStop
<1>2. CASE todo # <<>>
  <2>1. /\ pc'[p] = "stops.next" /\ mem'[p].via = "stops" /\ mem'[p].todo = todo
        /\ Others(p)
    BY <1>2 DEF NextStop, Goto, Others, SafeInv, TypeInv, WorkersOK, Mem
  <2>2. Kinds(p)'
    BY <2>1 DEF Kinds, TxSteps
  <2>3. Visits(p)'
    BY <2>1, StillDue DEF Visits, DueNow, RightEnds, Opened, LiveTime, EndTime, TxSteps
  <2> QED
    BY <2>1, <2>2, <2>3 DEF Works
<1> QED
  BY <1>1, <1>2

\* success: false ends the job, or moves the sync to its next session.
LEMMA GiveUpWorks ==
  ASSUME SafeInv, TypeInv', StableRows, NEW p \in Pods, Visits(p), GiveUp(p)
  PROVE  Works(p) /\ mem'[p].via # "start"
<1>1. CASE Idle(p)
  BY <1>1, IdleWorks
<1>2. CASE mem[p].via = "sync" /\ NextOpening(p, mem[p].todo)
  <2>1. mem[p].todo \in Seq(Plans)
    <3>1. mem[p] \in Mem
      BY DEF SafeInv, TypeInv, WorkersOK
    <3> QED
      BY <3>1 DEF Mem
  <2>2. DueNow(mem[p].todo)
    BY <1>2 DEF Visits
  <2> QED
    BY <1>2, <2>1, <2>2, NextOpeningWorks
<1> QED
  BY <1>1, <1>2 DEF GiveUp
(***************************************************************************)
(* Every step keeps the schedule.                                          *)
(***************************************************************************)
\* Openers go on, but none is to schedule a session that it has not opened.
SchedulersGoOn == \A i \in Ids, s \in Subscribers :
  opener'[i][s].pc = "schedule" =>
    opener[i][s].pc = "schedule" /\ opener'[i][s].time = opener[i][s].time

LEMMA WorkKeeps ==
  ASSUME SafeInv, TypeInv', StableRows, ScheduleInv, SchedulersGoOn, NEW p \in Pods, Works(p),
         StartsDue', StopsDue',
         Frees(startJob, startJob', mem[p].id), Frees(stopJob, stopJob', mem[p].id),
         mem[p].via # "start" \/ mem'[p].via = "start" => Frees(startJob, startJob', 0),
         mem[p].via # "stop" \/ mem'[p].via = "stop" => Frees(stopJob, stopJob', 0)
  PROVE  ScheduleInv'
<1>1. ASSUME NEW q \in Pods PROVE Kinds(q)' /\ Visits(q)'
  <2>1. CASE q = p
    BY <2>1 DEF Works
  <2>2. CASE q # p
    <3>1. pc'[q] = pc[q] /\ mem'[q] = mem[q]
      BY <2>2 DEF Works, Others
    <3>2. Kinds(q) /\ Visits(q)
      BY DEF ScheduleInv
    <3>3. Visits(q)'
      BY <3>1, <3>2, StillVisits
    <3> QED
      BY <3>1, <3>2, <3>3 DEF Kinds
  <2> QED
    BY <2>1, <2>2
<1>2. Owns'
  <2>1. \A q \in Pods : mem'[q].via \in {"start", "stop"}
          => mem'[q].via = mem[q].via /\ mem'[q].id = mem[q].id /\ mem[q].id \in Ids /\ mem[q].id # 0
    BY DEF Works, Others, ScheduleInv, Kinds, Ids
  <2>2. \A q \in Pods : mem'[q].via = "start" => startJob'[mem'[q].id].state = "active"
    BY <2>1 DEF ScheduleInv, Owns, Frees
  <2>3. \A q \in Pods : mem'[q].via = "stop" => stopJob'[mem'[q].id].state = "active"
    BY <2>1 DEF ScheduleInv, Owns, Frees
  <2>4. \A q, r \in Pods : q # r /\ mem'[q].via = mem'[r].via /\ mem'[q].via \in {"start", "stop"}
          => mem'[q].id # mem'[r].id
    BY <2>1 DEF ScheduleInv, Owns
  <2> QED
    BY <2>2, <2>3, <2>4 DEF Owns
<1>3. OpenersDue'
  BY DEF OpenersDue, SchedulersGoOn, StableRows, ScheduleInv, Opened
<1> QED
  BY <1>1, <1>2, <1>3 DEF ScheduleInv

LEMMA RestKeeps ==
  ASSUME SafeInv, TypeInv', StableRows, ScheduleInv, UNCHANGED worker,
         StartsDue', StopsDue', OpenersDue',
         Frees(startJob, startJob', 0), Frees(stopJob, stopJob', 0)
  PROVE  ScheduleInv'
<1>1. ASSUME NEW q \in Pods PROVE Kinds(q)' /\ Visits(q)'
  <2>1. pc'[q] = pc[q] /\ mem'[q] = mem[q]
    BY DEF worker
  <2>2. Kinds(q) /\ Visits(q)
    BY DEF ScheduleInv
  <2>3. Visits(q)'
    BY <2>1, <2>2, StillVisits
  <2> QED
    BY <2>1, <2>2, <2>3 DEF Kinds
<1>2. Owns'
  <2>1. \A q \in Pods : mem[q].via \in {"start", "stop"} => mem[q].id \in Ids /\ mem[q].id # 0
    BY DEF ScheduleInv, Kinds, Ids
  <2> QED
    BY <2>1 DEF worker, Owns, Frees, ScheduleInv
<1> QED
  BY <1>1, <1>2 DEF ScheduleInv

\* Added: the job is due at t, or is active and stays as it is.
LEMMA AddedStart ==
  ASSUME SafeInv, TypeInv', StableRows, StartsDue, NEW i \in Ids, Opened(i),
         startJob' = Added(startJob, i, LiveTime(i))
  PROVE  StartsDue'
<1>1. CASE startJob[i].state = "active"
  BY <1>1, JobChanges, FewerStarts DEF Added, SafeInv, TypeInv, StoreOK
<1>2. CASE startJob[i].state # "active"
  <2>1. /\ startJob'[i].state = "waiting" /\ startJob'[i].at = LiveTime(i)
        /\ \A j \in Ids : j # i => startJob'[j] = startJob[j]
    BY <1>2 DEF Added, NoJob, SafeInv, TypeInv, StoreOK
  <2>2. \A j \in Ids : Opened(j) => Opened(j)' /\ LiveTime(j)' = LiveTime(j)
    BY StableTimes
  <2>3. \A j \in Ids : Opened(j) /\ now >= LiveTime(j) => now' >= LiveTime(j)'
    BY StillDue
  <2> QED
    BY <2>1, <2>2, <2>3 DEF StartsDue
<1> QED
  BY <1>1, <1>2

LEMMA AddedStop ==
  ASSUME SafeInv, TypeInv', StableRows, StopsDue, NEW i \in Ids, Opened(i),
         stopJob' = Added(stopJob, i, EndTime(i))
  PROVE  StopsDue'
<1>1. CASE stopJob[i].state = "active"
  BY <1>1, JobChanges, FewerStops DEF Added, SafeInv, TypeInv, StoreOK
<1>2. CASE stopJob[i].state # "active"
  <2>1. /\ stopJob'[i].state = "waiting" /\ stopJob'[i].at = EndTime(i)
        /\ \A j \in Ids : j # i => stopJob'[j] = stopJob[j]
    BY <1>2 DEF Added, NoJob, SafeInv, TypeInv, StoreOK
  <2>2. \A j \in Ids : Opened(j) => Opened(j)' /\ EndTime(j)' = EndTime(j)
    BY StableTimes
  <2>3. \A j \in Ids : now >= EndTime(j) => now' >= EndTime(j)
    <3>1. now \in Nat /\ now' \in Nat /\ now' >= now
      BY ConstantsAssumption DEF ConstantsAssumption, SafeInv, TypeInv, StoreOK, StableRows
    <3>2. \A j \in Ids : EndTime(j) \in Nat
      BY TimesOK DEF SafeInv, TypeInv, StoreOK
    <3> QED
      BY <3>1, <3>2
  <2> QED
    BY <2>1, <2>2, <2>3 DEF StopsDue
<1> QED
  BY <1>1, <1>2

\* Unless a job is added, the jobs that are left are due.
LEMMA SameJobs ==
  ASSUME SafeInv, TypeInv', StableRows, ScheduleInv
  PROVE  /\ UNCHANGED startJob => StartsDue' /\ \A i : Frees(startJob, startJob', i)
         /\ UNCHANGED stopJob => StopsDue' /\ \A i : Frees(stopJob, stopJob', i)
<1>1. UNCHANGED startJob => Fewer(startJob, startJob')
  BY DEF Fewer
<1>2. UNCHANGED stopJob => Fewer(stopJob, stopJob')
  BY DEF Fewer
<1> QED
  BY <1>1, <1>2, FewerStarts, FewerStops DEF Frees, ScheduleInv, SafeInv

LEMMA SameSchedulers == ASSUME UNCHANGED opener PROVE SchedulersGoOn
BY DEF SchedulersGoOn

LEMMA OutsideSchedule ==
  ASSUME SafeInv, TypeInv', StableRows, ScheduleInv,
         \/ Tick
         \/ \E i \in Ids : Complete(i)
         \/ \E i \in Ids, s \in Subscribers :
              ReadUpcoming(i, s) \/ OpenerStep(i, s) \/ OpenerFails(i, s)
  PROVE  ScheduleInv'
<1>t. TypeInv /\ startJob \in [Ids -> Jobs] /\ opener \in [Ids -> [Subscribers -> Openers]]
  BY DEF SafeInv, TypeInv, StoreOK
<1>o. SchedulersGoOn => OpenersDue'
  BY DEF OpenersDue, SchedulersGoOn, StableRows, ScheduleInv, Opened
<1>1. CASE Tick \/ \E i \in Ids : Complete(i)
  BY <1>1, <1>o, SameJobs, SameSchedulers, RestKeeps DEF Tick, Complete, queue
<1>2. ASSUME NEW i \in Ids, NEW s \in Subscribers, ReadUpcoming(i, s) PROVE ScheduleInv'
  <2>1. SchedulersGoOn
    BY <1>t, <1>2 DEF ReadUpcoming, SchedulersGoOn
  <2> QED
    BY <1>2, <1>o, <2>1, SameJobs, RestKeeps DEF ReadUpcoming, queue
<1>3. ASSUME NEW i \in Ids, NEW s \in Subscribers, OpenSession(i, s) PROVE ScheduleInv'
  <2>1. ASSUME NEW j \in Ids, NEW t \in Subscribers, opener'[j][t].pc = "schedule"
        PROVE  Opened(j)' /\ row'[j].start = opener'[j][t].time
    <3>1. CASE j = i /\ t = s
      <4>1. row'[i].status = "opening" /\ row'[i].start = opener[i][s].time
        BY <1>3 DEF OpenSession, SafeInv, TypeInv, StoreOK
      <4>2. opener'[i][s].time = opener[i][s].time
        BY <1>t, <1>3 DEF OpenSession, Openers
      <4> QED
        BY <3>1, <4>1, <4>2 DEF Opened
    <3>2. CASE ~(j = i /\ t = s)
      <4>1. opener'[j][t] = opener[j][t]
        BY <1>t, <1>3, <3>2 DEF OpenSession
      <4> QED
        BY <2>1, <4>1 DEF ScheduleInv, OpenersDue, StableRows, Opened
    <3> QED
      BY <3>1, <3>2
  <2>2. OpenersDue'
    BY <2>1 DEF OpenersDue, Opened
  <2> QED
    BY <1>3, <2>2, SameJobs, RestKeeps DEF OpenSession, queue
<1>4. ASSUME NEW i \in Ids, NEW s \in Subscribers, ScheduleStart(i, s) PROVE ScheduleInv'
  <2>1. Opened(i) /\ startJob' = Added(startJob, i, LiveTime(i))
    BY <1>4 DEF ScheduleStart, ScheduleInv, OpenersDue, LiveTime
  <2>2. StartsDue'
    BY <2>1, AddedStart DEF ScheduleInv
  <2>3. Frees(startJob, startJob', 0)
    BY <1>t, <2>1, JobsFreed
  <2>4. SchedulersGoOn
    BY <1>t, <1>4 DEF ScheduleStart, SchedulersGoOn, Over
  <2> QED
    BY <1>4, <1>o, <2>2, <2>3, <2>4, SameJobs, RestKeeps DEF ScheduleStart
<1>5. ASSUME NEW i \in Ids, NEW s \in Subscribers, OpenerFails(i, s) PROVE ScheduleInv'
  <2>1. Fewer(startJob, startJob') /\ Frees(startJob, startJob', 0)
    <3>1. CASE UNCHANGED startJob
      BY <3>1, <1>t, JobChanges, JobsFreed
    <3>2. CASE \E lost \in SUBSET {i} : startJob' = Removed(startJob, lost)
      <4>1. PICK lost : startJob' = Removed(startJob, lost)
        BY <3>2
      <4>2. Fewer(startJob, Removed(startJob, lost)) /\ Frees(startJob, Removed(startJob, lost), 0)
        BY <1>t, JobChanges, JobsFreed
      <4> QED
        BY <4>1, <4>2
    <3> QED
      BY <1>5, <3>1, <3>2 DEF OpenerFails
  <2>2. StartsDue'
    BY <1>t, <2>1, FewerStarts DEF ScheduleInv
  <2>3. SchedulersGoOn
    BY <1>t, <1>5 DEF OpenerFails, SchedulersGoOn, Over
  <2> QED
    BY <1>5, <1>o, <2>1, <2>2, <2>3, SameJobs, RestKeeps DEF OpenerFails
<1> QED
  BY <1>1, <1>2, <1>3, <1>4, <1>5 DEF OpenerStep

\* A worker takes a start or stop job that waits, so that no other worker has it.
LEMMA TakeSchedule ==
  ASSUME SafeInv, TypeInv', StableRows, ScheduleInv, NEW p \in Pods,
         \/ \E i \in Ids : TakeStart(p, i) \/ TakeStop(p, i)
         \/ TakeSync(p) \/ TakeStops(p)
  PROVE  ScheduleInv'
<1>t. /\ startJob \in [Ids -> Jobs] /\ stopJob \in [Ids -> Jobs]
      /\ pc \in [Pods -> Steps] /\ mem \in [Pods -> Mem] /\ now' = now
  BY DEF SafeInv, TypeInv, StoreOK, WorkersOK, TakeStart, TakeStop, TakeSync, TakeStops
<1>b. ASSUME NEW step, NEW via, NEW i \in Ids \cup {0}, Begin(p, step, via, i)
      PROVE  /\ pc[p] = "idle" /\ mem[p].via = "none" /\ mem[p].todo = <<>>
             /\ pc'[p] = step /\ mem'[p].via = via /\ mem'[p].id = i /\ mem'[p].todo = <<>>
             /\ Others(p)
  <2>1. mem[p].via = "none" /\ mem[p].todo = <<>>
    BY <1>b DEF Begin, ScheduleInv, Kinds
  <2>2. mem'[p].via = via /\ mem'[p].id = i /\ mem'[p].todo = mem[p].todo
    BY <1>b, <1>t DEF Begin, Mem
  <2> QED
    BY <1>b, <1>t, <2>1, <2>2 DEF Begin, Goto, Others
<1>o. OpenersDue'
  BY DEF OpenersDue, StableRows, ScheduleInv, Opened, TakeStart, TakeStop, TakeSync, TakeStops
<1>v. ASSUME NEW q \in Pods, q # p, Others(p) PROVE Kinds(q)' /\ Visits(q)'
  <2>1. pc'[q] = pc[q] /\ mem'[q] = mem[q] /\ Kinds(q) /\ Visits(q)
    BY <1>v DEF Others, ScheduleInv
  <2>2. Visits(q)'
    BY <2>1, StillVisits
  <2> QED
    BY <2>1, <2>2 DEF Kinds
<1>1. ASSUME NEW i \in Ids, TakeStart(p, i) PROVE ScheduleInv'
  <2>1. /\ pc'[p] = "check" /\ mem'[p].via = "start" /\ mem'[p].id = i /\ Others(p)
        /\ mem[p].via = "none"
    BY <1>1, <1>b DEF TakeStart
  <2>2. Kinds(p)' /\ Visits(p)'
    BY <2>1 DEF Kinds, Visits, TxSteps
  <2>3. /\ startJob[i].state = "waiting" /\ now >= startJob[i].at
        /\ startJob'[i].state = "active" /\ startJob'[i].at = startJob[i].at
        /\ \A j \in Ids : j # i => startJob'[j] = startJob[j]
    BY <1>1, <1>t DEF TakeStart, Jobs
  <2>4. StartsDue'
    BY <1>1, <2>3 DEF TakeStart, ScheduleInv, StartsDue, Opened, LiveTime
  <2>5. Owns'
    <3>1. ASSUME NEW q \in Pods, mem[q].via = "start" PROVE mem[q].id \in Ids /\ mem[q].id # i
      BY <2>3, <3>1 DEF ScheduleInv, Owns, Kinds
    <3>2. \A q \in Pods : q # p => mem'[q] = mem[q]
      BY <2>1 DEF Others
    <3> QED
      BY <1>1, <2>1, <2>3, <3>1, <3>2 DEF TakeStart, ScheduleInv, Owns
  <2> QED
    BY <1>1, <1>o, <1>v, <2>1, <2>2, <2>4, <2>5, SameJobs DEF TakeStart, ScheduleInv
<1>2. ASSUME NEW i \in Ids, TakeStop(p, i) PROVE ScheduleInv'
  <2>1. /\ pc'[p] = "stop.read" /\ mem'[p].via = "stop" /\ mem'[p].id = i /\ Others(p)
        /\ mem[p].via = "none"
    BY <1>2, <1>b DEF TakeStop
  <2>2. Kinds(p)' /\ Visits(p)'
    BY <2>1 DEF Kinds, Visits, TxSteps
  <2>3. /\ stopJob[i].state = "waiting" /\ now >= stopJob[i].at
        /\ stopJob'[i].state = "active" /\ stopJob'[i].at = stopJob[i].at
        /\ \A j \in Ids : j # i => stopJob'[j] = stopJob[j]
    BY <1>2, <1>t DEF TakeStop, Jobs
  <2>4. StopsDue'
    BY <1>2, <2>3 DEF TakeStop, ScheduleInv, StopsDue, Opened, EndTime
  <2>5. Owns'
    <3>1. ASSUME NEW q \in Pods, mem[q].via = "stop" PROVE mem[q].id \in Ids /\ mem[q].id # i
      BY <2>3, <3>1 DEF ScheduleInv, Owns, Kinds
    <3>2. \A q \in Pods : q # p => mem'[q] = mem[q]
      BY <2>1 DEF Others
    <3> QED
      BY <1>2, <2>1, <2>3, <3>1, <3>2 DEF TakeStop, ScheduleInv, Owns
  <2> QED
    BY <1>2, <1>o, <1>v, <2>1, <2>2, <2>4, <2>5, SameJobs DEF TakeStop, ScheduleInv
<1>3. CASE TakeSync(p) \/ TakeStops(p)
  <2>1. /\ \/ pc'[p] = "sync.list" /\ mem'[p].via = "sync"
           \/ pc'[p] = "stops.list" /\ mem'[p].via = "stops"
        /\ mem'[p].todo = <<>> /\ Others(p) /\ UNCHANGED <<startJob, stopJob>>
    BY <1>3, <1>b DEF TakeSync, TakeStops, queue
  <2>2. Kinds(p)' /\ Visits(p)'
    BY <2>1 DEF Kinds, Visits, TxSteps, DueNow, RightEnds
  <2>3. Owns'
    BY <2>1 DEF Owns, Others, ScheduleInv
  <2> QED
    BY <1>o, <1>v, <2>1, <2>2, <2>3, SameJobs DEF ScheduleInv
<1> QED
  BY <1>1, <1>2, <1>3

\* A worker goes on, and at most its own job ends.
LEMMA WorkFinishes ==
  ASSUME SafeInv, TypeInv', StableRows, ScheduleInv, NEW p \in Pods, Works(p), UNCHANGED opener,
         \/ UNCHANGED startJob
         \/ /\ mem[p].via = "start" /\ mem'[p].via # "start"
            /\ startJob' \in {[startJob EXCEPT ![mem[p].id] = Done], Retried(startJob, mem[p].id)},
         \/ UNCHANGED stopJob
         \/ /\ mem[p].via = "stop" /\ mem'[p].via # "stop"
            /\ stopJob' \in {[stopJob EXCEPT ![mem[p].id] = Done], Retried(stopJob, mem[p].id)}
  PROVE  ScheduleInv'
<1>t. startJob \in [Ids -> Jobs] /\ stopJob \in [Ids -> Jobs] /\ TypeInv
  BY DEF SafeInv, TypeInv, StoreOK
<1>a. /\ mem[p].via = "start" => startJob[mem[p].id].state = "active"
      /\ mem[p].via = "stop" => stopJob[mem[p].id].state = "active"
  BY DEF ScheduleInv, Owns
<1>1. /\ StartsDue' /\ Frees(startJob, startJob', mem[p].id)
      /\ mem[p].via # "start" \/ mem'[p].via = "start" => Frees(startJob, startJob', 0)
  <2>1. CASE UNCHANGED startJob
    BY <2>1, SameJobs
  <2>2. CASE /\ mem[p].via = "start" /\ mem'[p].via # "start"
             /\ startJob' = [startJob EXCEPT ![mem[p].id] = Done]
    BY <2>2, <1>t, JobChanges, JobsFreed, FewerStarts DEF ScheduleInv
  <2>3. CASE /\ mem[p].via = "start" /\ mem'[p].via # "start"
             /\ startJob' = Retried(startJob, mem[p].id)
    BY <2>3, <1>a, <1>t, JobChanges, JobsFreed, FewerStarts DEF ScheduleInv
  <2> QED
    BY <2>1, <2>2, <2>3
<1>2. /\ StopsDue' /\ Frees(stopJob, stopJob', mem[p].id)
      /\ mem[p].via # "stop" \/ mem'[p].via = "stop" => Frees(stopJob, stopJob', 0)
  <2>1. CASE UNCHANGED stopJob
    BY <2>1, SameJobs
  <2>2. CASE /\ mem[p].via = "stop" /\ mem'[p].via # "stop"
             /\ stopJob' = [stopJob EXCEPT ![mem[p].id] = Done]
    BY <2>2, <1>t, JobChanges, JobsFreed, FewerStops DEF ScheduleInv
  <2>3. CASE /\ mem[p].via = "stop" /\ mem'[p].via # "stop"
             /\ stopJob' = Retried(stopJob, mem[p].id)
    BY <2>3, <1>a, <1>t, JobChanges, JobsFreed, FewerStops DEF ScheduleInv
  <2> QED
    BY <2>1, <2>2, <2>3
<1> QED
  BY <1>1, <1>2, SameSchedulers, WorkKeeps

LEMMA JobSchedule ==
  ASSUME SafeInv, TypeInv', StableRows, ScheduleInv, NEW p \in Pods, JobStep(p)
  PROVE  ScheduleInv'
<1>k. Kinds(p) /\ Visits(p)
  BY DEF ScheduleInv
<1>t. /\ pc \in [Pods -> Steps] /\ mem \in [Pods -> Mem] /\ mem[p] \in Mem
      /\ mem[p].todo \in Seq(Plans)
  <2>1. mem[p] \in Mem
    BY DEF SafeInv, TypeInv, WorkersOK
  <2> QED
    BY <2>1 DEF Mem, SafeInv, TypeInv, WorkersOK
<1>g. ASSUME GiveUp(p), UNCHANGED opener PROVE ScheduleInv'
  <2>1. \/ UNCHANGED startJob
        \/ mem[p].via = "start" /\ startJob' = [startJob EXCEPT ![mem[p].id] = Done]
    BY <1>g DEF GiveUp
  <2>2. UNCHANGED stopJob
    BY <1>g DEF GiveUp
  <2>3. Works(p) /\ mem'[p].via # "start"
    BY <1>g, <1>k, GiveUpWorks
  <2> QED
    BY <1>g, <2>1, <2>2, <2>3, WorkFinishes
<1>c. ASSUME NEW step, Continue(p, step), UNCHANGED opener,
             \/ pc[p] \in TxSteps /\ step \in TxSteps
             \/ pc[p] = "stop.read" /\ step = "stop.write"
      PROVE  ScheduleInv'
  <2>1. Others(p) /\ pc'[p] = step /\ mem' = mem
    BY <1>c, <1>t DEF Continue, Goto, Others
  <2>2. Works(p)
    BY <1>c, <1>k, <2>1, SameJobWorks
  <2> QED
    BY <1>c, <2>2, WorkFinishes DEF Continue, queue
<1>s. /\ {"check", "others", "select", "lock", "commit"} = TxSteps
      /\ {"finish", "sync.list", "stops.list", "stops.next", "stop.read", "stop.write"} \cap TxSteps = {}
  BY DEF TxSteps
<1>1. CASE CheckOpening(p) \/ CheckOthers(p) \/ CheckFinal(p)
  BY <1>1, <1>g, <1>c, <1>s DEF CheckOpening, CheckOthers, CheckFinal
<1>2. CASE SelectOpening(p) \/ LockRow(p)
  <2>1. /\ Others(p) /\ mem'[p].via = mem[p].via /\ mem'[p].id = mem[p].id
        /\ mem'[p].todo = mem[p].todo
        /\ pc[p] \in TxSteps /\ pc'[p] \in TxSteps
        /\ UNCHANGED <<opener, startJob, stopJob>>
    BY <1>2, <1>t, <1>s DEF SelectOpening, LockRow, Goto, Others, queue, Mem
  <2>2. Works(p)
    BY <1>k, <2>1, SameJobWorks
  <2> QED
    BY <2>1, <2>2, WorkFinishes
<1>3. CASE Commit(p)
  <2>1. CASE mem[p].via = "sync" /\ NextOpening(p, mem[p].todo)
    <3>1. Works(p)
      BY <2>1, <1>k, <1>t, NextOpeningWorks DEF Visits
    <3> QED
      BY <1>3, <3>1, WorkFinishes DEF Commit, queue
  <2>2. CASE /\ mem[p].via = "start" /\ Goto(p, "finish")
             /\ mem' = [mem EXCEPT ![p] = [Fresh EXCEPT !.via = "start", !.id = mem[p].id]]
    <3>1. /\ pc'[p] = "finish" /\ mem'[p].via = "start" /\ mem'[p].id = mem[p].id /\ Others(p)
      BY <2>2, <1>t DEF Goto, Others, Fresh
    <3>2. Kinds(p)' /\ Visits(p)'
      BY <2>2, <3>1, <1>k DEF Kinds, Visits, TxSteps
    <3>3. Works(p)
      BY <2>2, <3>1, <3>2 DEF Works
    <3> QED
      BY <1>3, <3>3, WorkFinishes DEF Commit, queue
  <2> QED
    BY <1>3, <2>1, <2>2 DEF Commit
<1>4. CASE FinishStart(p)
  BY <1>4, <1>k, IdleWorks, WorkFinishes DEF FinishStart, Kinds
<1>5. CASE ListOpening(p)
  <2>1. PICK q \in Sorted(Due) : NextOpening(p, [k \in DOMAIN q |-> [id |-> q[k], end |-> 0]])
    BY <1>5 DEF ListOpening
  <2> DEFINE todo == [k \in DOMAIN q |-> [id |-> q[k], end |-> 0]]
  <2>2. q \in Seq(Ids) /\ \A k \in DOMAIN q : q[k] \in Due
    <3>1. q \in Listings(Due)
      BY SortedAreListings
    <3> QED
      BY <3>1, WithIds, ListingsAreComplete DEF Listings
  <2>3. todo \in Seq(Plans)
    BY <2>2, SyncPlans
  <2>4. DueNow(todo)
    BY <2>2 DEF DueNow, Due, With, Opened
  <2> HIDE DEF todo
  <2>5. Works(p)
    BY <2>1, <2>3, <2>4, NextOpeningWorks DEF todo
  <2> QED
    BY <1>5, <2>5, WorkFinishes DEF ListOpening, queue
<1>6. CASE ListLive(p)
  <2>1. PICK q \in Listings(With("live")) :
          NextStop(p, [k \in DOMAIN q |-> [id |-> q[k], end |-> EndTime(q[k])]])
    BY <1>6 DEF ListLive
  <2> DEFINE todo == [k \in DOMAIN q |-> [id |-> q[k], end |-> EndTime(q[k])]]
  <2>2. q \in Seq(Ids) /\ \A k \in DOMAIN q : q[k] \in With("live")
    BY WithIds, ListingsAreComplete DEF Listings
  <2>3. todo \in Seq(Plans)
    <3>1. Len(q) \in Nat /\ DOMAIN q = 1..Len(q)
      BY <2>2, LenProperties
    <3>2. \A k \in 1..Len(q) : [id |-> q[k], end |-> EndTime(q[k])] \in Plans
      BY <2>2, <3>1, TimesOK DEF Plans, With, SafeInv, TypeInv, StoreOK
    <3> QED
      BY <3>1, <3>2
  <2>4. RightEnds(todo)
    BY <2>2 DEF RightEnds, With, Opened
  <2> HIDE DEF todo
  <2>5. Works(p)
    BY <1>6, <1>k, <2>1, <2>3, <2>4, NextStopWorks DEF todo, ListLive, Kinds
  <2> QED
    BY <1>6, <2>5, WorkFinishes DEF ListLive, queue
<1>7. CASE ScheduleStop(p)
  <2> DEFINE todo == mem[p].todo
  <2>1. pc[p] = "stops.next" /\ mem[p].via = "stops" /\ todo # <<>> /\ RightEnds(todo)
    BY <1>7, <1>k DEF ScheduleStop, Kinds, Visits, SafeInv, TypeInv, WorkersOK, SweepsAhead
  <2>2. /\ Tail(todo) \in Seq(Plans) /\ Head(todo) = todo[1] /\ 1 \in DOMAIN todo
        /\ \A k \in DOMAIN Tail(todo) : k + 1 \in DOMAIN todo /\ Tail(todo)[k] = todo[k + 1]
    BY <1>t, <2>1, HeadTailProperties
  <2>3. Head(todo) \in Plans
    BY <1>t, <2>1, HeadTailProperties
  <2>4. Opened(Head(todo).id) /\ Head(todo).end = EndTime(Head(todo).id) /\ Head(todo).id \in Ids
    BY <2>1, <2>2, <2>3 DEF RightEnds, Plans
  <2>5. RightEnds(Tail(todo))
    <3>1. ASSUME NEW k \in DOMAIN Tail(todo)
          PROVE  Opened(Tail(todo)[k].id) /\ Tail(todo)[k].end = EndTime(Tail(todo)[k].id)
      BY <2>1, <2>2 DEF RightEnds
    <3> QED
      BY <3>1 DEF RightEnds
  <2> HIDE DEF todo
  <2>6. Works(p)
    BY <1>7, <2>1, <2>2, <2>5, NextStopWorks DEF ScheduleStop, todo
  <2>7. StopsDue'
    BY <1>7, <2>4, AddedStop DEF ScheduleStop, ScheduleInv, todo
  <2>8. \A i : Frees(stopJob, stopJob', i)
    BY <1>7, JobsFreed DEF ScheduleStop, SafeInv, TypeInv, StoreOK
  <2> QED
    BY <1>7, <2>6, <2>7, <2>8, SameJobs, SameSchedulers, WorkKeeps DEF ScheduleStop
<1>8. CASE ReadStatus(p)
  <2>1. CASE Continue(p, "stop.write")
    BY <1>8, <2>1, <1>c DEF ReadStatus
  <2>2. CASE FinishStop(p)
    BY <1>8, <2>2, <1>k, IdleWorks, WorkFinishes DEF ReadStatus, FinishStop, Kinds
  <2> QED
    BY <1>8, <2>1, <2>2 DEF ReadStatus
<1>9. CASE MarkTimeReached(p)
  BY <1>9, <1>k, IdleWorks, WorkFinishes DEF MarkTimeReached, FinishStop, Kinds
<1> QED
  BY <1>1, <1>2, <1>3, <1>4, <1>5, <1>6, <1>7, <1>8, <1>9 DEF JobStep

LEMMA FaultSchedule ==
  ASSUME SafeInv, TypeInv', StableRows, ScheduleInv, NEW p \in Pods,
         DbFails(p) \/ RedisFails(p) \/ Crash(p)
  PROVE  ScheduleInv'
<1>k. Kinds(p) /\ Visits(p)
  BY DEF ScheduleInv
<1>t. /\ startJob \in [Ids -> Jobs] /\ stopJob \in [Ids -> Jobs] /\ TypeInv
      /\ opener \in [Ids -> [Subscribers -> Openers]]
  BY DEF SafeInv, TypeInv, StoreOK
<1>1. CASE DbFails(p)
  <2>1. CASE GiveUp(p)
    <3>1. \/ UNCHANGED startJob
          \/ mem[p].via = "start" /\ startJob' = [startJob EXCEPT ![mem[p].id] = Done]
      BY <2>1 DEF GiveUp
    <3>2. UNCHANGED stopJob
      BY <2>1 DEF GiveUp
    <3> QED
      BY <1>1, <1>k, <2>1, <3>1, <3>2, GiveUpWorks, WorkFinishes DEF DbFails
  <2>2. CASE /\ pc[p] = "check" /\ mem[p].via = "start"
             /\ startJob' = Retried(startJob, mem[p].id)
             /\ Idle(p) /\ UNCHANGED stopJob
    BY <1>1, <2>2, IdleWorks, WorkFinishes DEF DbFails
  <2>3. CASE /\ pc[p] \in {"stop.read", "stop.write"}
             /\ stopJob' = Retried(stopJob, mem[p].id)
             /\ Idle(p) /\ UNCHANGED startJob
    BY <1>1, <1>k, <2>3, IdleWorks, WorkFinishes DEF DbFails, Kinds
  <2>4. CASE pc[p] \in {"sync.list", "stops.list"} /\ Idle(p) /\ UNCHANGED queue
    BY <1>1, <2>4, IdleWorks, WorkFinishes DEF DbFails, queue
  <2> QED
    BY <1>1, <2>1, <2>2, <2>3, <2>4 DEF DbFails
<1>2. CASE RedisFails(p)
  <2> DEFINE todo == mem[p].todo
  <2>1. mem[p].via = "stops" /\ todo # <<>> /\ RightEnds(todo)
    BY <1>2, <1>k DEF RedisFails, Kinds, Visits, TypeInv, SafeInv, WorkersOK, SweepsAhead
  <2>2. mem[p] \in Mem
    BY <1>t DEF TypeInv, WorkersOK
  <2>3. /\ Tail(todo) \in Seq(Plans)
        /\ \A k \in DOMAIN Tail(todo) : k + 1 \in DOMAIN todo /\ Tail(todo)[k] = todo[k + 1]
    BY <2>1, <2>2, HeadTailProperties DEF Mem
  <2>4. RightEnds(Tail(todo))
    <3>1. ASSUME NEW k \in DOMAIN Tail(todo)
          PROVE  Opened(Tail(todo)[k].id) /\ Tail(todo)[k].end = EndTime(Tail(todo)[k].id)
      BY <2>1, <2>3 DEF RightEnds
    <3> QED
      BY <3>1 DEF RightEnds
  <2> HIDE DEF todo
  <2>5. Works(p)
    BY <1>2, <2>1, <2>3, <2>4, NextStopWorks DEF RedisFails, todo
  <2>6. PICK lost : stopJob' = Removed(stopJob, lost)
    BY <1>2 DEF RedisFails
  <2>7. StopsDue' /\ \A i : Frees(stopJob, stopJob', i)
    BY <1>t, <2>6, JobChanges, JobsFreed, FewerStops DEF ScheduleInv
  <2> QED
    BY <1>2, <2>5, <2>7, SameJobs, SameSchedulers, WorkKeeps DEF RedisFails
<1>3. CASE Crash(p)
  <2>1. Works(p) /\ mem'[p].via = "none"
    BY <1>3, IdleWorks DEF Crash
  <2>2. SchedulersGoOn
    BY <1>3, <1>t DEF Crash, SchedulersGoOn, Over
  <2>3. ASSUME NEW jobs \in [Ids -> Jobs], NEW lost, NEW i, i \in Ids => jobs[i].state = "active"
        PROVE  /\ Fewer(jobs, Reclaimed(Removed(jobs, lost), i))
               /\ Frees(jobs, Reclaimed(Removed(jobs, lost), i), i)
    <3> DEFINE left == Removed(jobs, lost)
    <3>1. left \in [Ids -> Jobs] /\ Fewer(jobs, left) /\ Frees(jobs, left, i)
      BY JobsOK, JobChanges, JobsFreed
    <3>2. i \in Ids => left[i].state = "active"
      BY <2>3 DEF Removed
    <3> HIDE DEF left
    <3>3. Fewer(left, Reclaimed(left, i)) /\ Frees(left, Reclaimed(left, i), i)
      BY <3>1, <3>2, JobChanges, JobsFreed
    <3>4. Fewer(jobs, Reclaimed(left, i)) /\ Frees(jobs, Reclaimed(left, i), i)
      BY <3>1, <3>3, FewerAgain DEF Frees
    <3> QED
      BY <3>4 DEF left
  <2>4. /\ StartsDue' /\ Frees(startJob, startJob', mem[p].id)
        /\ mem[p].via # "start" => Frees(startJob, startJob', 0)
    <3>1. PICK lost : startJob' = IF mem[p].via = "start"
                                  THEN Reclaimed(Removed(startJob, lost), mem[p].id)
                                  ELSE Removed(startJob, lost)
      BY <1>3, Zenon DEF Crash
    <3>2. CASE mem[p].via = "start"
      <4>1. startJob[mem[p].id].state = "active"
        BY <3>2 DEF ScheduleInv, Owns
      <4>2. Fewer(startJob, startJob') /\ Frees(startJob, startJob', mem[p].id)
        BY <1>t, <2>3, <3>1, <3>2, <4>1
      <4> QED
        BY <1>t, <3>2, <4>2, FewerStarts DEF ScheduleInv
    <3>3. CASE mem[p].via # "start"
      <4>1. Fewer(startJob, startJob') /\ \A i : Frees(startJob, startJob', i)
        BY <1>t, <3>1, <3>3, JobChanges, JobsFreed
      <4> QED
        BY <1>t, <4>1, FewerStarts DEF ScheduleInv
    <3> QED
      BY <3>2, <3>3
  <2>5. /\ StopsDue' /\ Frees(stopJob, stopJob', mem[p].id)
        /\ mem[p].via # "stop" => Frees(stopJob, stopJob', 0)
    <3>1. PICK lost : stopJob' = IF mem[p].via = "stop" THEN Reclaimed(stopJob, mem[p].id)
                                 ELSE Removed(stopJob, lost)
      BY <1>3, Zenon DEF Crash
    <3>2. CASE mem[p].via = "stop"
      <4>1. stopJob[mem[p].id].state = "active"
        BY <3>2 DEF ScheduleInv, Owns
      <4>2. Fewer(stopJob, stopJob') /\ Frees(stopJob, stopJob', mem[p].id)
        BY <1>t, <3>1, <3>2, <4>1, JobChanges, JobsFreed
      <4> QED
        BY <1>t, <3>2, <4>2, FewerStops DEF ScheduleInv
    <3>3. CASE mem[p].via # "stop"
      <4>1. Fewer(stopJob, stopJob') /\ \A i : Frees(stopJob, stopJob', i)
        BY <1>t, <3>1, <3>3, JobChanges, JobsFreed
      <4> QED
        BY <1>t, <4>1, FewerStops DEF ScheduleInv
    <3> QED
      BY <3>2, <3>3
  <2> QED
    BY <2>1, <2>2, <2>4, <2>5, WorkKeeps
<1> QED
  BY <1>1, <1>2, <1>3

LEMMA NextSchedule ==
  ASSUME OneSubscriber, SafeInv, ScheduleInv, [Next]_vars
  PROVE  ScheduleInv'
<1>t. TypeInv' /\ SafeInv'
  BY NextTypes, NextSafe DEF SafeInv
<1>r. StableRows
  BY <1>t, RowsStayStable
<1>1. CASE UNCHANGED vars
  <2>1. OpenersDue'
    BY <1>1, <1>r DEF vars, OpenersDue, StableRows, ScheduleInv, Opened
  <2> QED
    BY <1>1, <1>t, <1>r, <2>1, SameJobs, RestKeeps DEF vars, queue
<1>2. CASE Next
  BY <1>2, <1>t, <1>r, OutsideSchedule, JobSchedule, TakeSchedule, FaultSchedule DEF Next
<1> QED
  BY <1>1, <1>2

\* Only a start job or a sync makes a session LIVE, and only a stop job marks its time.
LEMMA OnTime ==
  ASSUME SafeInv, ScheduleInv, [Next]_vars, NEW i \in Ids, row'[i].status # row[i].status
  PROVE  /\ row'[i].status = "live" => now >= LiveTime(i)
         /\ row'[i].status = "time_reached" => now >= EndTime(i)
<1>t. row \in [Ids -> [status: Statuses, start: Nat]]
  BY DEF SafeInv, TypeInv, StoreOK
<1>1. \/ \E j \in Ids, s \in Subscribers : OpenSession(j, s)
      \/ \E j \in Ids : Complete(j)
      \/ \E p \in Pods : Commit(p) \/ MarkTimeReached(p)
  BY DEF Next, vars, Tick, ReadUpcoming, OpenerStep, ScheduleStart, OpenerFails,
         TakeStart, TakeStop, TakeSync, TakeStops, JobStep, CheckOpening, CheckOthers,
         SelectOpening, LockRow, CheckFinal, FinishStart, ListOpening, ListLive, ScheduleStop,
         ReadStatus, DbFails, RedisFails, Crash
<1>2. ASSUME NEW j \in Ids, NEW s \in Subscribers, OpenSession(j, s)
      PROVE  row'[i].status = "opening"
  BY <1>t, <1>2 DEF OpenSession
<1>3. ASSUME NEW j \in Ids, Complete(j) PROVE row'[i].status = "completed"
  BY <1>t, <1>3 DEF Complete
<1>4. ASSUME NEW p \in Pods, Commit(p)
      PROVE  row'[i].status = "live" /\ now >= LiveTime(i)
  <2>1. mem[p].id = i /\ row'[i].status = "live" /\ pc[p] = "commit"
    BY <1>t, <1>4 DEF Commit
  <2>2. Kinds(p) /\ Visits(p)
    BY DEF ScheduleInv
  <2>3. CASE mem[p].via = "sync"
    BY <2>1, <2>2, <2>3 DEF Visits, TxSteps
  <2>4. CASE mem[p].via = "start"
    BY <2>1, <2>4 DEF ScheduleInv, Owns, StartsDue
  <2> QED
    BY <1>4, <2>1, <2>3, <2>4 DEF Commit
<1>5. ASSUME NEW p \in Pods, MarkTimeReached(p)
      PROVE  row'[i].status = "time_reached" /\ now >= EndTime(i)
  <2>1. mem[p].id = i /\ row'[i].status = "time_reached" /\ mem[p].via = "stop"
    BY <1>t, <1>5 DEF MarkTimeReached, ScheduleInv, Kinds
  <2> QED
    BY <2>1 DEF ScheduleInv, Owns, StopsDue
<1> QED
  BY <1>1, <1>2, <1>3, <1>4, <1>5

\* No session goes LIVE, and none has its time reached, before its moment: a job taken at
\* its delay, a sweep's list and a retried or reclaimed job all still have the times of
\* the session they act on.
THEOREM NothingEarly ==
  ASSUME OneSubscriber
  PROVE  Spec => KeepsSchedule
<1> DEFINE Step == \A i \in Ids : row'[i].status # row[i].status =>
       /\ row'[i].status = "live" => now >= Until(row[i].start + StartAfter)
       /\ row'[i].status = "time_reached" => now >= Until(row[i].start + StartAfter + StopAfter)
<1>1. Init => SafeInv /\ ScheduleInv
  BY InitSafe, InitSchedule
<1>2. SafeInv /\ ScheduleInv /\ [Next]_vars => SafeInv' /\ ScheduleInv'
  BY NextSafe, NextSchedule
<1>3. SafeInv /\ ScheduleInv /\ [Next]_vars => Step
  BY OnTime DEF LiveTime, EndTime
<1> HIDE DEF Step
<1>4. SafeInv /\ ScheduleInv /\ [Next]_vars => [Step]_vars
  BY <1>3
<1>5. Spec => [][Step]_vars
  BY <1>1, <1>2, <1>4, PTL DEF Spec
<1> QED
  BY <1>5 DEF KeepsSchedule, Step

(***************************************************************************)
(* Row locks.  A transaction locks the OPENING rows by start_time and then *)
(* by session, and start_time is fixed once a session is opened: whoever   *)
(* waits for a row holds only rows that come before it.                    *)
(***************************************************************************)
LocksInOrder == \A p \in Pods : pc[p] = "lock" =>
  /\ \A i \in Wanted(p) : Opened(i)
  /\ \A k, l \in DOMAIN mem[p].want : k < l => Earlier(mem[p].want[k], mem[p].want[l])
  /\ \A i \in mem[p].held, k \in DOMAIN mem[p].want : Earlier(i, mem[p].want[k])

\* No start_time lies in the future.
StartsKnown ==
  /\ \A i \in Ids : row[i].start <= now
  /\ \A i \in Ids, s \in Subscribers : opener[i][s].time <= now

LEMMA StartsKnownStep ==
  ASSUME SafeInv, StartsKnown, [Next]_vars
  PROVE  StartsKnown'
<1>t. /\ row \in [Ids -> [status: Statuses, start: Nat]] /\ now \in Nat
      /\ opener \in [Ids -> [Subscribers -> Openers]]
      /\ \A i \in Ids : row[i].start \in Nat
      /\ \A i \in Ids, s \in Subscribers : opener[i][s].time \in Nat
  BY ConstantsAssumption DEF ConstantsAssumption, SafeInv, TypeInv, StoreOK, Openers
<1>1. ASSUME UNCHANGED row, now' \in {now, now + 1},
             \A i \in Ids, s \in Subscribers : opener'[i][s].time \in {0, now, opener[i][s].time}
      PROVE  StartsKnown'
  <2>1. ASSUME NEW i \in Ids PROVE row'[i].start <= now'
    <3>1. row[i].start <= now /\ row[i].start \in Nat
      BY <1>t DEF StartsKnown
    <3> QED
      BY <1>t, <1>1, <3>1
  <2>2. ASSUME NEW i \in Ids, NEW s \in Subscribers PROVE opener'[i][s].time <= now'
    <3>1. opener[i][s].time <= now /\ opener[i][s].time \in Nat
      BY <1>t DEF StartsKnown
    <3>2. opener'[i][s].time \in {0, now, opener[i][s].time}
      BY <1>1
    <3> QED
      BY <1>t, <1>1, <3>1, <3>2
  <2> QED
    BY <2>1, <2>2 DEF StartsKnown
<1>2. CASE Tick
  BY <1>1, <1>2 DEF Tick
<1>3. ASSUME NEW i \in Ids, Complete(i) PROVE StartsKnown'
  BY <1>t, <1>3 DEF Complete, StartsKnown
<1>4. ASSUME NEW i \in Ids, NEW s \in Subscribers, ReadUpcoming(i, s) PROVE StartsKnown'
  BY <1>t, <1>1, <1>4 DEF ReadUpcoming
<1>5. ASSUME NEW i \in Ids, NEW s \in Subscribers, OpenSession(i, s) PROVE StartsKnown'
  BY <1>t, <1>5 DEF OpenSession, StartsKnown, Openers
<1>6. ASSUME NEW i \in Ids, NEW s \in Subscribers, ScheduleStart(i, s) \/ OpenerFails(i, s)
      PROVE  StartsKnown'
  <2>1. opener' = [opener EXCEPT ![i][s] = Over] /\ UNCHANGED <<now, row>>
    BY <1>6 DEF ScheduleStart, OpenerFails
  <2>2. \A j \in Ids, r \in Subscribers : opener'[j][r].time \in {0, now, opener[j][r].time}
    BY <1>t, <2>1 DEF Over
  <2> QED
    BY <1>1, <2>1, <2>2
<1>7. ASSUME NEW p \in Pods, Commit(p) \/ MarkTimeReached(p) PROVE StartsKnown'
  <2>1. PICK status : row' = [row EXCEPT ![mem[p].id].status = status]
    BY <1>7 DEF Commit, MarkTimeReached
  <2>2. \A i \in Ids : row'[i].start = row[i].start
    BY <1>t, <2>1
  <2>3. UNCHANGED <<now, opener>>
    BY <1>7 DEF Commit, MarkTimeReached
  <2> QED
    BY <2>2, <2>3 DEF StartsKnown
<1>8. ASSUME NEW p \in Pods, Crash(p) PROVE StartsKnown'
  BY <1>t, <1>1, <1>8 DEF Crash, Over
<1>9. CASE UNCHANGED <<now, row, opener>>
  BY <1>1, <1>9
<1> QED
  BY <1>2, <1>3, <1>4, <1>5, <1>6, <1>7, <1>8, <1>9
  DEF Next, vars, OpenerStep, TakeStart, TakeStop, TakeSync, TakeStops, JobStep, CheckOpening,
      CheckOthers, SelectOpening, LockRow, CheckFinal, FinishStart, ListOpening, ListLive,
      ScheduleStop, ReadStatus, DbFails, RedisFails

\* A pod that is locking rows has just selected them, has locked one more, or did nothing.
LEMMA LockingSteps ==
  ASSUME SafeInv, [Next]_vars, NEW p \in Pods, pc'[p] = "lock"
  PROVE  \/ SelectOpening(p) \/ LockRow(p)
         \/ pc[p] = "lock" /\ mem'[p] = mem[p]
<1>t. TypeInv
  BY DEF SafeInv
<1>1. ASSUME NEW q \in Pods, Leaves(q) PROVE pc[p] = "lock" /\ mem'[p] = mem[p]
  BY <1>1 DEF Leaves, Others
<1>2. ASSUME NEW q \in Pods, NEW step, step # "lock", Goto(q, step), UNCHANGED mem
      PROVE  pc[p] = "lock" /\ mem'[p] = mem[p]
  BY <1>t, <1>2 DEF Goto, TypeInv, WorkersOK
<1>3. ASSUME NEW q \in Pods, JobStep(q)
      PROVE  SelectOpening(p) \/ LockRow(p) \/ (pc[p] = "lock" /\ mem'[p] = mem[p])
  <2>1. CASE SelectOpening(q) \/ LockRow(q)
    <3>1. q # p => pc'[p] = pc[p] /\ mem'[p] = mem[p]
      BY <1>t, <2>1 DEF SelectOpening, LockRow, Goto, TypeInv, WorkersOK
    <3> QED
      BY <2>1, <3>1
  <2>m. mem[q].todo \in Seq(Plans)
    <3>1. mem[q] \in Mem
      BY <1>t DEF TypeInv, WorkersOK
    <3> QED
      BY <3>1 DEF Mem
  <2>2. CASE CheckOpening(q) \/ CheckOthers(q) \/ CheckFinal(q)
    BY <1>t, <1>1, <1>2, <2>2, GiveUpLeaves DEF CheckOpening, CheckOthers, CheckFinal, Continue
  <2>3. CASE Commit(q)
    <3>1. CASE NextOpening(q, mem[q].todo)
      BY <1>t, <1>1, <2>m, <3>1, NextOpeningLeaves
    <3>2. CASE Goto(q, "finish") /\
               mem' = [mem EXCEPT ![q] = [Fresh EXCEPT !.via = "start", !.id = mem[q].id]]
      BY <1>t, <3>2 DEF Goto, TypeInv, WorkersOK
    <3> QED
      BY <2>3, <3>1, <3>2 DEF Commit
  <2>4. CASE FinishStart(q) \/ MarkTimeReached(q)
    BY <1>t, <1>1, <2>4, IdleLeaves DEF FinishStart, MarkTimeReached, FinishStop
  <2>5. CASE ListOpening(q)
    <3>1. PICK s \in Sorted(Due) : NextOpening(q, [k \in DOMAIN s |-> [id |-> s[k], end |-> 0]])
      BY <2>5 DEF ListOpening
    <3>2. s \in Seq(Ids)
      BY WithIds, SortedAreListings, ListingsAreComplete
    <3>3. [k \in DOMAIN s |-> [id |-> s[k], end |-> 0]] \in Seq(Plans)
      BY <3>2, SyncPlans
    <3> QED
      BY <1>t, <1>1, <3>1, <3>3, NextOpeningLeaves
  <2>6. CASE ListLive(q) \/ ScheduleStop(q)
    BY <1>1, <2>6, NextStopLeaves DEF ListLive, ScheduleStop
  <2>7. CASE ReadStatus(q)
    BY <1>t, <1>1, <1>2, <2>7, IdleLeaves DEF ReadStatus, FinishStop, Continue
  <2> QED
    BY <1>3, <2>1, <2>2, <2>3, <2>4, <2>5, <2>6, <2>7 DEF JobStep
<1>4. ASSUME NEW q \in Pods,
             \/ \E i \in Ids : TakeStart(q, i) \/ TakeStop(q, i)
             \/ TakeSync(q) \/ TakeStops(q)
      PROVE  pc[p] = "lock" /\ mem'[p] = mem[p]
  <2>1. Leaves(q)
    BY <1>4, BeginLeaves DEF TakeStart, TakeStop, TakeSync, TakeStops
  <2> QED
    BY <1>1, <2>1
<1>5. ASSUME NEW q \in Pods, DbFails(q) \/ RedisFails(q) \/ Crash(q)
      PROVE  pc[p] = "lock" /\ mem'[p] = mem[p]
  <2>1. Leaves(q)
    BY <1>t, <1>5, GiveUpLeaves, IdleLeaves, NextStopLeaves DEF DbFails, RedisFails, Crash
  <2> QED
    BY <1>1, <2>1
<1>6. ASSUME UNCHANGED worker PROVE pc[p] = "lock" /\ mem'[p] = mem[p]
  BY <1>6 DEF worker
<1>7. ASSUME \/ Tick \/ (\E i \in Ids : Complete(i)) \/ UNCHANGED vars
             \/ \E i \in Ids, s \in Subscribers :
                  ReadUpcoming(i, s) \/ OpenerStep(i, s) \/ OpenerFails(i, s)
      PROVE  UNCHANGED worker
  BY <1>7 DEF Tick, Complete, vars, ReadUpcoming, OpenerStep, OpenSession, ScheduleStart, OpenerFails
<1> QED
  BY <1>3, <1>4, <1>5, <1>6, <1>7 DEF Next

LEMMA LocksInOrderStep ==
  ASSUME SafeInv, TypeInv', LocksInOrder, [Next]_vars
  PROVE  LocksInOrder'
<1>s. StableRows
  BY RowsStayStable
<1>t. TypeInv
  BY DEF SafeInv
<1>e. \A i, j \in Ids : Opened(i) /\ Opened(j) /\ Earlier(i, j) => Earlier(i, j)'
  BY <1>s DEF StableRows, Earlier
<1>i. \A p \in Pods : /\ mem[p].held \subseteq Ids /\ Wanted(p) \subseteq Ids
                      /\ \A k \in DOMAIN mem[p].want : mem[p].want[k] \in Wanted(p)
                      /\ mem[p].held \subseteq Wanted(p)
  <2> SUFFICES ASSUME NEW p \in Pods
               PROVE  /\ mem[p].held \subseteq Ids /\ Wanted(p) \subseteq Ids
                      /\ \A k \in DOMAIN mem[p].want : mem[p].want[k] \in Wanted(p)
                      /\ mem[p].held \subseteq Wanted(p)
    OBVIOUS
  <2>1. mem[p] \in Mem
    BY <1>t DEF TypeInv, WorkersOK
  <2>2. mem[p].want \in Seq(Ids) /\ mem[p].held \subseteq Ids
    BY <2>1 DEF Mem
  <2>3. \A k \in DOMAIN mem[p].want : mem[p].want[k] \in Ids
    BY <2>2
  <2> QED
    BY <2>2, <2>3 DEF Wanted
<1> SUFFICES ASSUME NEW p \in Pods, pc'[p] = "lock"
             PROVE  /\ \A i \in Wanted(p)' : Opened(i)'
                    /\ \A k, l \in DOMAIN mem'[p].want :
                         k < l => Earlier(mem[p].want[k], mem[p].want[l])'
                    /\ \A i \in mem'[p].held, k \in DOMAIN mem'[p].want :
                         Earlier(i, mem[p].want[k])'
  BY DEF LocksInOrder
<1>1. CASE SelectOpening(p)
  <2>1. PICK q \in Sorted(With("opening")) : mem' = [mem EXCEPT ![p].want = q]
    BY <1>1 DEF SelectOpening
  <2>2. mem'[p].want = q /\ mem'[p].held = {} /\ UNCHANGED row
    <3>1. mem[p].held = {} /\ UNCHANGED row
      BY <1>1 DEF SelectOpening, SafeInv, LocksHeld
    <3> QED
      BY <1>t, <2>1, <3>1 DEF TypeInv, WorkersOK, Mem
  <2>3. \A k \in DOMAIN q : q[k] \in With("opening")
    BY DEF Sorted, Listings
  <2>4. \A k, l \in DOMAIN q : k < l => Earlier(q[k], q[l])
    BY DEF Sorted
  <2>5. \A i \in With("opening") : Opened(i)
    BY DEF With, Opened
  <2> QED
    BY <2>2, <2>3, <2>4, <2>5 DEF Earlier, Opened, Wanted
<1>2. CASE LockRow(p)
  <2> DEFINE w == mem[p].want
             h == Head(w)
  <2>1. pc[p] = "lock" /\ w # <<>> /\ UNCHANGED row
    BY <1>2 DEF LockRow
  <2>2. mem'[p].want = Tail(w) /\ mem'[p].held = mem[p].held \cup {h}
    BY <1>2, <1>t DEF LockRow, TypeInv, WorkersOK, Mem
  <2>3. w \in Seq(Ids)
    BY <1>t DEF TypeInv, WorkersOK, Mem
  <2>4. /\ 1 \in DOMAIN w /\ h = w[1]
        /\ \A k \in DOMAIN Tail(w) : k + 1 \in DOMAIN w /\ Tail(w)[k] = w[k + 1] /\ k \in Nat \ {0}
    BY <2>1, <2>3
  <2>5. /\ \A i \in Wanted(p) : Opened(i)
        /\ \A k, l \in DOMAIN w : k < l => Earlier(w[k], w[l])
        /\ \A i \in mem[p].held, k \in DOMAIN w : Earlier(i, w[k])
    BY <2>1 DEF LocksInOrder
  <2>6. Wanted(p)' = Wanted(p)
    <3>1. {w[k] : k \in DOMAIN w} = {h} \cup {Tail(w)[k] : k \in DOMAIN Tail(w)}
      BY <2>1, <2>3, HeadAndTail
    <3> QED
      BY <2>2, <3>1 DEF Wanted
  <2> HIDE DEF w, h
  <2>7. \A k, l \in DOMAIN Tail(w) : k < l => Earlier(Tail(w)[k], Tail(w)[l])
    BY <2>4, <2>5
  <2>8. \A i \in mem[p].held \cup {h}, k \in DOMAIN Tail(w) : Earlier(i, Tail(w)[k])
    BY <2>4, <2>5
  <2>9. \A i, j : Earlier(i, j)' <=> Earlier(i, j)
    BY <2>1 DEF Earlier
  <2> QED
    BY <2>1, <2>2, <2>5, <2>6, <2>7, <2>8, <2>9 DEF Opened
<1>3. CASE pc[p] = "lock" /\ mem'[p] = mem[p]
  <2>1. \A i \in Wanted(p) : Opened(i) /\ Opened(i)'
    BY <1>3, <1>i, <1>s DEF LocksInOrder, StableRows
  <2>2. Wanted(p)' = Wanted(p)
    BY <1>3 DEF Wanted
  <2>3. \A i, j \in Wanted(p) : Earlier(i, j) => Earlier(i, j)'
    BY <1>e, <1>i, <2>1
  <2> QED
    BY <1>3, <1>i, <2>1, <2>2, <2>3 DEF LocksInOrder
<1> QED
  BY <1>1, <1>2, <1>3, LockingSteps

\* A set of numbers with a bound has a greatest one.
LEMMA Greatest ==
  ASSUME NEW n \in Nat, NEW S \in SUBSET (0..n), S # {}
  PROVE  \E x \in S : \A y \in S : y <= x
<1> DEFINE T == {n - x : x \in S}
<1>1. T \subseteq Nat /\ T # {}
  <2>1. \A x \in S : n - x \in Nat
    OBVIOUS
  <2>2. PICK x : x \in S
    OBVIOUS
  <2>3. n - x \in T
    BY <2>2
  <2> QED
    BY <2>1, <2>3
<1>2. \E x \in T : \A y \in T : ~(<<y, x>> \in OpToRel(<, Nat))
  BY <1>1, NatLessThanWellFounded, WFMin
<1>3. PICK t \in T : \A y \in T : ~(<<y, t>> \in OpToRel(<, Nat))
  BY <1>2
<1>4. \A y \in T : ~(y < t)
  BY <1>1, <1>3 DEF OpToRel
<1>5. PICK x \in S : t = n - x
  OBVIOUS
<1>6. \A y \in S : n - y \in T
  OBVIOUS
<1>7. \A y \in S : ~(n - y < n - x)
  BY <1>4, <1>5, <1>6
<1> QED
  BY <1>7

\* The last of several sessions.
LEMMA LastSession ==
  ASSUME SafeInv, StartsKnown, NEW S \in SUBSET Ids, S # {}
  PROVE  \E i \in S : \A j \in S : ~Earlier(i, j)
<1>t. now \in Nat /\ MaxId \in Nat /\ \A i \in Ids : row[i].start \in 0..now
  BY ConstantsAssumption DEF ConstantsAssumption, SafeInv, TypeInv, StoreOK, StartsKnown
<1> DEFINE starts == {row[i].start : i \in S}
<1>1. PICK t \in starts : \A u \in starts : u <= t
  <2>1. starts \in SUBSET (0..now) /\ starts # {}
    BY <1>t
  <2> HIDE DEF starts
  <2> QED
    BY <1>t, <2>1, Greatest
<1> DEFINE latest == {i \in S : row[i].start = t}
<1>2. PICK i \in latest : \A j \in latest : j <= i
  <2>1. \A j \in Ids : j \in 0..MaxId
    BY <1>t DEF Ids
  <2>2. latest \in SUBSET (0..MaxId)
    BY <2>1
  <2>3. latest # {}
    BY <1>1
  <2> HIDE DEF latest
  <2> QED
    BY <1>t, <2>2, <2>3, Greatest
<1>3. ASSUME NEW j \in S, Earlier(i, j) PROVE FALSE
  <2>1. row[j].start <= t /\ row[j].start \in Nat /\ row[i].start = t /\ t \in Nat
    BY <1>1, <1>2, <1>t
  <2>2. row[j].start = t /\ i < j
    BY <1>3, <2>1 DEF Earlier
  <2>3. j <= i
    BY <1>2, <2>2
  <2>4. i \in Nat /\ j \in Nat
    <3>1. Ids \subseteq Nat /\ i \in Ids /\ j \in Ids
      BY <1>2, <1>t DEF Ids
    <3> QED
      BY <3>1
  <2> QED
    BY <2>2, <2>3, <2>4
<1> QED
  BY <1>2, <1>3

LEMMA OrderPreventsCycles ==
  ASSUME SafeInv, StartsKnown, LocksInOrder
  PROVE  NoLockCycle
<1> SUFFICES ASSUME NEW waiting \in SUBSET Pods, waiting # {},
                    \A p \in waiting : \E q \in waiting : Awaits(p, q)
             PROVE  FALSE
  BY Zenon DEF NoLockCycle
<1> DEFINE next(p) == Head(mem[p].want)
           S == {next(p) : p \in waiting}
<1>1. ASSUME NEW p \in waiting
      PROVE  /\ pc[p] = "lock" /\ next(p) \in Ids
             /\ 1 \in DOMAIN mem[p].want /\ next(p) = mem[p].want[1]
  <2>1. pc[p] = "lock" /\ mem[p].want # <<>>
    BY DEF Awaits
  <2>2. mem[p].want \in Seq(Ids)
    BY DEF SafeInv, TypeInv, WorkersOK, Mem
  <2> QED
    BY <2>1, <2>2
<1>2. PICK i \in S : \A j \in S : ~Earlier(i, j)
  <2>1. S \in SUBSET Ids /\ S # {}
    BY <1>1
  <2> HIDE DEF S
  <2> QED
    BY <2>1, LastSession
<1>3. PICK p \in waiting : i = next(p)
  OBVIOUS
<1>4. PICK q \in waiting : i \in mem[q].held
  BY <1>3 DEF Awaits
<1>5. Earlier(i, next(q))
  BY <1>1, <1>4 DEF LocksInOrder
<1> QED
  BY <1>2, <1>5

\* With one subscribed process, no transactions of startLiveSession wait for each other in a
\* circle, whatever else happens while they run: the FOR UPDATE query asks for the rows in one order, and the
\* start_time it sorts by does not change once a session is OPENING.
THEOREM NeverInACircle ==
  ASSUME OneSubscriber
  PROVE  Spec => []NoLockCycle
<1>1. Init => LocksInOrder /\ StartsKnown
  BY DEF Init, LocksInOrder, StartsKnown
<1>2. SafeInv /\ SafeInv' /\ LocksInOrder /\ StartsKnown /\ [Next]_vars
        => LocksInOrder' /\ StartsKnown'
  BY LocksInOrderStep, StartsKnownStep DEF SafeInv
<1>3. SafeInv /\ LocksInOrder /\ StartsKnown => NoLockCycle
  BY OrderPreventsCycles
<1> QED
  BY AlwaysSafe, <1>1, <1>2, <1>3, PTL DEF Spec

(***************************************************************************)
(* The timetable.  What the three action properties say of single steps is *)
(* enough to map each step to one of SessionTimetable; the start time of an*)
(* opening is the time its message was handled, which is past.             *)
(***************************************************************************)
LEMMA PassedFromUntil ==
  ASSUME NEW t \in Nat, now \in 0..MaxNow, now >= Until(t)
  PROVE  Timetable!Passed(t)
BY ConstantsAssumption DEF ConstantsAssumption, Until, Timetable!Passed

LEMMA TimetableStep ==
  ASSUME SafeInv, SafeInv', ScheduleInv, StartsKnown, [Next]_vars
  PROVE  [Timetable!Next]_<<now, row>>
<1>t. /\ row \in [Ids -> [status: Statuses, start: Nat]] /\ now \in 0..MaxNow
      /\ Ids = Timetable!Sessions
  BY DEF SafeInv, TypeInv, StoreOK, Ids, Timetable!Sessions
<1>d. /\ StartAfter \in Nat /\ StopAfter \in Nat
      /\ \A i \in Ids : row[i].start \in Nat
  BY <1>t, ConstantsAssumption DEF ConstantsAssumption
<1>1. \/ Tick
      \/ UNCHANGED <<now, row>>
      \/ \E i \in Ids, s \in Subscribers : OpenSession(i, s)
      \/ \E i \in Ids : Complete(i)
      \/ \E p \in Pods : Commit(p) \/ MarkTimeReached(p)
  BY DEF Next, vars, ReadUpcoming, OpenerStep, ScheduleStart, OpenerFails,
         TakeStart, TakeStop, TakeSync, TakeStops, JobStep, CheckOpening, CheckOthers,
         SelectOpening, LockRow, CheckFinal, FinishStart, ListOpening, ListLive, ScheduleStop,
         ReadStatus, DbFails, RedisFails, Crash
<1>2. ASSUME Tick PROVE Timetable!Next
  BY <1>2 DEF Tick, Timetable!Next, Timetable!Tick
<1>3. ASSUME NEW i \in Ids, NEW s \in Subscribers, OpenSession(i, s) PROVE Timetable!Open(i)
  <2>1. row[i].status = "upcoming" /\ opener[i][s].time \in 0..now
    <3>1. opener[i][s].time \in Nat /\ opener[i][s].time <= now
      BY DEF SafeInv, TypeInv, StoreOK, Openers, StartsKnown
    <3> QED
      BY <1>3, <1>t, <3>1 DEF OpenSession, SafeInv, OpenedBefore
  <2> QED
    BY <1>3, <2>1 DEF OpenSession, Timetable!Open
<1>4. ASSUME NEW i \in Ids, Complete(i) PROVE Timetable!FillUp(i)
  BY <1>4 DEF Complete, Timetable!FillUp, Timetable!Change
<1>5. ASSUME NEW p \in Pods, Commit(p) PROVE Timetable!GoLive(mem[p].id)
  <2> DEFINE i == mem[p].id
  <2>1. /\ i \in Ids /\ row[i].status = "opening"
        /\ row' = [row EXCEPT ![i].status = "live"] /\ UNCHANGED now
    BY <1>5, CommitHolds DEF Commit
  <2>2. \A j \in Ids : row[j].status # "live"
    BY <1>5 DEF Commit, SafeInv, NoneLive, With
  <2>3. row'[i].status = "live"
    BY <1>t, <2>1
  <2>4. Timetable!Passed(row[i].start + StartAfter)
    <3>1. now >= LiveTime(i)
      BY <2>1, <2>3, OnTime
    <3> QED
      BY <1>d, <1>t, <2>1, <3>1, PassedFromUntil DEF LiveTime
  <2> QED
    BY <1>t, <2>1, <2>2, <2>4 DEF Timetable!GoLive, Timetable!Change
<1>6. ASSUME NEW p \in Pods, MarkTimeReached(p)
      PROVE  UNCHANGED <<now, row>> \/ Timetable!TimeUp(mem[p].id)
  <2> DEFINE i == mem[p].id
  <2>1. /\ i \in Ids /\ row[i].status \in Ended \cup {"live"}
        /\ row' = [row EXCEPT ![i].status = "time_reached"] /\ UNCHANGED now
    BY <1>6 DEF MarkTimeReached, SafeInv, OpenedBefore, OwnSession
  <2>2. CASE row[i].status = "time_reached"
    BY <1>t, <2>1, <2>2
  <2>3. CASE row[i].status # "time_reached"
    <3>1. row'[i].status = "time_reached"
      BY <1>t, <2>1
    <3>2. now >= EndTime(i)
      BY <2>1, <2>3, <3>1, OnTime
    <3>3. Timetable!Passed(row[i].start + StartAfter + StopAfter)
      BY <1>d, <1>t, <2>1, <3>2, PassedFromUntil DEF EndTime
    <3> QED
      BY <2>1, <2>3, <3>3 DEF Ended, Timetable!TimeUp, Timetable!Change
  <2> QED
    BY <2>2, <2>3
<1>7. \A p \in Pods : Commit(p) \/ MarkTimeReached(p) => mem[p].id \in Ids
  BY DEF Commit, MarkTimeReached, SafeInv, OwnSession, TxSteps
<1> QED
  BY <1>t, <1>1, <1>2, <1>3, <1>4, <1>5, <1>6, <1>7 DEF Timetable!Next

\* One subscribed process implements the timetable, with any number of processes running
\* jobs and any faults: row locks, delays, sweeps and updates by id come to no more than
\* opening sessions once, starting them alone and in time, and ending them.
THEOREM ImplementsTimetable ==
  ASSUME OneSubscriber
  PROVE  Spec => TimetableSpec
<1>1. Init => ScheduleInv /\ StartsKnown /\ Timetable!Init
  <2>1. Init => ScheduleInv
    BY InitSchedule
  <2> QED
    BY <2>1 DEF Init, StartsKnown, Timetable!Init, Timetable!Sessions, Ids
<1>2. SafeInv /\ ScheduleInv /\ StartsKnown /\ [Next]_vars => ScheduleInv' /\ StartsKnown'
  BY NextSchedule, StartsKnownStep
<1>3. SafeInv /\ SafeInv' /\ ScheduleInv /\ StartsKnown /\ [Next]_vars
        => [Timetable!Next]_<<now, row>>
  BY TimetableStep
<1> QED
  BY AlwaysSafe, <1>1, <1>2, <1>3, PTL DEF Spec, TimetableSpec, Timetable!Spec
=============================================================================
