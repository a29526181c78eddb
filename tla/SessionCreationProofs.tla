----------------------- MODULE SessionCreationProofs -----------------------
(***************************************************************************)
(* Proofs about SessionCreation for any pods, sessions, limits, attempts   *)
(* and faults.                                                             *)
(***************************************************************************)
EXTENDS SessionCreation, TLAPS, FiniteSetTheorems

(***************************************************************************)
(* What a step of one task leaves alone.                                   *)
(***************************************************************************)
Others(t) ==
  /\ pc' \in [Tasks -> Steps] /\ seen' \in [Tasks -> Nat]
  /\ \A u \in Tasks \ {t} : pc'[u] = pc[u] /\ seen'[u] = seen[u]

LEMMA Going ==
  ASSUME TypeOK, NEW t \in Tasks, NEW step \in Steps, Goto(t, step), UNCHANGED seen
  PROVE  Others(t) /\ pc'[t] = step /\ seen'[t] = seen[t]
BY DEF TypeOK, Goto, Others

LEMMA Seeing ==
  ASSUME TypeOK, NEW t \in Tasks, NEW step \in Steps, Goto(t, step),
         NEW n \in Nat, seen' = [seen EXCEPT ![t] = n]
  PROVE  Others(t) /\ pc'[t] = step /\ seen'[t] = n
BY DEF TypeOK, Goto, Others

LEMMA Quitting ==
  ASSUME TypeOK, NEW t \in Tasks, Quit(t)
  PROVE  Others(t) /\ pc'[t] = "idle" /\ seen'[t] = 0
BY Seeing DEF Quit, Steps

LEMMA Throwing ==
  ASSUME TypeOK, NEW t \in Tasks, Throw(t)
  PROVE  Others(t) /\ pc'[t] \in {"idle", "error"} /\ seen'[t] = 0
BY Seeing, Quitting DEF Throw, Steps

(***************************************************************************)
(* What one step of one task can do to the state.                          *)
(***************************************************************************)
Grows ==
  /\ status' \in [Sessions -> {"none", "upcoming", "opening"}] /\ Rows \subseteq Rows'
  /\ count' \in Nat /\ count <= count' /\ active' = active
  /\ enabled' \in BOOLEAN /\ flag' \in BOOLEAN
  /\ creation' \in [Selling -> {"none", "pending", "created"}]
  /\ next' \in [Selling -> SUBSET Sessions] /\ \A s \in Selling : next[s] \subseteq next'[s]
  /\ tries' \in [Selling -> 0..Attempts] /\ \A s \in Selling : tries[s] <= tries'[s]
  /\ announced' = announced

\* Sales are disabled by a task that found the profile full, and a job stores isCreated
\* after it has created.
Answers(t) ==
  /\ ~SalesEnabled' => ~SalesEnabled \/ pc[t] \in {"disable", "flag"}
  /\ \A s \in Selling : creation'[s] = "created" =>
                          creation[s] = "created" \/ (s = Of(t) /\ pc[t] = "confirm")

Arrives(t) ==
  /\ pc[t] # "idle" /\ seen'[t] <= count'
  /\ pc'[t] \in {"disable", "flag"} => pc[t] = "disable" \/ LimitReached(t)
  /\ pc'[t] \in {"increment", "confirm"} => pc[t] = "increment" \/ next'[Of(t)] # {}

\* What every task and every answer relies on.
CreationInv ==
  /\ announced \subseteq Rows
  /\ \A t \in Tasks :
       /\ pc[t] # "idle" => Of(t) \in announced
       /\ seen[t] <= count
       /\ pc[t] \in {"disable", "flag"} => count >= Limit
       /\ pc[t] \in {"increment", "confirm"} => next[Of(t)] # {}
       /\ By(t) = Job /\ pc[t] # "idle" => tries[Of(t)] > 0
  /\ AnswersAreTrue

LEMMA TaskTypes ==
  ASSUME NEW t \in Tasks
  PROVE  Of(t) \in Selling /\ Of(t) \in Sessions /\ By(t) \in Pods \cup {Job}
BY ConstantsAssumption DEF Tasks, Of, By, Selling, Sessions, ConstantsAssumption

LEMMA Keeps ==
  ASSUME TypeOK, CreationInv, NEW t \in Tasks, Others(t), Grows, Answers(t), Arrives(t),
         faults' \in 0..MaxFaults
  PROVE  TypeOK' /\ CreationInv'
<1>1. TypeOK'
  BY DEF TypeOK, Others, Grows
<1>2. Of(t) \in Selling /\ seen[t] \in Nat /\ count \in Nat /\ count' \in Nat /\ Limit \in Nat
  BY TaskTypes, ConstantsAssumption DEF TypeOK, Grows, ConstantsAssumption
<1>3. ASSUME NEW u \in Tasks \ {t}
      PROVE  /\ pc'[u] # "idle" => Of(u) \in announced'
             /\ seen'[u] <= count'
             /\ pc'[u] \in {"disable", "flag"} => count' >= Limit
             /\ pc'[u] \in {"increment", "confirm"} => next'[Of(u)] # {}
             /\ By(u) = Job /\ pc'[u] # "idle" => tries'[Of(u)] > 0
  <2>1. Of(u) \in Selling /\ pc'[u] = pc[u] /\ seen'[u] = seen[u] /\ seen[u] \in Nat
    BY TaskTypes DEF Others, TypeOK
  <2>2. next[Of(u)] \subseteq next'[Of(u)]
        /\ tries[Of(u)] \in Nat /\ tries'[Of(u)] \in Nat /\ tries[Of(u)] <= tries'[Of(u)]
    BY <2>1 DEF Grows, TypeOK
  <2> QED
    BY <1>2, <2>1, <2>2 DEF CreationInv, Grows
<1>4. /\ pc'[t] # "idle" => Of(t) \in announced'
      /\ seen'[t] <= count'
      /\ pc'[t] \in {"disable", "flag"} => count' >= Limit
      /\ pc'[t] \in {"increment", "confirm"} => next'[Of(t)] # {}
      /\ By(t) = Job /\ pc'[t] # "idle" => tries'[Of(t)] > 0
  <2>1. next[Of(t)] \subseteq next'[Of(t)]
        /\ tries[Of(t)] \in Nat /\ tries'[Of(t)] \in Nat /\ tries[Of(t)] <= tries'[Of(t)]
    BY <1>2 DEF Grows, TypeOK
  <2>2. LimitReached(t) => count' >= Limit
    BY <1>2 DEF LimitReached, CreationInv, Grows
  <2> QED
    BY <1>2, <2>1, <2>2 DEF CreationInv, Grows, Arrives
<1>5. AnswersAreTrue'
  <2>1. ~SalesEnabled' => count' >= Limit
    BY <1>2 DEF Answers, CreationInv, AnswersAreTrue, Grows
  <2>2. ASSUME NEW s \in Selling, creation'[s] = "created" PROVE next'[s] # {}
    BY <2>2 DEF Answers, CreationInv, AnswersAreTrue, Grows
  <2> QED
    BY <2>1, <2>2 DEF AnswersAreTrue
<1>6. announced' \subseteq Rows'
  BY DEF CreationInv, Grows
<1> QED
  BY <1>1, <1>3, <1>4, <1>5, <1>6 DEF CreationInv

(***************************************************************************)
(* The steps of a task.                                                    *)
(***************************************************************************)
LEMMA HandleEffects ==
  ASSUME TypeOK, CreationInv, NEW t \in Tasks, Handle(t)
  PROVE  Others(t) /\ Grows /\ Answers(t) /\ Arrives(t)
<1> USE TaskTypes DEF TypeOK, Grows, Answers, Arrives, Rows, SalesEnabled
<1>1. CASE ReadProfile(t)
  <2>1. Others(t) /\ pc'[t] \in {"existing", "idle", "error"} /\ seen'[t] \in {0, count}
    BY <1>1, Seeing, Throwing DEF ReadProfile, Steps
  <2> QED
    BY <1>1, <2>1 DEF ReadProfile, profile, selling
<1>2. CASE ReadExisting(t)
  <2>1. Others(t) /\ pc'[t] \in {"open", "create"} /\ seen'[t] = seen[t]
    BY <1>2, Going DEF ReadExisting, Steps
  <2> QED
    BY <1>2, <2>1 DEF ReadExisting, profile, selling, CreationInv
<1>3. CASE OpenExisting(t)
  <2>1. Others(t) /\ pc'[t] = "create" /\ seen'[t] = seen[t]
    BY <1>3, Going DEF OpenExisting, Steps
  <2>2. status[Of(t)] # "none"
    BY <1>3 DEF OpenExisting, CreationInv
  <2> QED
    BY <1>3, <2>1, <2>2 DEF OpenExisting, profile, selling, CreationInv
<1>4. CASE CreateNext(t)
  <2>1. Others(t) /\ pc'[t] = "increment" /\ seen'[t] = seen[t]
    BY <1>4, Going DEF CreateNext, Steps
  <2>2. PICK s \in Sessions \ Rows : /\ status' = [status EXCEPT ![s] = "upcoming"]
                                     /\ next' = [next EXCEPT ![Of(t)] = @ \cup {s}]
    BY <1>4 DEF CreateNext
  <2> QED
    BY <1>4, <2>1, <2>2 DEF CreateNext, profile, selling, CreationInv
<1>5. CASE RefuseNext(t)
  <2>1. /\ Others(t) /\ seen'[t] = 0 /\ pc'[t] \in {"disable", "idle", "error"}
        /\ pc[t] = "create" /\ LimitReached(t)
    BY <1>5, Seeing, Throwing DEF RefuseNext, Steps
  <2> QED
    BY <1>5, <2>1 DEF RefuseNext, profile, selling
<1>6. CASE Increment(t)
  <2>1. Others(t) /\ seen'[t] = 0 /\ pc'[t] \in {"confirm", "idle"}
    BY <1>6, Seeing, Quitting DEF Increment, Steps
  <2> QED
    BY <1>6, <2>1 DEF Increment, Incremented, selling, CreationInv
<1>7. CASE DisableTerms(t)
  <2>1. Others(t) /\ seen'[t] = seen[t] /\ pc'[t] \in {"flag", "idle"}
    BY <1>7, Going DEF DisableTerms, Steps
  <2> QED
    <3>1. /\ pc[t] = "disable" /\ enabled' = FALSE
          /\ UNCHANGED <<status, announced, count, active, flag, creation, next, tries>>
      BY <1>7 DEF DisableTerms, profile
    <3>2. seen[t] <= count
      BY DEF CreationInv
    <3>3. seen'[t] <= count'
      BY <2>1, <3>1, <3>2
    <3>4. Grows
      <4>1. enabled' \in BOOLEAN /\ flag' = flag
        BY <3>1, Zenon
      <4> QED
        BY <3>1, <4>1
    <3> QED
      BY <2>1, <3>1, <3>3, <3>4
<1>8. CASE SetFlag(t)
  <2>1. Others(t) /\ seen'[t] = seen[t] /\ pc'[t] = "idle"
    BY <1>8, Going DEF SetFlag, Steps
  <2> QED
    BY <1>8, <2>1 DEF SetFlag, profile, CreationInv
<1>9. CASE MarkPending(t)
  <2>1. Others(t) /\ seen'[t] = seen[t] /\ pc'[t] = "profile"
    BY <1>9, Going DEF MarkPending, Steps
  <2> QED
    BY <1>9, <2>1 DEF MarkPending, Begun, profile, selling, CreationInv
<1>10. CASE MarkCreated(t)
  <2>1. Others(t) /\ seen'[t] = seen[t] /\ pc'[t] = "idle"
    BY <1>10, Going DEF MarkCreated, Steps
  <2> QED
    BY <1>10, <2>1 DEF MarkCreated, profile, selling, CreationInv
<1>11. CASE MarkFailed(t)
  <2>1. Others(t) /\ seen'[t] = seen[t] /\ pc'[t] \in {"pending", "idle"}
    BY <1>11, Going DEF MarkFailed, Retry, Steps
  <2>2. tries' \in [Selling -> 0..Attempts] /\ \A s \in Selling : tries[s] <= tries'[s]
    BY <1>11, ConstantsAssumption DEF MarkFailed, Retry, Retried, ConstantsAssumption
  <2> QED
    <3>1. /\ pc[t] = "error" /\ creation' = [creation EXCEPT ![Of(t)] = "pending"]
          /\ UNCHANGED <<status, announced, count, active, enabled, flag, next>>
      BY <1>11 DEF MarkFailed, profile, selling
    <3>2. seen[t] <= count
      BY DEF CreationInv
    <3> QED
      BY <2>1, <2>2, <3>1, <3>2
<1> QED
  BY <1>1, <1>2, <1>3, <1>4, <1>5, <1>6, <1>7, <1>8, <1>9, <1>10, <1>11 DEF Handle

FailTask(t) == DbFails(t) \/ RedisFails(t) \/ CrashWorker(t)

LEMMA FailEffects ==
  ASSUME TypeOK, CreationInv, NEW t \in Tasks, FailTask(t)
  PROVE  Others(t) /\ Grows /\ Answers(t) /\ Arrives(t) /\ faults' \in 1..MaxFaults
<1> USE TaskTypes DEF TypeOK, Grows, Answers, Arrives, Rows, SalesEnabled
<1>0. faults' \in 1..MaxFaults
  BY ConstantsAssumption DEF FailTask, DbFails, RedisFails, CrashWorker, Fault, ConstantsAssumption
<1>1. CASE DbFails(t)
  <2>1. Others(t) /\ pc'[t] \in {"idle", "error"} /\ seen'[t] = 0 /\ pc[t] # "idle"
    BY <1>1, Throwing, Quitting DEF DbFails
  <2> QED
    BY <1>0, <1>1, <2>1 DEF DbFails, profile, selling
<1>2. CASE RedisFails(t)
  <2>1. Others(t) /\ seen'[t] = seen[t] /\ pc[t] # "idle" /\ pc'[t] \in {"pending", "idle", "error"}
    BY <1>2, Going DEF RedisFails, Retry, Steps
  <2>2. tries' \in [Selling -> 0..Attempts] /\ \A s \in Selling : tries[s] <= tries'[s]
    BY <1>2, ConstantsAssumption DEF RedisFails, Retry, Retried, ConstantsAssumption
  <2> QED
    BY <1>0, <1>2, <2>1, <2>2 DEF RedisFails, profile, selling, CreationInv
<1>3. CASE CrashWorker(t)
  <2>1. Others(t) /\ seen'[t] = 0 /\ pc[t] # "idle" /\ pc'[t] = "pending"
    BY <1>3, Seeing DEF CrashWorker, Steps
  <2> QED
    BY <1>0, <1>3, <2>1 DEF CrashWorker, profile, selling
<1> QED
  BY <1>1, <1>2, <1>3 DEF FailTask

(***************************************************************************)
(* Steps of several tasks, or of none.                                     *)
(***************************************************************************)
LEMMA PodSteps ==
  ASSUME TypeOK, CreationInv, NEW p \in Pods, Crash(p) \/ \E s \in Selling : MessageLost(p, s)
  PROVE  /\ TypeOK' /\ CreationInv' /\ faults' # 0 /\ UNCHANGED <<status, count>>
         /\ \A t \in Tasks : pc'[t] \in {"idle", pc[t]}
<1>1. faults' \in 0..MaxFaults /\ faults' # 0
  <2>1. faults < MaxFaults /\ faults' = faults + 1
    BY DEF Crash, MessageLost, Fault
  <2> QED
    BY <2>1, ConstantsAssumption DEF TypeOK, ConstantsAssumption
<1>2. UNCHANGED <<status, announced, profile, selling, creation, next, tries>>
  BY DEF Crash, MessageLost
<1>3. /\ pc' \in [Tasks -> Steps] /\ seen' \in [Tasks -> Nat]
      /\ \A t \in Tasks : pc'[t] \in {"idle", pc[t]} /\ seen'[t] \in {0, seen[t]}
  <2>1. CASE Crash(p)
    BY <2>1 DEF Crash, TypeOK, Steps
  <2>2. ASSUME NEW s \in Selling, MessageLost(p, s)
        PROVE  /\ pc' \in [Tasks -> Steps] /\ seen' \in [Tasks -> Nat]
               /\ \A t \in Tasks : pc'[t] \in {"idle", pc[t]} /\ seen'[t] \in {0, seen[t]}
    BY <2>2 DEF MessageLost, Goto, TypeOK, Steps
  <2> QED
    BY <2>1, <2>2
<1>4. TypeOK'
  BY <1>1, <1>2, <1>3 DEF TypeOK, profile, selling
<1>5. CreationInv'
  BY <1>2, <1>3 DEF CreationInv, AnswersAreTrue, SalesEnabled, Rows, TypeOK, profile, selling
<1> QED
  BY <1>1, <1>2, <1>3, <1>4, <1>5 DEF profile

LEMMA OutsideSteps ==
  ASSUME TypeOK, CreationInv,
         (\E s \in Selling : Announce(s) \/ Enqueue(s)) \/ Deactivate \/ UNCHANGED vars
  PROVE  /\ TypeOK' /\ CreationInv' /\ UNCHANGED <<status, count, faults>>
         /\ \A t \in Tasks : pc'[t] = pc[t] \/ (pc[t] = "idle" /\ pc'[t] # "increment")
<1> USE TaskTypes DEF TypeOK
<1>1. ASSUME NEW s \in Selling, Announce(s)
      PROVE  /\ TypeOK' /\ CreationInv' /\ UNCHANGED <<status, count, faults>>
             /\ \A t \in Tasks : pc'[t] = pc[t] \/ (pc[t] = "idle" /\ pc'[t] # "increment")
  <2>1. /\ pc' \in [Tasks -> Steps]
        /\ \A t \in Tasks : IF Of(t) = s /\ By(t) # Job THEN pc'[t] = "profile" /\ pc[t] = "idle"
                                                         ELSE pc'[t] = pc[t]
    BY <1>1 DEF Announce, CreationInv, Steps
  <2>2. announced' = announced \cup {s} /\ status[s] # "none"
        /\ UNCHANGED <<status, profile, selling, creation, next, seen, tries, faults>>
    BY <1>1 DEF Announce
  <2>3. s \in Sessions
    BY ConstantsAssumption DEF Selling, Sessions, ConstantsAssumption
  <2> QED
    BY <2>1, <2>2, <2>3 DEF CreationInv, AnswersAreTrue, SalesEnabled, Rows, profile, selling
<1>2. ASSUME NEW s \in Selling, Enqueue(s)
      PROVE  /\ TypeOK' /\ CreationInv' /\ UNCHANGED <<status, count, faults>>
             /\ \A t \in Tasks : pc'[t] = pc[t] \/ (pc[t] = "idle" /\ pc'[t] # "increment")
  <2> DEFINE j == <<Job, s>>
  <2>1. j \in Tasks /\ Of(j) = s /\ By(j) = Job /\ pc[j] = "idle"
    <3>1. j \in Tasks /\ Of(j) = s /\ By(j) = Job
      BY DEF Tasks, Of, By
    <3>2. tries[s] = 0
      BY <1>2 DEF Enqueue
    <3> HIDE DEF j
    <3> QED
      BY <3>1, <3>2 DEF CreationInv
  <2>2. /\ pc' = [pc EXCEPT ![j] = "pending"] /\ tries' = [tries EXCEPT ![s] = 1]
        /\ s \in announced /\ Attempts >= 1 /\ Attempts \in Nat
        /\ UNCHANGED <<status, announced, profile, selling, creation, next, seen, faults>>
    BY <1>2, ConstantsAssumption DEF Enqueue, Goto, ConstantsAssumption
  <2> HIDE DEF j
  <2>3. TypeOK' /\ \A t \in Tasks : IF t = j THEN pc'[t] = "pending" ELSE pc'[t] = pc[t]
    BY <2>1, <2>2 DEF Steps, profile, selling
  <2> QED
    BY <2>1, <2>2, <2>3 DEF CreationInv, AnswersAreTrue, SalesEnabled, Rows, profile, selling
<1>3. CASE Deactivate
  BY <1>3 DEF Deactivate, CreationInv, AnswersAreTrue, SalesEnabled, Rows, selling, task
<1>4. CASE UNCHANGED vars
  BY <1>4 DEF vars, CreationInv, AnswersAreTrue, SalesEnabled, Rows, profile, selling, task
<1> QED
  BY <1>1, <1>2, <1>3, <1>4

LEMMA InitCreation == Init => TypeOK /\ CreationInv
<1> SUFFICES ASSUME Init PROVE TypeOK /\ CreationInv
  OBVIOUS
<1>1. TypeOK
  <2>1. faults \in 0..MaxFaults /\ tries \in [Selling -> 0..Attempts]
    BY ConstantsAssumption DEF Init, ConstantsAssumption
  <2>2. status \in [Sessions -> {"none", "upcoming", "opening"}]
    BY DEF Init
  <2> QED
    BY <2>1, <2>2 DEF Init, TypeOK, Steps
<1>2. CreationInv
  BY DEF Init, CreationInv, AnswersAreTrue, SalesEnabled
<1> QED
  BY <1>1, <1>2

LEMMA StepCreation == TypeOK /\ CreationInv /\ [Next]_vars => TypeOK' /\ CreationInv'
<1> SUFFICES ASSUME TypeOK, CreationInv, [Next]_vars PROVE TypeOK' /\ CreationInv'
  OBVIOUS
<1>1. ASSUME NEW t \in Tasks, Handle(t) PROVE TypeOK' /\ CreationInv'
  <2>1. faults' = faults
    BY <1>1 DEF Handle, ReadProfile, ReadExisting, OpenExisting, CreateNext, RefuseNext, Increment,
                DisableTerms, SetFlag, MarkPending, MarkCreated, MarkFailed
  <2> QED
    BY <1>1, <2>1, HandleEffects, Keeps DEF TypeOK
<1>2. ASSUME NEW t \in Tasks, FailTask(t) PROVE TypeOK' /\ CreationInv'
  BY <1>2, FailEffects, Keeps
<1> QED
  BY <1>1, <1>2, PodSteps, OutsideSteps DEF Next, FailTask

LEMMA AlwaysCreation == Spec => [](TypeOK /\ CreationInv)
BY InitCreation, StepCreation, PTL DEF Spec

\* Every variable keeps its type, and no job has more attempts than it was given.
THEOREM TypeCorrect == Spec => []TypeOK
BY AlwaysCreation, PTL

\* Sales are disabled only when the profile has all its sessions, and a session is reported
\* as created only when there is one, however many pods and jobs overlap and whatever fails.
THEOREM TrueAnswers == Spec => []AnswersAreTrue
<1>1. CreationInv => AnswersAreTrue
  BY DEF CreationInv
<1> QED
  BY <1>1, AlwaysCreation, PTL

(***************************************************************************)
(* The count of the profile and its rows.  Between them are the tasks that *)
(* have created a row and have yet to count it.                            *)
(***************************************************************************)
Counting == {t \in Tasks : pc[t] = "increment"}

CountInv ==
  /\ IsFiniteSet(Counting)
  /\ count + Cardinality(Counting) <= Cardinality(Rows)
  /\ faults = 0 => count + Cardinality(Counting) = Cardinality(Rows)

LEMMA RowsFinite == IsFiniteSet(Rows) /\ Cardinality(Rows) \in Nat
<1>1. IsFiniteSet(Sessions)
  BY FS_Interval, ConstantsAssumption DEF Sessions, ConstantsAssumption
<1>2. Rows \in SUBSET Sessions
  BY DEF Rows
<1> QED
  BY <1>1, <1>2, FS_Subset, FS_CardinalityType

LEMMA CountKept ==
  ASSUME CountInv, Counting' = Counting, Rows' = Rows, count' = count, faults' = faults \/ faults' # 0
  PROVE  CountInv'
BY DEF CountInv

LEMMA CountFewer ==
  ASSUME CountInv, TypeOK, Counting' \subseteq Counting, Rows' = Rows, count' = count, faults' # 0
  PROVE  CountInv'
<1>1. /\ IsFiniteSet(Counting') /\ Cardinality(Counting') <= Cardinality(Counting)
      /\ Cardinality(Counting') \in Nat /\ Cardinality(Counting) \in Nat
  BY FS_Subset, FS_CardinalityType DEF CountInv
<1> QED
  BY <1>1, RowsFinite DEF CountInv, TypeOK

LEMMA CountCreated ==
  ASSUME CountInv, TypeOK, NEW t, t \notin Counting, Counting' = Counting \cup {t},
         NEW s, s \notin Rows, Rows' = Rows \cup {s}, count' = count, faults' = faults
  PROVE  CountInv'
<1>1. IsFiniteSet(Counting') /\ Cardinality(Counting') = Cardinality(Counting) + 1
      /\ Cardinality(Counting) \in Nat
  BY FS_AddElement, FS_CardinalityType DEF CountInv
<1>2. Cardinality(Rows') = Cardinality(Rows) + 1
  BY RowsFinite, FS_AddElement
<1> QED
  BY <1>1, <1>2, RowsFinite DEF CountInv, TypeOK

LEMMA CountCounted ==
  ASSUME CountInv, TypeOK, NEW t, t \in Counting, Counting' = Counting \ {t}, Rows' = Rows,
         count' = count + 1, faults' = faults
  PROVE  CountInv'
<1>1. IsFiniteSet(Counting') /\ Cardinality(Counting') = Cardinality(Counting) - 1
      /\ Cardinality(Counting) \in Nat
  BY FS_RemoveElement, FS_CardinalityType DEF CountInv
<1> QED
  BY <1>1, RowsFinite DEF CountInv, TypeOK

LEMMA StepCount == TypeOK /\ CreationInv /\ CountInv /\ [Next]_vars => CountInv'
<1> SUFFICES ASSUME TypeOK, CreationInv, CountInv, [Next]_vars PROVE CountInv'
  OBVIOUS
<1>1. ASSUME NEW t \in Tasks, Handle(t) PROVE CountInv'
  <2>1. Others(t) /\ faults' = faults
    BY <1>1, HandleEffects
    DEF Handle, ReadProfile, ReadExisting, OpenExisting, CreateNext, RefuseNext, Increment,
        DisableTerms, SetFlag, MarkPending, MarkCreated, MarkFailed
  <2>2. CASE CreateNext(t)
    <3>1. pc[t] = "create" /\ pc'[t] = "increment"
      BY <2>2 DEF CreateNext, Goto, TypeOK
    <3>2. t \notin Counting /\ Counting' = Counting \cup {t}
      BY <2>1, <3>1 DEF Counting, Others
    <3>3. PICK s \in Sessions \ Rows : status' = [status EXCEPT ![s] = "upcoming"]
      BY <2>2 DEF CreateNext
    <3>4. Rows' = Rows \cup {s}
      BY <3>3 DEF Rows, TypeOK
    <3>5. count' = count
      BY <2>2 DEF CreateNext, profile
    <3> QED
      BY <2>1, <3>2, <3>3, <3>4, <3>5, CountCreated
  <2>3. CASE Increment(t)
    <3>1. pc[t] = "increment" /\ pc'[t] # "increment"
      BY <2>3 DEF Increment, Quit, Goto, TypeOK
    <3>2. t \in Counting /\ Counting' = Counting \ {t}
      BY <2>1, <3>1 DEF Counting, Others
    <3>3. Rows' = Rows /\ count' = count + 1
      BY <2>3 DEF Increment, Incremented, Rows
    <3> QED
      BY <2>1, <3>2, <3>3, CountCounted
  <2>4. CASE ~CreateNext(t) /\ ~Increment(t)
    <3>1. pc[t] # "increment" /\ pc'[t] # "increment"
      BY <1>1, <2>4
      DEF Handle, ReadProfile, ReadExisting, OpenExisting, RefuseNext, DisableTerms, SetFlag,
          MarkPending, MarkCreated, MarkFailed, Retry, Throw, Quit, Goto, TypeOK
    <3>2. Counting' = Counting
      BY <2>1, <3>1 DEF Counting, Others
    <3>3. Rows' = Rows
      <4>1. CASE OpenExisting(t)
        <5>1. status[Of(t)] # "none" /\ status' = [status EXCEPT ![Of(t)] = "opening"]
          BY <4>1 DEF OpenExisting, CreationInv, Rows
        <5> QED
          BY <5>1 DEF Rows, TypeOK
      <4>2. CASE ~OpenExisting(t)
        <5>1. status' = status
          BY <1>1, <2>4, <4>2
          DEF Handle, ReadProfile, ReadExisting, RefuseNext, DisableTerms, SetFlag,
              MarkPending, MarkCreated, MarkFailed
        <5> QED
          BY <5>1 DEF Rows
      <4> QED
        BY <4>1, <4>2
    <3>4. count' = count
      BY <1>1, <2>4
      DEF Handle, ReadProfile, ReadExisting, OpenExisting, RefuseNext, DisableTerms, SetFlag,
          MarkPending, MarkCreated, MarkFailed, profile
    <3> QED
      BY <2>1, <3>2, <3>3, <3>4, CountKept
  <2> QED
    BY <2>2, <2>3, <2>4
<1>2. ASSUME NEW t \in Tasks, FailTask(t) PROVE CountInv'
  <2>1. Others(t) /\ faults' # 0
    BY <1>2, FailEffects
  <2>2. pc'[t] # "increment" /\ UNCHANGED <<status, count>>
    BY <1>2 DEF FailTask, DbFails, RedisFails, CrashWorker, Retry, Throw, Quit, Goto, TypeOK, profile
  <2>3. Counting' \subseteq Counting /\ Rows' = Rows
    BY <2>1, <2>2 DEF Counting, Others, Rows
  <2> QED
    BY <2>1, <2>2, <2>3, CountFewer
<1>3. ASSUME NEW p \in Pods, Crash(p) \/ \E s \in Selling : MessageLost(p, s) PROVE CountInv'
  <2>1. /\ faults' # 0 /\ UNCHANGED <<status, count>>
        /\ \A t \in Tasks : pc'[t] \in {"idle", pc[t]}
    BY <1>3, PodSteps
  <2>2. Counting' \subseteq Counting /\ Rows' = Rows
    BY <2>1 DEF Counting, Rows
  <2> QED
    BY <2>1, <2>2, CountFewer
<1>4. CASE (\E s \in Selling : Announce(s) \/ Enqueue(s)) \/ Deactivate \/ UNCHANGED vars
  <2>1. /\ UNCHANGED <<status, count, faults>>
        /\ \A t \in Tasks : pc'[t] = pc[t] \/ (pc[t] = "idle" /\ pc'[t] # "increment")
    BY <1>4, OutsideSteps
  <2>2. Counting' = Counting /\ Rows' = Rows
    BY <2>1 DEF Counting, Rows
  <2> QED
    BY <2>1, <2>2, CountKept
<1> QED
  BY <1>1, <1>2, <1>3, <1>4 DEF Next, FailTask

\* However many calls overlap and whatever fails, the count of the profile never runs ahead
\* of its sessions, and without faults it misses only those about to be counted.
THEOREM EveryRowCounted == Spec => []CountsEveryRow
<1>1. Init => CountInv
  <2> SUFFICES ASSUME Init PROVE CountInv
    OBVIOUS
  <2>1. Counting = {} /\ Rows = {1} /\ count = 1
    BY ConstantsAssumption DEF Init, Counting, Rows, Sessions, ConstantsAssumption
  <2>2. IsFiniteSet(Counting) /\ Cardinality(Counting) = 0
    BY <2>1, FS_EmptySet
  <2>3. Cardinality(Rows) = 1
    BY <2>1, FS_Singleton
  <2> QED
    BY <2>1, <2>2, <2>3 DEF CountInv
<1>2. CountInv => CountsEveryRow
  BY DEF CountInv, CountsEveryRow, Counting
<1> QED
  BY <1>1, <1>2, StepCount, AlwaysCreation, PTL DEF Spec
=============================================================================
