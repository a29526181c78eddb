------------------------- MODULE CouponApplyProofs -------------------------
(***************************************************************************)
(* Proofs about CouponApply for any coupons, users, pods and limits.       *)
(***************************************************************************)
EXTENDS CouponApply, TLAPS, FiniteSetTheorems, SequenceTheorems

(***************************************************************************)
(* Sets of coupons are finite, so counting them is meaningful.             *)
(***************************************************************************)
LEMMA CountingCoupons ==
  \A S \in SUBSET Coupons : IsFiniteSet(S) /\ Cardinality(S) \in Nat
BY FS_Subset, FS_CardinalityType, ConstantsAssumption DEF ConstantsAssumption

LEMMA MoreCoupons ==
  ASSUME NEW S \in SUBSET Coupons, NEW T \in SUBSET Coupons, S \subseteq T
  PROVE  Cardinality(S) <= Cardinality(T)
BY FS_Subset, CountingCoupons

LEMMA OneMoreCoupon ==
  ASSUME NEW S \in SUBSET Coupons, NEW c \in Coupons, c \notin S
  PROVE  Cardinality(S \cup {c}) = Cardinality(S) + 1
BY FS_AddElement, CountingCoupons

(***************************************************************************)
(* Types, by the part of the system that keeps the state.  Two facts beyond*)
(* TypeOK make the types inductive: an admitted call names a coupon, and a *)
(* pod at a step of a handler runs a job of that handler.                  *)
(***************************************************************************)
StoreOK ==
  /\ session \in [status: SessionStatuses, participants: Nat, salesMet: BOOLEAN]
  /\ coupon \in [Coupons -> CouponRows]
  /\ reward \in [Coupons -> Nat]
  /\ counter \in Int
  /\ faults \in 0..MaxFaults

QueueOK ==
  /\ queue \in Seq(Jobs)
  /\ delayed \subseteq Jobs
  /\ expireId \in BOOLEAN
  /\ arrivals \in Seq(Coupons)

CallRows == [stage: {"new", "admitted", "unique", "over"}, coupon: Coupons \cup {None}]

CallsOK ==
  /\ call \in [Calls -> CallRows]
  /\ \A k \in Calls : call[k].stage \in {"admitted", "unique"} => call[k].coupon \in Coupons

WorkersOK ==
  /\ pc \in [Pods -> {"idle"} \cup ApplySteps \cup OtherSteps]
  /\ job \in [Pods -> Jobs \cup {None}]
  /\ orphan \in [Pods -> Jobs \cup {None}]
  /\ \A p \in Pods : /\ pc[p] \in ApplySteps => job[p] \in ApplyJobs
                     /\ pc[p] \in OtherSteps => job[p] \in OtherJobs

MemOK == mem \in [Pods -> Mem]

TypeInv == StoreOK /\ QueueOK /\ CallsOK /\ WorkersOK /\ MemOK

LEMMA TypeInvImpliesTypeOK == TypeInv => TypeOK
BY DEF TypeInv, TypeOK, StoreOK, QueueOK, CallsOK, WorkersOK, MemOK, CallRows

LEMMA ConstantJobs == StopJob \in OtherJobs /\ ExpireJob \in OtherJobs
BY DEF StopJob, ExpireJob, OtherJobs

LEMMA InitTypes == Init => TypeInv
<1> SUFFICES ASSUME Init PROVE TypeInv
  OBVIOUS
<1> USE DEF Init
<1>1. StoreOK
  <2>1. session \in [status: SessionStatuses, participants: Nat, salesMet: BOOLEAN]
    BY DEF SessionStatuses
  <2>2. coupon \in [Coupons -> CouponRows]
    BY DEF CouponRows, CouponStatuses
  <2>3. reward \in [Coupons -> Nat] /\ counter \in Int
    OBVIOUS
  <2>4. faults \in 0..MaxFaults
    BY ConstantsAssumption, SMT DEF ConstantsAssumption
  <2> QED
    BY <2>1, <2>2, <2>3, <2>4, Zenon DEF StoreOK
<1>2. QueueOK
  <2>1. StopJob \in Jobs
    BY ConstantJobs DEF Jobs
  <2>2. queue \in Seq(Jobs) /\ arrivals \in Seq(Coupons)
    BY EmptySeq
  <2> QED
    BY <2>1, <2>2 DEF QueueOK
<1>3. CallsOK
  BY DEF CallsOK, CallRows
<1>4. WorkersOK
  BY DEF WorkersOK, ApplySteps, OtherSteps
<1>5. MemOK
  BY DEF MemOK, Mem, Fresh
<1> QED
  BY <1>1, <1>2, <1>3, <1>4, <1>5 DEF TypeInv

LEMMA QueuedType ==
  ASSUME QueueOK, NEW j \in Jobs
  PROVE  Queued(j) \in Seq(Jobs)
BY DEF Queued, QueueOK

LEMMA RetiredType ==
  ASSUME StoreOK, NEW u
  PROVE  Retired(u) \in [Coupons -> CouponRows]
BY DEF StoreOK, Retired, CouponRows

LEMMA OutcomeType ==
  ASSUME coupon \in [Coupons -> CouponRows], NEW c \in Coupons,
         NEW position \in Int, NEW status \in CouponStatuses
  PROVE  [coupon EXCEPT ![c].applied = TRUE, ![c].position = position, ![c].status = status]
           \in [Coupons -> CouponRows]
BY DEF CouponRows

LEMMA Untouched ==
  ASSUME TypeInv
  PROVE  /\ UNCHANGED call => CallsOK'
         /\ UNCHANGED jobs => QueueOK'
         /\ UNCHANGED <<db, counter, faults>> => StoreOK'
         /\ UNCHANGED mem => MemOK'
         /\ UNCHANGED worker => WorkersOK'
BY DEF TypeInv, CallsOK, QueueOK, StoreOK, MemOK, WorkersOK, db, jobs, worker

LEMMA ApiTypes ==
  ASSUME TypeInv, NEW k \in Calls, Api(k)
  PROVE  TypeInv'
<1>0. StoreOK /\ QueueOK /\ CallsOK /\ WorkersOK /\ MemOK
  BY DEF TypeInv
<1>1. ASSUME UNCHANGED worker PROVE WorkersOK' /\ MemOK'
  BY <1>0, <1>1 DEF WorkersOK, MemOK, worker
<1>2. ASSUME NEW c \in Coupons, Admit(k, c) PROVE TypeInv'
  <2>1. CallsOK'
    BY <1>0, <1>2 DEF Admit, CallsOK, CallRows
  <2> QED
    BY <1>0, <1>1, <1>2, <2>1 DEF Admit, TypeInv, StoreOK, QueueOK, db, jobs
<1>3. ASSUME NEW c \in Coupons, RefuseMaxWins(k, c) PROVE TypeInv'
  <2>1. CallsOK'
    BY <1>0, <1>3 DEF RefuseMaxWins, CallsOK, CallRows
  <2>2. StoreOK'
    BY <1>0, <1>3, RetiredType DEF RefuseMaxWins, StoreOK
  <2> QED
    BY <1>0, <1>1, <1>3, <2>1, <2>2 DEF RefuseMaxWins, TypeInv, QueueOK, jobs
<1>4. CASE LookUp(k)
  <2>1. PICK s \in {"over", "unique"} : call' = [call EXCEPT ![k].stage = s]
    BY <1>4 DEF LookUp
  <2>2. call' \in [Calls -> CallRows]
    BY <1>0, <2>1 DEF CallsOK, CallRows
  <2>3. CallsOK'
    BY <1>0, <1>4, <2>1, <2>2 DEF LookUp, CallsOK, CallRows
  <2> QED
    BY <1>0, <1>1, <1>4, <2>3 DEF LookUp, TypeInv, StoreOK, QueueOK, db, jobs
<1>5. CASE Enqueue(k)
  <2>1. call[k].coupon \in Coupons
    BY <1>0, <1>5 DEF Enqueue, CallsOK
  <2>2. ApplyJob(call[k].coupon) \in Jobs
    BY <2>1 DEF ApplyJob, ApplyJobs, Jobs
  <2>3. QueueOK'
    BY <1>0, <1>5, <2>1, <2>2, QueuedType DEF Enqueue, QueueOK
  <2>4. CallsOK'
    BY <1>0, <1>5 DEF Enqueue, CallsOK, CallRows
  <2> QED
    BY <1>0, <1>1, <1>5, <2>3, <2>4 DEF Enqueue, TypeInv, StoreOK, db
<1> QED
  BY <1>2, <1>3, <1>4, <1>5 DEF Api

LEMMA StepKinds ==
  /\ ApplySteps \cap OtherSteps = {}
  /\ "idle" \notin ApplySteps /\ "idle" \notin OtherSteps
BY DEF ApplySteps, OtherSteps

LEMMA GotoTypes ==
  ASSUME WorkersOK, NEW p \in Pods, NEW step, Goto(p, step),
         \/ pc[p] \in ApplySteps /\ step \in ApplySteps
         \/ pc[p] \in OtherSteps /\ step \in OtherSteps
  PROVE  WorkersOK'
BY StepKinds DEF WorkersOK, Goto

LEMMA FinishTypes ==
  ASSUME WorkersOK, MemOK, NEW p \in Pods, Finish(p)
  PROVE  WorkersOK' /\ MemOK'
<1>1. Fresh \in Mem
  BY DEF Fresh, Mem
<1>2. MemOK'
  BY <1>1 DEF MemOK, Finish
<1>3. WorkersOK'
  BY StepKinds DEF WorkersOK, Finish
<1> QED
  BY <1>2, <1>3

\* What a job of a pod at an apply step is about.
LEMMA JobCoupon ==
  ASSUME WorkersOK, NEW p \in Pods, pc[p] \in ApplySteps
  PROVE  job[p].coupon \in Coupons
BY DEF WorkersOK, ApplyJobs

LEMMA ApplyTypes ==
  ASSUME TypeInv, NEW p \in Pods,
         \/ ReadSession(p) \/ ReadCoupon(p) \/ CheckWins(p)
         \/ CountApplied(p) \/ GetCounter(p) \/ SetCounter(p)
         \/ TakeSlot(p) \/ UpdateCoupon(p) \/ RevertCounter(p)
         \/ CreateReward(p) \/ RecheckWins(p) \/ CloseSession(p) \/ EnqueueExpire(p)
  PROVE  TypeInv'
<1>0. StoreOK /\ QueueOK /\ CallsOK /\ WorkersOK /\ MemOK
  BY DEF TypeInv
<1>u. /\ UNCHANGED call => CallsOK'
      /\ UNCHANGED jobs => QueueOK'
      /\ UNCHANGED <<db, counter, faults>> => StoreOK'
      /\ UNCHANGED mem => MemOK'
  BY Untouched
<1>e. ASSUME NEW step \in ApplySteps, Goto(p, step), pc[p] \in ApplySteps PROVE WorkersOK'
  BY <1>0, <1>e, GotoTypes
<1>1. CASE ReadSession(p)
  <2>1. pc[p] \in ApplySteps /\ "coupon" \in ApplySteps
    BY <1>1 DEF ReadSession, ApplySteps
  <2>2. CASE /\ mem' = [mem EXCEPT ![p].participants = session.participants]
             /\ Goto(p, "coupon")
    <3>1. MemOK'
      BY <1>0, <2>2 DEF MemOK, Mem, StoreOK
    <3> QED
      BY <1>1, <1>u, <1>e, <2>1, <2>2, <3>1 DEF ReadSession, TypeInv
  <2>3. CASE Finish(p)
    BY <1>0, <1>1, <1>u, <2>3, FinishTypes DEF ReadSession, TypeInv
  <2> QED
    BY <1>1, <2>2, <2>3 DEF ReadSession
<1>2. CASE ReadCoupon(p)
  <2>1. pc[p] \in ApplySteps /\ "wins" \in ApplySteps
    BY <1>2 DEF ReadCoupon, ApplySteps
  <2> QED
    BY <1>0, <1>2, <1>u, <1>e, <2>1, FinishTypes DEF ReadCoupon, TypeInv
<1>3. CASE CheckWins(p)
  <2>1. pc[p] \in ApplySteps /\ "count" \in ApplySteps /\ "slot" \in ApplySteps
    BY <1>3 DEF CheckWins, ApplySteps
  <2>2. StoreOK'
    BY <1>0, <1>3, RetiredType DEF CheckWins, StoreOK
  <2>3. WorkersOK' /\ MemOK'
    BY <1>0, <1>3, <1>u, <1>e, <2>1, FinishTypes DEF CheckWins
  <2> QED
    BY <1>3, <1>u, <2>2, <2>3 DEF CheckWins, TypeInv
<1>4. CASE CountApplied(p)
  <2>1. pc[p] \in ApplySteps /\ "get" \in ApplySteps
    BY <1>4 DEF CountApplied, ApplySteps
  <2>2. Cardinality(Applied) \in Nat
    BY CountingCoupons DEF Applied
  <2>3. MemOK'
    BY <1>0, <1>4, <2>2 DEF CountApplied, MemOK, Mem
  <2> QED
    BY <1>4, <1>u, <1>e, <2>1, <2>3 DEF CountApplied, TypeInv
<1>5. CASE GetCounter(p)
  <2>1. pc[p] \in ApplySteps /\ "set" \in ApplySteps /\ "slot" \in ApplySteps
    BY <1>5 DEF GetCounter, ApplySteps
  <2> QED
    BY <1>5, <1>u, <1>e, <2>1 DEF GetCounter, TypeInv
<1>6. CASE SetCounter(p)
  <2>1. pc[p] \in ApplySteps /\ "slot" \in ApplySteps
    BY <1>6 DEF SetCounter, ApplySteps
  <2>2. StoreOK'
    BY <1>0, <1>6 DEF SetCounter, StoreOK, MemOK, Mem, db
  <2> QED
    BY <1>6, <1>u, <1>e, <2>1, <2>2 DEF SetCounter, TypeInv
<1>7. CASE TakeSlot(p)
  <2>1. pc[p] \in ApplySteps /\ "update" \in ApplySteps
    BY <1>7 DEF TakeSlot, ApplySteps
  <2>2. StoreOK'
    BY <1>0, <1>7 DEF TakeSlot, RefuseFull, StoreOK, db
  <2>3. CASE RefuseFull(p)
    BY <1>0, <1>7, <1>u, <2>2, <2>3, FinishTypes DEF TakeSlot, RefuseFull, TypeInv
  <2>4. CASE /\ mem' = [mem EXCEPT ![p].position = counter + 1]
             /\ Goto(p, "update")
    <3>1. MemOK'
      BY <1>0, <2>4 DEF MemOK, Mem, StoreOK
    <3> QED
      BY <1>7, <1>u, <1>e, <2>1, <2>2, <2>4, <3>1 DEF TakeSlot, TypeInv
  <2> QED
    BY <1>7, <2>3, <2>4 DEF TakeSlot
<1>8. CASE UpdateCoupon(p)
  <2>1. pc[p] \in ApplySteps /\ {"reward", "close", "revert"} \subseteq ApplySteps
    BY <1>8 DEF UpdateCoupon, ApplySteps
  <2>2. mem[p].position \in Int /\ job[p].coupon \in Coupons
    BY <1>0, <2>1, JobCoupon DEF MemOK, Mem
  <2>3. coupon' \in [Coupons -> CouponRows]
    <3> DEFINE status == IF IsWinner(mem[p].position) THEN "winner" ELSE "applied_late"
               outcome == [coupon EXCEPT ![job[p].coupon].applied = TRUE,
                             ![job[p].coupon].position = mem[p].position,
                             ![job[p].coupon].status = status]
    <3>1. coupon' = coupon \/ coupon' = outcome
      BY <1>8 DEF UpdateCoupon
    <3>2. status \in CouponStatuses
      BY DEF CouponStatuses
    <3>3. coupon \in [Coupons -> CouponRows]
      BY <1>0 DEF StoreOK
    <3> HIDE DEF status
    <3>4. outcome \in [Coupons -> CouponRows]
      BY <2>2, <3>2, <3>3, OutcomeType
    <3> QED
      BY <3>1, <3>3, <3>4
  <2>4. WorkersOK'
    BY <1>8, <1>e, <2>1 DEF UpdateCoupon, AfterUpdate
  <2>5. StoreOK'
    BY <1>0, <1>8, <2>3 DEF UpdateCoupon, StoreOK
  <2> QED
    BY <1>8, <1>u, <2>4, <2>5 DEF UpdateCoupon, TypeInv
<1>9. CASE RevertCounter(p)
  <2>1. StoreOK'
    BY <1>0, <1>9 DEF RevertCounter, StoreOK, db
  <2> QED
    BY <1>0, <1>9, <1>u, <2>1, FinishTypes DEF RevertCounter, TypeInv
<1>10. CASE CreateReward(p)
  <2>1. pc[p] \in ApplySteps /\ "rewins" \in ApplySteps
    BY <1>10 DEF CreateReward, ApplySteps
  <2>2. reward' \in [Coupons -> Nat]
    BY <1>0, <1>10, <2>1, JobCoupon DEF CreateReward, StoreOK
  <2>3. StoreOK'
    BY <1>0, <1>10, <2>2 DEF CreateReward, StoreOK
  <2> QED
    BY <1>10, <1>u, <1>e, <2>1, <2>3 DEF CreateReward, TypeInv
<1>11. CASE RecheckWins(p)
  <2>1. pc[p] \in ApplySteps /\ "close" \in ApplySteps
    BY <1>11 DEF RecheckWins, ApplySteps
  <2>2. StoreOK'
    BY <1>0, <1>11, RetiredType DEF RecheckWins, StoreOK
  <2> QED
    BY <1>11, <1>u, <1>e, <2>1, <2>2 DEF RecheckWins, TypeInv
<1>12. CASE CloseSession(p)
  <2>1. pc[p] \in ApplySteps /\ "enqueue" \in ApplySteps
    BY <1>12 DEF CloseSession, ApplySteps
  <2>2. CountAfter(p) \in Nat
    BY <1>0 DEF CountAfter, MemOK, Mem
  <2>3. session' \in [status: SessionStatuses, participants: Nat, salesMet: BOOLEAN]
    BY <1>0, <1>12, <2>2 DEF CloseSession, StoreOK, SessionStatuses
  <2>4. StoreOK'
    BY <1>0, <1>12, <2>3 DEF CloseSession, StoreOK
  <2>5. WorkersOK' /\ MemOK'
    BY <1>0, <1>12, <1>u, <1>e, <2>1, FinishTypes DEF CloseSession
  <2> QED
    BY <1>12, <1>u, <2>4, <2>5 DEF CloseSession, TypeInv
<1>13. CASE EnqueueExpire(p)
  <2>1. ExpireJob \in Jobs
    BY ConstantJobs DEF Jobs
  <2>2. QueueOK'
    BY <1>0, <1>13, <2>1, QueuedType DEF EnqueueExpire, QueueOK
  <2> QED
    BY <1>0, <1>13, <1>u, <2>2, FinishTypes DEF EnqueueExpire, TypeInv
<1> QED
  BY <1>1, <1>2, <1>3, <1>4, <1>5, <1>6, <1>7, <1>8, <1>9, <1>10, <1>11, <1>12, <1>13

LEMMA OtherTypes ==
  ASSUME TypeInv, NEW p \in Pods,
         \/ ReadStatus(p) \/ MarkTimeReached(p)
         \/ CheckExpirable(p) \/ FindUnused(p) \/ ExpireBatch(p)
  PROVE  TypeInv'
<1>0. StoreOK /\ QueueOK /\ CallsOK /\ WorkersOK /\ MemOK
  BY DEF TypeInv
<1>u. /\ UNCHANGED call => CallsOK'
      /\ UNCHANGED jobs => QueueOK'
      /\ UNCHANGED <<db, counter, faults>> => StoreOK'
      /\ UNCHANGED mem => MemOK'
  BY Untouched
<1>e. ASSUME NEW step \in OtherSteps, Goto(p, step), pc[p] \in OtherSteps PROVE WorkersOK'
  BY <1>0, <1>e, GotoTypes
<1>1. CASE ReadStatus(p)
  <2>1. pc[p] \in OtherSteps /\ "stop.write" \in OtherSteps
    BY <1>1 DEF ReadStatus, OtherSteps
  <2> QED
    BY <1>0, <1>1, <1>u, <1>e, <2>1, FinishTypes DEF ReadStatus, TypeInv
<1>2. CASE MarkTimeReached(p)
  <2>1. StoreOK'
    BY <1>0, <1>2 DEF MarkTimeReached, StoreOK, SessionStatuses
  <2> QED
    BY <1>0, <1>2, <1>u, <2>1, FinishTypes DEF MarkTimeReached, TypeInv
<1>3. CASE CheckExpirable(p)
  <2>1. pc[p] \in OtherSteps /\ "expire.find" \in OtherSteps
    BY <1>3 DEF CheckExpirable, OtherSteps
  <2> QED
    BY <1>0, <1>3, <1>u, <1>e, <2>1, FinishTypes DEF CheckExpirable, TypeInv
<1>4. CASE FindUnused(p)
  <2>1. pc[p] \in OtherSteps /\ "expire.write" \in OtherSteps
    BY <1>4 DEF FindUnused, OtherSteps
  <2>2. CASE Finish(p)
    BY <1>0, <1>4, <1>u, <2>2, FinishTypes DEF FindUnused, TypeInv
  <2>3. ASSUME NEW batch \in SUBSET Unused, mem' = [mem EXCEPT ![p].batch = batch]
        PROVE  MemOK'
    <3>1. batch \in SUBSET Coupons
      BY DEF Unused
    <3> QED
      BY <1>0, <2>3, <3>1 DEF MemOK, Mem
  <2>4. CASE (\E batch \in SUBSET Unused : mem' = [mem EXCEPT ![p].batch = batch])
             /\ Goto(p, "expire.write")
    BY <1>4, <1>u, <1>e, <2>1, <2>3, <2>4 DEF FindUnused, TypeInv
  <2> QED
    BY <1>4, <2>2, <2>4 DEF FindUnused
<1>5. CASE ExpireBatch(p)
  <2>1. pc[p] \in OtherSteps /\ "expire.find" \in OtherSteps
    BY <1>5 DEF ExpireBatch, OtherSteps
  <2>2. coupon' \in [Coupons -> CouponRows]
    BY <1>0, <1>5, ZenonT(40) DEF ExpireBatch, StoreOK, CouponRows, CouponStatuses
  <2>3. StoreOK'
    BY <1>0, <1>5, <2>2 DEF ExpireBatch, StoreOK
  <2>4. WorkersOK' /\ MemOK'
    BY <1>0, <1>5, <1>u, <1>e, <2>1, FinishTypes DEF ExpireBatch
  <2> QED
    BY <1>5, <1>u, <2>3, <2>4 DEF ExpireBatch, TypeInv
<1> QED
  BY <1>1, <1>2, <1>3, <1>4, <1>5

\* Taking, promoting and reclaiming jobs, and the sales count.
LEMMA SchedulingTypes ==
  ASSUME TypeInv,
         \/ \E p \in Pods : Take(p) \/ Reclaim(p)
         \/ \E j \in delayed : Promote(j)
         \/ SalesReachTrigger
  PROVE  TypeInv'
<1>0. StoreOK /\ QueueOK /\ CallsOK /\ WorkersOK /\ MemOK
  BY DEF TypeInv
<1>u. /\ UNCHANGED call => CallsOK'
      /\ UNCHANGED jobs => QueueOK'
      /\ UNCHANGED <<db, counter, faults>> => StoreOK'
      /\ UNCHANGED mem => MemOK'
      /\ UNCHANGED worker => WorkersOK'
  BY Untouched
<1>1. ASSUME NEW p \in Pods, Take(p) PROVE TypeInv'
  <2>1. Head(queue) \in Jobs /\ Tail(queue) \in Seq(Jobs)
    BY <1>0, <1>1, HeadTailProperties DEF Take, QueueOK
  <2>2. QueueOK'
    BY <1>0, <1>1, <2>1 DEF Take, QueueOK
  <2>3. \/ Head(queue) \in ApplyJobs /\ FirstStep[Head(queue).kind] \in ApplySteps
        \/ Head(queue) \in OtherJobs /\ FirstStep[Head(queue).kind] \in OtherSteps
    BY <2>1 DEF Jobs, ApplyJobs, OtherJobs, FirstStep, ApplySteps, OtherSteps
  <2>4. WorkersOK'
    BY <1>0, <1>1, <2>1, <2>3, StepKinds DEF Take, WorkersOK
  <2> QED
    BY <1>1, <1>u, <2>2, <2>4 DEF Take, TypeInv
<1>2. ASSUME NEW p \in Pods, Reclaim(p) PROVE TypeInv'
  <2>1. orphan[p] \in Jobs
    BY <1>0, <1>2 DEF Reclaim, WorkersOK
  <2>2. [orphan[p] EXCEPT !.stalled = TRUE] \in Jobs
    BY <2>1 DEF Jobs, ApplyJobs, OtherJobs
  <2>3. QueueOK'
    BY <1>0, <1>2, <2>2 DEF Reclaim, QueueOK
  <2>4. WorkersOK'
    BY <1>0, <1>2 DEF Reclaim, WorkersOK
  <2> QED
    BY <1>2, <1>u, <2>3, <2>4 DEF Reclaim, TypeInv
<1>3. ASSUME NEW j \in delayed, Promote(j) PROVE TypeInv'
  <2>1. j \in Jobs
    BY <1>0 DEF QueueOK
  <2>2. QueueOK'
    BY <1>0, <1>3, <2>1, QueuedType DEF Promote, QueueOK
  <2> QED
    BY <1>3, <1>u, <2>2 DEF Promote, TypeInv, worker
<1>4. CASE SalesReachTrigger
  <2>1. StoreOK'
    BY <1>0, <1>4 DEF SalesReachTrigger, StoreOK
  <2> QED
    BY <1>4, <1>u, <2>1 DEF SalesReachTrigger, TypeInv, worker
<1> QED
  BY <1>1, <1>2, <1>3, <1>4

LEMMA FaultTypes ==
  ASSUME TypeInv, NEW p \in Pods, DbFails(p) \/ RedisFails(p) \/ Crash(p)
  PROVE  TypeInv'
<1>0. StoreOK /\ QueueOK /\ CallsOK /\ WorkersOK /\ MemOK
  BY DEF TypeInv
<1>u. /\ UNCHANGED call => CallsOK'
      /\ UNCHANGED jobs => QueueOK'
      /\ UNCHANGED mem => MemOK'
  BY Untouched
<1>1. ASSUME NEW kind, Fault(kind), UNCHANGED <<db, counter>> PROVE StoreOK'
  <2>1. faults' \in 0..MaxFaults
    BY <1>0, <1>1, ConstantsAssumption DEF Fault, StoreOK, ConstantsAssumption
  <2> QED
    BY <1>0, <1>1, <2>1 DEF StoreOK, db
<1>2. CASE DbFails(p)
  <2>1. StoreOK'
    BY <1>1, <1>2 DEF DbFails
  <2>2. CASE pc[p] = "count" /\ Goto(p, "slot") /\ UNCHANGED <<delayed, mem>>
    <3>1. pc[p] \in ApplySteps /\ "slot" \in ApplySteps
      BY <2>2 DEF ApplySteps
    <3>2. WorkersOK'
      BY <1>0, <2>2, <3>1, GotoTypes
    <3> QED
      BY <1>2, <1>u, <2>1, <2>2, <3>2 DEF DbFails, TypeInv, jobs
  <2>3. CASE /\ pc[p] \in ApplySteps \cup OtherSteps
             /\ delayed' = IF job[p].attempts > 1
                           THEN delayed \cup {[job[p] EXCEPT !.attempts = @ - 1]} ELSE delayed
             /\ Finish(p)
    <3>1. job[p].attempts > 1 => [job[p] EXCEPT !.attempts = @ - 1] \in Jobs
      BY <1>0, <2>3 DEF WorkersOK, Jobs, ApplyJobs, OtherJobs
    <3>2. QueueOK'
      BY <1>0, <1>2, <2>3, <3>1 DEF DbFails, QueueOK
    <3> QED
      BY <1>0, <1>2, <1>u, <2>1, <2>3, <3>2, FinishTypes DEF DbFails, TypeInv
  <2> QED
    BY <1>2, <2>2, <2>3 DEF DbFails
<1>3. CASE RedisFails(p)
  <2>1. StoreOK'
    BY <1>1, <1>3 DEF RedisFails
  <2>2. CASE pc[p] \in {"get", "set"} /\ Goto(p, "slot") /\ UNCHANGED mem
    <3>1. pc[p] \in ApplySteps /\ "slot" \in ApplySteps
      BY <2>2 DEF ApplySteps
    <3>2. WorkersOK'
      BY <1>0, <2>2, <3>1, GotoTypes
    <3> QED
      BY <1>3, <1>u, <2>1, <2>2, <3>2 DEF RedisFails, TypeInv
  <2>3. CASE Finish(p)
    BY <1>0, <1>3, <1>u, <2>1, <2>3, FinishTypes DEF RedisFails, TypeInv
  <2> QED
    BY <1>3, <2>2, <2>3 DEF RedisFails
<1>4. CASE Crash(p)
  <2>1. StoreOK'
    BY <1>1, <1>4 DEF Crash
  <2>2. WorkersOK'
    BY <1>0, <1>4, StepKinds DEF Crash, WorkersOK
  <2>3. MemOK'
    BY <1>0, <1>4 DEF Crash, MemOK, Fresh, Mem
  <2> QED
    BY <1>4, <1>u, <2>1, <2>2, <2>3 DEF Crash, TypeInv
<1> QED
  BY <1>2, <1>3, <1>4

LEMMA NextTypes ==
  ASSUME TypeInv, [Next]_vars
  PROVE  TypeInv'
<1>1. CASE UNCHANGED vars
  BY <1>1, Untouched DEF TypeInv, vars, worker
<1>2. CASE Next
  BY <1>2, ApiTypes, ApplyTypes, OtherTypes, SchedulingTypes, FaultTypes DEF Next, Handle
<1> QED
  BY <1>1, <1>2

\* Every value the handlers, the queue and the database hold has its type: in
\* particular an apply-coupon job never has a second attempt (coupon.service.ts:254)
\* and positions and counts stay numbers.
THEOREM TypeCorrect == Spec => []TypeOK
<1>1. TypeInv /\ [Next]_vars => TypeInv'
  BY NextTypes
<1> QED
  BY InitTypes, TypeInvImpliesTypeOK, <1>1, PTL DEF Spec

(***************************************************************************)
(* Rewards and participants.  The handler writes the coupon, the reward and*)
(* the session in three steps, the steps of the other pods in between, so  *)
(* both invariants say what a pod between two of them may rely on.         *)
(***************************************************************************)
AfterWin == {"reward", "rewins", "close"}

\* Two pods about to create a reward do so for different coupons, both of them
\* applied and not rewarded yet.
RewardInv ==
  /\ RewardsSound
  /\ \A p \in Pods : pc[p] = "reward" =>
       coupon[job[p].coupon].applied /\ reward[job[p].coupon] = 0
  /\ \A p, q \in Pods :
       pc[p] = "reward" /\ pc[q] = "reward" /\ job[p].coupon = job[q].coupon => p = q

\* A pod that is to write the count it read plus one has applied a coupon since.
CountInv ==
  /\ ParticipantsNeverOvercount
  /\ \A p \in Pods : mem[p].participants <= Cardinality(Applied)
  /\ \A p \in Pods : pc[p] \in AfterWin => mem[p].participants < Cardinality(Applied)

\* What the steps have in common that touch neither rewards nor participants.
Calm ==
  /\ UNCHANGED reward
  /\ session'.participants = session.participants
  /\ \A c \in Coupons : coupon'[c].applied = coupon[c].applied
  /\ \A p \in Pods :
       /\ pc'[p] \in AfterWin => pc'[p] = pc[p] /\ job'[p] = job[p] /\ mem'[p] = mem[p]
       /\ mem'[p].participants \in {0, mem[p].participants, session.participants}

LEMMA RetiredKeepsApplied ==
  ASSUME StoreOK, NEW u, NEW c \in Coupons
  PROVE  Retired(u)[c].applied = coupon[c].applied
BY DEF StoreOK, Retired, CouponRows

LEMMA GotoCalm ==
  ASSUME TypeInv, NEW p \in Pods, NEW step, step \notin AfterWin, Goto(p, step)
  PROVE  \A q \in Pods : pc'[q] \in AfterWin => pc'[q] = pc[q] /\ q # p /\ job'[q] = job[q]
BY DEF TypeInv, WorkersOK, Goto

LEMMA FinishCalm ==
  ASSUME TypeInv, NEW p \in Pods, Finish(p)
  PROVE  \A q \in Pods :
           /\ pc'[q] \in AfterWin => pc'[q] = pc[q] /\ job'[q] = job[q] /\ mem'[q] = mem[q]
           /\ mem'[q].participants \in {0, mem[q].participants}
BY DEF TypeInv, WorkersOK, MemOK, Finish, Fresh, AfterWin

LEMMA CalmSteps ==
  ASSUME TypeInv,
         \/ \E k \in Calls : Api(k)
         \/ \E p \in Pods :
              \/ Take(p) \/ Reclaim(p) \/ DbFails(p) \/ RedisFails(p) \/ Crash(p)
              \/ ReadSession(p) \/ ReadCoupon(p) \/ CheckWins(p)
              \/ CountApplied(p) \/ GetCounter(p) \/ SetCounter(p)
              \/ TakeSlot(p) \/ RevertCounter(p) \/ EnqueueExpire(p)
              \/ ReadStatus(p) \/ MarkTimeReached(p)
              \/ CheckExpirable(p) \/ FindUnused(p) \/ ExpireBatch(p)
         \/ \E j \in delayed : Promote(j)
         \/ SalesReachTrigger
         \/ UNCHANGED vars
  PROVE  Calm
<1>0. StoreOK /\ WorkersOK /\ MemOK
  BY DEF TypeInv
<1>1. ASSUME NEW k \in Calls, Api(k) PROVE Calm
  BY <1>0, <1>1, RetiredKeepsApplied
  DEF Api, Admit, RefuseMaxWins, LookUp, Enqueue, Calm, db, worker
<1>2. ASSUME NEW p \in Pods, Take(p) PROVE Calm
  <2>1. FirstStep[Head(queue).kind] \notin AfterWin
    <3>1. Head(queue) \in Jobs
      BY <1>2, HeadTailProperties DEF Take, TypeInv, QueueOK
    <3> QED
      BY <3>1 DEF Jobs, ApplyJobs, OtherJobs, FirstStep, AfterWin
  <2> QED
    BY <1>0, <1>2, <2>1 DEF Take, Calm, WorkersOK, db
<1>3. ASSUME NEW p \in Pods, Reclaim(p) PROVE Calm
  BY <1>3 DEF Reclaim, Calm, db
<1>4. ASSUME NEW p \in Pods, DbFails(p) PROVE Calm
  <2>1. "slot" \notin AfterWin
    BY DEF AfterWin
  <2> QED
    BY <1>4, <2>1, GotoCalm, FinishCalm DEF DbFails, Calm, db
<1>5. ASSUME NEW p \in Pods, RedisFails(p) PROVE Calm
  <2>1. "slot" \notin AfterWin
    BY DEF AfterWin
  <2> QED
    BY <1>5, <2>1, GotoCalm, FinishCalm DEF RedisFails, Calm, db
<1>6. ASSUME NEW p \in Pods, Crash(p) PROVE Calm
  BY <1>0, <1>6 DEF Crash, Calm, WorkersOK, MemOK, Fresh, AfterWin, db
<1>7. ASSUME NEW p \in Pods, ReadSession(p) PROVE Calm
  <2>1. "coupon" \notin AfterWin
    BY DEF AfterWin
  <2>2. CASE Finish(p)
    BY <1>7, <2>2, FinishCalm DEF ReadSession, Calm, db
  <2>3. CASE /\ mem' = [mem EXCEPT ![p].participants = session.participants]
             /\ Goto(p, "coupon")
    BY <1>0, <1>7, <2>1, <2>3, GotoCalm DEF ReadSession, Calm, MemOK, Mem, db
  <2> QED
    BY <1>7, <2>2, <2>3 DEF ReadSession
<1>8. ASSUME NEW p \in Pods, ReadCoupon(p) \/ GetCounter(p) \/ SetCounter(p) PROVE Calm
  <2>1. {"wins", "set", "slot"} \cap AfterWin = {}
    BY DEF AfterWin
  <2> QED
    BY <1>8, <2>1, GotoCalm, FinishCalm DEF ReadCoupon, GetCounter, SetCounter, Calm, db
<1>9. ASSUME NEW p \in Pods, CheckWins(p) PROVE Calm
  <2>1. {"count", "slot"} \cap AfterWin = {}
    BY DEF AfterWin
  <2> QED
    BY <1>0, <1>9, <2>1, GotoCalm, FinishCalm, RetiredKeepsApplied DEF CheckWins, Calm
<1>10. ASSUME NEW p \in Pods, CountApplied(p) PROVE Calm
  <2>1. "get" \notin AfterWin
    BY DEF AfterWin
  <2> QED
    BY <1>0, <1>10, <2>1, GotoCalm DEF CountApplied, Calm, MemOK, Mem, db
<1>11. ASSUME NEW p \in Pods, TakeSlot(p) PROVE Calm
  <2>1. "update" \notin AfterWin
    BY DEF AfterWin
  <2>2. CASE RefuseFull(p)
    BY <1>11, <2>2, FinishCalm DEF TakeSlot, RefuseFull, Calm, db
  <2>3. CASE mem' = [mem EXCEPT ![p].position = counter + 1] /\ Goto(p, "update")
    BY <1>0, <1>11, <2>1, <2>3, GotoCalm DEF TakeSlot, Calm, MemOK, Mem, db
  <2> QED
    BY <1>11, <2>2, <2>3 DEF TakeSlot
<1>12. ASSUME NEW p \in Pods, RevertCounter(p) \/ EnqueueExpire(p) PROVE Calm
  BY <1>12, FinishCalm DEF RevertCounter, EnqueueExpire, Calm, db
<1>13. ASSUME NEW p \in Pods, ReadStatus(p) \/ CheckExpirable(p) PROVE Calm
  <2>1. {"stop.write", "expire.find"} \cap AfterWin = {}
    BY DEF AfterWin
  <2> QED
    BY <1>13, <2>1, GotoCalm, FinishCalm DEF ReadStatus, CheckExpirable, Calm, db
<1>14. ASSUME NEW p \in Pods, MarkTimeReached(p) PROVE Calm
  BY <1>0, <1>14, FinishCalm DEF MarkTimeReached, Calm, StoreOK
<1>15. ASSUME NEW p \in Pods, FindUnused(p) PROVE Calm
  <2>1. "expire.write" \notin AfterWin
    BY DEF AfterWin
  <2>2. CASE Finish(p)
    BY <1>15, <2>2, FinishCalm DEF FindUnused, Calm, db
  <2>3. ASSUME NEW batch, mem' = [mem EXCEPT ![p].batch = batch], Goto(p, "expire.write")
        PROVE  Calm
    BY <1>0, <1>15, <2>1, <2>3, GotoCalm DEF FindUnused, Calm, MemOK, Mem, db
  <2> QED
    BY <1>15, <2>2, <2>3 DEF FindUnused
<1>16. ASSUME NEW p \in Pods, ExpireBatch(p) PROVE Calm
  <2>1. "expire.find" \notin AfterWin
    BY DEF AfterWin
  <2>2. \A c \in Coupons : coupon'[c].applied = coupon[c].applied
    BY <1>0, <1>16 DEF ExpireBatch, StoreOK, CouponRows
  <2> QED
    BY <1>16, <2>1, <2>2, GotoCalm, FinishCalm DEF ExpireBatch, Calm
<1>17. ASSUME (\E j \in delayed : Promote(j)) \/ SalesReachTrigger \/ UNCHANGED vars
       PROVE  Calm
  BY <1>0, <1>17 DEF Promote, SalesReachTrigger, vars, db, worker, Calm, StoreOK
<1> QED
  BY <1>1, <1>2, <1>3, <1>4, <1>5, <1>6, <1>7, <1>8, <1>9, <1>10, <1>11, <1>12, <1>13,
     <1>14, <1>15, <1>16, <1>17

\* The four steps of a handler that decide a coupon and book the outcome.
LEMMA StepsOfNext ==
  ASSUME TypeInv, [Next]_vars
  PROVE  Calm \/ \E p \in Pods : UpdateCoupon(p) \/ CreateReward(p)
                                   \/ RecheckWins(p) \/ CloseSession(p)
BY CalmSteps, Zenon DEF Next, Handle

\* Applied coupons stay applied.
LEMMA AppliedGrows ==
  ASSUME TypeInv, [Next]_vars
  PROVE  \A c \in Coupons : coupon[c].applied => coupon'[c].applied
<1>0. StoreOK /\ WorkersOK
  BY DEF TypeInv
<1>1. CASE Calm
  BY <1>1 DEF Calm
<1>2. ASSUME NEW p \in Pods, UpdateCoupon(p)
      PROVE \A c \in Coupons : coupon[c].applied => coupon'[c].applied
  BY <1>0, <1>2 DEF UpdateCoupon, StoreOK, CouponRows
<1>3. ASSUME NEW p \in Pods, CreateReward(p) \/ RecheckWins(p) \/ CloseSession(p)
      PROVE \A c \in Coupons : coupon[c].applied => coupon'[c].applied
  BY <1>0, <1>3, RetiredKeepsApplied DEF CreateReward, RecheckWins, CloseSession
<1> QED
  BY <1>1, <1>2, <1>3, StepsOfNext

LEMMA RewardStep ==
  ASSUME TypeInv, RewardInv, [Next]_vars
  PROVE  RewardInv'
<1>0. StoreOK /\ WorkersOK /\ MemOK
  BY DEF TypeInv
<1>1. CASE Calm
  <2>1. \A p \in Pods : pc'[p] = "reward" =>
          pc[p] = "reward" /\ job'[p] = job[p] /\ job[p].coupon \in Coupons
    BY <1>0, <1>1, JobCoupon DEF Calm, AfterWin, ApplySteps
  <2> QED
    BY <1>1, <2>1 DEF Calm, RewardInv, RewardsSound
<1>2. ASSUME NEW p \in Pods, UpdateCoupon(p) PROVE RewardInv'
  <2>1. job[p].coupon \in Coupons
    BY <1>0, <1>2, JobCoupon DEF UpdateCoupon, ApplySteps
  <2>2. CASE ~NotYetApplied(job[p].coupon)
    BY <1>0, <1>2, <2>2 DEF UpdateCoupon, Goto, WorkersOK, RewardInv, RewardsSound
  <2>3. CASE NotYetApplied(job[p].coupon)
    <3>1. /\ coupon'[job[p].coupon].applied
          /\ \A c \in Coupons : c # job[p].coupon => coupon'[c] = coupon[c]
      BY <1>0, <1>2, <2>1, <2>3 DEF UpdateCoupon, StoreOK, CouponRows
    <3>2. reward[job[p].coupon] = 0
      BY <1>0, <2>1, <2>3 DEF RewardInv, RewardsSound, NotYetApplied, StoreOK
    <3>3. \A q \in Pods : pc[q] = "reward" => job[q].coupon # job[p].coupon
      BY <2>3 DEF RewardInv, NotYetApplied
    <3>4. \A q \in Pods : pc'[q] = "reward" => q = p \/ pc[q] = "reward"
      BY <1>0, <1>2 DEF UpdateCoupon, Goto, WorkersOK
    <3>5. UNCHANGED <<reward, job>>
      BY <1>2 DEF UpdateCoupon, Goto
    <3>6. \A q \in Pods : pc[q] = "reward" => job[q].coupon \in Coupons
      BY <1>0, JobCoupon DEF ApplySteps
    <3> QED
      BY <2>1, <3>1, <3>2, <3>3, <3>4, <3>5, <3>6 DEF RewardInv, RewardsSound
  <2> QED
    BY <2>2, <2>3
<1>3. ASSUME NEW p \in Pods, CreateReward(p) PROVE RewardInv'
  <2>1. job[p].coupon \in Coupons /\ pc[p] = "reward"
    BY <1>0, <1>3, JobCoupon DEF CreateReward, ApplySteps
  <2>2. /\ reward'[job[p].coupon] = 1
        /\ \A c \in Coupons : c # job[p].coupon => reward'[c] = reward[c]
    BY <1>0, <1>3, <2>1 DEF CreateReward, StoreOK, RewardInv
  <2>3. \A q \in Pods : pc'[q] = "reward" => q # p /\ pc[q] = "reward"
    BY <1>0, <1>3 DEF CreateReward, Goto, WorkersOK
  <2>4. UNCHANGED <<coupon, job>>
    BY <1>3 DEF CreateReward, Goto
  <2>5. \A q \in Pods : pc[q] = "reward" => job[q].coupon \in Coupons
    BY <1>0, JobCoupon DEF ApplySteps
  <2> QED
    BY <2>1, <2>2, <2>3, <2>4, <2>5 DEF RewardInv, RewardsSound
<1>4. ASSUME NEW p \in Pods, RecheckWins(p) \/ CloseSession(p) PROVE RewardInv'
  <2>1. \A q \in Pods : pc'[q] = "reward" =>
          pc[q] = "reward" /\ job'[q] = job[q] /\ job[q].coupon \in Coupons
    BY <1>0, <1>4, JobCoupon
    DEF RecheckWins, CloseSession, Goto, Finish, WorkersOK, ApplySteps
  <2>2. UNCHANGED reward
    BY <1>4 DEF RecheckWins, CloseSession
  <2> QED
    BY <2>1, <2>2, AppliedGrows DEF RewardInv, RewardsSound
<1> QED
  BY <1>1, <1>2, <1>3, <1>4, StepsOfNext

\* A coupon never brings more than one reward, whatever pods race, jobs are
\* duplicated, calls fail and processes die: the conditional update in
\* apply-coupon.handler.ts:228 is passed by one job of a coupon only.
THEOREM RewardsAreSound == Spec => []RewardsSound
<1>1. Init => RewardInv
  BY DEF Init, RewardInv, RewardsSound
<1>2. TypeInv /\ RewardInv /\ [Next]_vars => TypeInv' /\ RewardInv'
  BY NextTypes, RewardStep
<1>3. RewardInv => RewardsSound
  BY DEF RewardInv
<1> QED
  BY InitTypes, <1>1, <1>2, <1>3, PTL DEF Spec

LEMMA CountStep ==
  ASSUME TypeInv, CountInv, [Next]_vars
  PROVE  CountInv'
<1>0. StoreOK /\ WorkersOK /\ MemOK
  BY DEF TypeInv
<1>1. Applied \in SUBSET Coupons /\ Applied' \in SUBSET Coupons /\ Applied \subseteq Applied'
  BY AppliedGrows DEF Applied
<1>2. /\ Cardinality(Applied) \in Nat /\ Cardinality(Applied') \in Nat
      /\ Cardinality(Applied) <= Cardinality(Applied')
  BY <1>1, CountingCoupons, MoreCoupons
<1>3. /\ session.participants \in Nat
      /\ \A p \in Pods : mem[p].participants \in Nat
  BY <1>0 DEF StoreOK, MemOK, Mem
<1>4. CASE Calm
  BY <1>2, <1>3, <1>4 DEF Calm, CountInv, ParticipantsNeverOvercount
<1>5. ASSUME NEW p \in Pods, UpdateCoupon(p) PROVE CountInv'
  <2>1. job[p].coupon \in Coupons
    BY <1>0, <1>5, JobCoupon DEF UpdateCoupon, ApplySteps
  <2>2. UNCHANGED <<session, mem>>
    BY <1>5 DEF UpdateCoupon
  <2>3. \A q \in Pods : pc'[q] \in AfterWin =>
          \/ pc[q] \in AfterWin
          \/ q = p /\ NotYetApplied(job[p].coupon)
    BY <1>0, <1>5 DEF UpdateCoupon, Goto, WorkersOK, AfterWin
  <2>4. CASE NotYetApplied(job[p].coupon)
    <3>1. Applied' = Applied \cup {job[p].coupon} /\ job[p].coupon \notin Applied
      BY <1>0, <1>5, <2>1, <2>4 DEF UpdateCoupon, Applied, NotYetApplied, StoreOK, CouponRows
    <3>2. Cardinality(Applied') = Cardinality(Applied) + 1
      BY <1>1, <2>1, <3>1, OneMoreCoupon
    <3> QED
      BY <1>2, <1>3, <2>2, <2>3, <3>2 DEF CountInv, ParticipantsNeverOvercount
  <2> QED
    BY <1>2, <1>3, <2>2, <2>3, <2>4 DEF CountInv, ParticipantsNeverOvercount
<1>6. ASSUME NEW p \in Pods, CreateReward(p) \/ RecheckWins(p) PROVE CountInv'
  <2>1. UNCHANGED <<session, mem>>
    BY <1>6 DEF CreateReward, RecheckWins
  <2>2. \A q \in Pods : pc'[q] \in AfterWin => pc[q] \in AfterWin
    BY <1>0, <1>6 DEF CreateReward, RecheckWins, Goto, WorkersOK, AfterWin
  <2> QED
    BY <1>2, <1>3, <2>1, <2>2 DEF CountInv, ParticipantsNeverOvercount
<1>7. ASSUME NEW p \in Pods, CloseSession(p) PROVE CountInv'
  <2>1. session'.participants = mem[p].participants + 1 /\ pc[p] \in AfterWin
    BY <1>0, <1>7 DEF CloseSession, CountAfter, AfterWin, StoreOK
  <2>2. "enqueue" \notin AfterWin
    BY DEF AfterWin
  <2>3. \A q \in Pods :
          /\ pc'[q] \in AfterWin => pc[q] \in AfterWin /\ mem'[q] = mem[q]
          /\ mem'[q].participants \in {0, mem[q].participants}
    BY <1>7, <2>2, GotoCalm, FinishCalm DEF CloseSession
  <2> QED
    BY <1>2, <1>3, <2>1, <2>3 DEF CountInv, ParticipantsNeverOvercount
<1> QED
  BY <1>4, <1>5, <1>6, <1>7, StepsOfNext

\* The participant count may lose updates of racing pods but never exceeds the
\* number of applied coupons: a handler writes the count it read plus one, and it
\* applied a coupon after reading it (apply-coupon.handler.ts:306).
THEOREM NeverOvercounted == Spec => []ParticipantsNeverOvercount
<1>1. Init => CountInv
  <2> SUFFICES ASSUME Init PROVE CountInv
    OBVIOUS
  <2>1. Cardinality(Applied) \in Nat
    BY CountingCoupons DEF Applied
  <2>2. session.participants = 0 /\ \A p \in Pods : pc[p] = "idle" /\ mem[p].participants = 0
    BY DEF Init, Fresh
  <2> QED
    BY <2>1, <2>2 DEF CountInv, ParticipantsNeverOvercount, AfterWin
<1>2. TypeInv /\ CountInv /\ [Next]_vars => TypeInv' /\ CountInv'
  BY NextTypes, CountStep
<1>3. CountInv => ParticipantsNeverOvercount
  BY DEF CountInv
<1> QED
  BY InitTypes, <1>1, <1>2, <1>3, PTL DEF Spec

(***************************************************************************)
(* The close of the session.  Only LIVE lets a handler begin what may end  *)
(* in a write of the coupon or of the status, so that once the session is  *)
(* closed the handlers that may still write become fewer with each write.  *)
(***************************************************************************)
ApplyingSteps == {"coupon", "wins", "count", "get", "set", "slot", "update"}
EndingSteps   == {"coupon", "wins", "count", "get", "set", "slot", "update",
                  "reward", "rewins", "close", "stop.write"}

NoneJoins ==
  \A p \in Pods : /\ pc'[p] \in ApplyingSteps => pc[p] \in ApplyingSteps
                  /\ pc'[p] \in EndingSteps => pc[p] \in EndingSteps

LEMMA GotoJoins ==
  ASSUME TypeInv, NEW p \in Pods, NEW step, Goto(p, step),
         step \in ApplyingSteps => pc[p] \in ApplyingSteps,
         step \in EndingSteps => pc[p] \in EndingSteps
  PROVE  NoneJoins
BY DEF TypeInv, WorkersOK, Goto, NoneJoins

LEMMA FinishJoins ==
  ASSUME TypeInv, NEW p \in Pods, Finish(p)
  PROVE  NoneJoins
BY DEF TypeInv, WorkersOK, Finish, NoneJoins, ApplyingSteps, EndingSteps

LEMMA HandlerJoins ==
  ASSUME TypeInv, session.status # "live", NEW p \in Pods,
         Handle(p) \/ DbFails(p) \/ RedisFails(p)
  PROVE  NoneJoins
<1> USE DEF ApplyingSteps, EndingSteps
<1>1. CASE Finish(p)
  BY <1>1, FinishJoins
<1>2. ASSUME NEW step \in {"coupon", "wins", "count", "get", "set", "slot", "update"}, Goto(p, step),
             pc[p] \in ApplyingSteps
      PROVE  NoneJoins
  BY <1>2, GotoJoins
<1>3. ASSUME NEW step \in {"reward", "rewins", "close"}, Goto(p, step), pc[p] \in EndingSteps
      PROVE  NoneJoins
  BY <1>3, GotoJoins
<1>4. ASSUME NEW step \in {"revert", "enqueue", "expire.find", "expire.write"}, Goto(p, step)
      PROVE  NoneJoins
  BY <1>4, GotoJoins
<1>5. ASSUME ReadCoupon(p) \/ CheckWins(p) \/ CountApplied(p) \/ GetCounter(p) \/ SetCounter(p)
               \/ TakeSlot(p)
      PROVE  NoneJoins
  BY <1>5, <1>1, <1>2 DEF ReadCoupon, CheckWins, CountApplied, GetCounter, SetCounter, TakeSlot, RefuseFull
<1>6. CASE UpdateCoupon(p)
  BY <1>6, <1>3, <1>4 DEF UpdateCoupon, AfterUpdate
<1>7. CASE CreateReward(p) \/ RecheckWins(p) \/ CloseSession(p)
  BY <1>7, <1>1, <1>3, <1>4 DEF CreateReward, RecheckWins, CloseSession
<1>8. CASE ReadSession(p) \/ ReadStatus(p) \/ MarkTimeReached(p) \/ RevertCounter(p) \/ EnqueueExpire(p)
  BY <1>8, <1>1 DEF ReadSession, SessionOpen, ReadStatus, ShouldStop, MarkTimeReached, RevertCounter, EnqueueExpire
<1>9. CASE CheckExpirable(p) \/ FindUnused(p) \/ ExpireBatch(p)
  BY <1>9, <1>1, <1>4 DEF CheckExpirable, FindUnused, ExpireBatch
<1>10. CASE DbFails(p) \/ RedisFails(p)
  BY <1>10, <1>1, <1>2 DEF DbFails, RedisFails
<1> QED
  BY <1>5, <1>6, <1>7, <1>8, <1>9, <1>10 DEF Handle

LEMMA StepJoins ==
  ASSUME TypeInv, session.status # "live", [Next]_vars
  PROVE  NoneJoins
<1>1. ASSUME NEW p \in Pods, Take(p) PROVE NoneJoins
  <2>1. Head(queue) \in Jobs
    BY <1>1, HeadTailProperties DEF Take, TypeInv, QueueOK
  <2>2. FirstStep[Head(queue).kind] \in {"session", "stop.read", "expire.read"}
    BY <2>1 DEF Jobs, ApplyJobs, OtherJobs, FirstStep
  <2> QED
    BY <1>1, <2>2 DEF Take, TypeInv, WorkersOK, NoneJoins, ApplyingSteps, EndingSteps
<1>2. ASSUME NEW p \in Pods, Crash(p) PROVE NoneJoins
  BY <1>2 DEF Crash, TypeInv, WorkersOK, NoneJoins, ApplyingSteps, EndingSteps
<1>3. ASSUME \/ \E k \in Calls : Api(k)
             \/ \E p \in Pods : Reclaim(p)
             \/ \E j \in delayed : Promote(j)
             \/ SalesReachTrigger \/ UNCHANGED vars
      PROVE  NoneJoins
  BY <1>3 DEF Api, Admit, RefuseMaxWins, LookUp, Enqueue, Reclaim, Promote, SalesReachTrigger,
              vars, worker, NoneJoins
<1> QED
  BY <1>1, <1>2, <1>3, HandlerJoins DEF Next

\* Two steps write the status, and no step makes it LIVE again.
LEMMA StatusWrites ==
  ASSUME TypeInv, session.status # "live", [Next]_vars
  PROVE  /\ session'.status # "live"
         /\ session'.status # session.status =>
              \E p \in Pods : pc[p] \in EndingSteps /\ pc'[p] \notin EndingSteps
<1>0. StoreOK /\ WorkersOK
  BY DEF TypeInv
<1>1. ASSUME NEW p \in Pods, CloseSession(p)
      PROVE  /\ session'.status # "live"
             /\ session'.status # session.status =>
                  pc[p] \in EndingSteps /\ pc'[p] \notin EndingSteps
  <2>1. session'.status = IF LastSlot(p) THEN "completed" ELSE session.status
    BY <1>0, <1>1 DEF CloseSession, StoreOK
  <2>2. pc[p] = "close" /\ (LastSlot(p) => pc'[p] = "enqueue")
    BY <1>0, <1>1 DEF CloseSession, Goto, WorkersOK
  <2> QED
    BY <2>1, <2>2 DEF EndingSteps
<1>2. ASSUME NEW p \in Pods, MarkTimeReached(p)
      PROVE  session'.status # "live" /\ pc[p] \in EndingSteps /\ pc'[p] \notin EndingSteps
  BY <1>0, <1>2 DEF MarkTimeReached, Finish, StoreOK, WorkersOK, EndingSteps
<1>3. ASSUME NEW p \in Pods, Handle(p), ~CloseSession(p), ~MarkTimeReached(p) PROVE UNCHANGED session
  BY <1>3 DEF Handle, ReadSession, ReadCoupon, CheckWins, CountApplied, GetCounter, SetCounter,
     TakeSlot, UpdateCoupon, RevertCounter, CreateReward, RecheckWins, EnqueueExpire, ReadStatus,
     CheckExpirable, FindUnused, ExpireBatch, db
<1>4. ASSUME \/ \E k \in Calls : Api(k)
             \/ \E p \in Pods : Take(p) \/ Reclaim(p) \/ DbFails(p) \/ RedisFails(p) \/ Crash(p)
             \/ \E j \in delayed : Promote(j)
             \/ UNCHANGED vars
      PROVE  UNCHANGED session
  BY <1>4 DEF Api, Admit, RefuseMaxWins, LookUp, Enqueue, Take, Reclaim, DbFails, RedisFails, Crash,
              Promote, vars, db
<1>5. SalesReachTrigger => session'.status = session.status
  BY <1>0 DEF SalesReachTrigger, StoreOK
<1> QED
  BY <1>1, <1>2, <1>3, <1>4, <1>5 DEF Next

LEMMA AppliedWrites ==
  ASSUME TypeInv, [Next]_vars, Applied' # Applied
  PROVE  \E p \in Pods : pc[p] \in ApplyingSteps /\ pc'[p] \notin ApplyingSteps
<1>0. StoreOK /\ WorkersOK
  BY DEF TypeInv
<1>1. Calm => Applied' = Applied
  BY DEF Calm, Applied
<1>2. ASSUME NEW p \in Pods, CreateReward(p) \/ RecheckWins(p) \/ CloseSession(p)
      PROVE  Applied' = Applied
  BY <1>0, <1>2, RetiredKeepsApplied DEF CreateReward, RecheckWins, CloseSession, Applied
<1>3. ASSUME NEW p \in Pods, UpdateCoupon(p)
      PROVE  pc[p] \in ApplyingSteps /\ pc'[p] \notin ApplyingSteps
  <2>1. pc[p] = "update" /\ pc'[p] \in {"reward", "close", "revert"}
    BY <1>0, <1>3 DEF UpdateCoupon, AfterUpdate, Goto, WorkersOK
  <2> QED
    BY <2>1 DEF ApplyingSteps
<1> QED
  BY <1>1, <1>2, <1>3, StepsOfNext

\* Whatever pods race, jobs are retried or reclaimed, calls fail and processes die: a closed
\* session is never LIVE again, and of its status and its coupons nothing changes but what
\* the handlers write that had read LIVE before, each at most once.
THEOREM ClosedForGood == Spec => ClosedStaysClosed
<1>1. TypeInv /\ [Next]_vars
        => [session.status # "live" =>
              /\ session'.status # "live"
              /\ Applying' \subseteq Applying /\ Ending' \subseteq Ending
              /\ Applied' # Applied => Applying' # Applying
              /\ session'.status # session.status => Ending' # Ending]_vars
  <2> SUFFICES ASSUME TypeInv, [Next]_vars, session.status # "live"
               PROVE  /\ session'.status # "live"
                      /\ Applying' \subseteq Applying /\ Ending' \subseteq Ending
                      /\ Applied' # Applied => Applying' # Applying
                      /\ session'.status # session.status => Ending' # Ending
    OBVIOUS
  <2>1. /\ Applying = {p \in Pods : pc[p] \in ApplyingSteps}
        /\ Applying' = {p \in Pods : pc'[p] \in ApplyingSteps}
        /\ Ending = {p \in Pods : pc[p] \in EndingSteps}
        /\ Ending' = {p \in Pods : pc'[p] \in EndingSteps}
    BY DEF Applying, Ending, ApplyingSteps, EndingSteps
  <2>2. Applying' \subseteq Applying /\ Ending' \subseteq Ending
    BY <2>1, StepJoins DEF NoneJoins
  <2>3. Applied' # Applied => Applying' # Applying
    BY <2>1, AppliedWrites
  <2>4. session'.status # "live" /\ (session'.status # session.status => Ending' # Ending)
    BY <2>1, StatusWrites
  <2> QED
    BY <2>2, <2>3, <2>4
<1> QED
  BY InitTypes, NextTypes, <1>1, PTL DEF Spec, ClosedStaysClosed
=============================================================================
