---------------------- MODULE CouponApplyOnePodProofs ----------------------
(***************************************************************************)
(* What a deployment with one worker pod gains: the handlers of one session*)
(* run one after the other, so what a handler has read stays true until it *)
(* writes.  Processes may still die and calls fail.                        *)
(***************************************************************************)
EXTENDS CouponApplyProofs

OnePod == \A p, q \in Pods : p = q

\* Between reading LIVE and the write that relies on it the session is LIVE.
Deciding == {"coupon", "wins", "count", "get", "set", "slot", "update", "revert", "reward",
             "rewins", "close", "stop.write"}

StatusInv == \A p \in Pods : pc[p] \in Deciding => session.status = "live"

\* The steps the handlers of Next take, as one disjunction per handler.
ApplyStep(p) ==
  \/ ReadSession(p) \/ ReadCoupon(p) \/ CheckWins(p)
  \/ CountApplied(p) \/ GetCounter(p) \/ SetCounter(p)
  \/ TakeSlot(p) \/ UpdateCoupon(p) \/ RevertCounter(p)
  \/ CreateReward(p) \/ RecheckWins(p) \/ CloseSession(p) \/ EnqueueExpire(p)

OtherStep(p) ==
  ReadStatus(p) \/ MarkTimeReached(p) \/ CheckExpirable(p) \/ FindUnused(p) \/ ExpireBatch(p)

FaultStep(p) == DbFails(p) \/ RedisFails(p) \/ Crash(p)

\* Everything that happens outside the handlers.
Background ==
  \/ \E k \in Calls : Api(k)
  \/ \E p \in Pods : Take(p) \/ Reclaim(p)
  \/ \E j \in delayed : Promote(j)
  \/ SalesReachTrigger
  \/ UNCHANGED vars

LEMMA NextSteps ==
  ASSUME [Next]_vars
  PROVE  Background \/ \E p \in Pods : ApplyStep(p) \/ OtherStep(p) \/ FaultStep(p)
BY Zenon DEF Next, Handle, Background, ApplyStep, OtherStep, FaultStep

LEMMA GotoOne ==
  ASSUME OnePod, TypeInv, NEW p \in Pods, NEW step, Goto(p, step)
  PROVE  \A q \in Pods : pc'[q] = step /\ job'[q] = job[q] /\ q = p
BY DEF OnePod, TypeInv, WorkersOK, Goto

LEMMA FinishOne ==
  ASSUME OnePod, TypeInv, NEW p \in Pods, Finish(p)
  PROVE  \A q \in Pods : pc'[q] = "idle"
BY DEF OnePod, TypeInv, WorkersOK, Finish

LEMMA OtherTargets ==
  ASSUME OnePod, TypeInv, NEW p \in Pods, OtherStep(p)
  PROVE  \A q \in Pods : pc'[q] \in {"stop.write", "expire.find", "expire.write", "idle"}
<1>1. CASE Finish(p)
  BY <1>1, FinishOne
<1>2. ASSUME NEW step \in {"stop.write", "expire.find", "expire.write"}, Goto(p, step)
      PROVE  \A q \in Pods : pc'[q] = step
  BY <1>2, GotoOne
<1>3. \/ Finish(p)
      \/ \E step \in {"stop.write", "expire.find", "expire.write"} : Goto(p, step)
  BY DEF OtherStep, ReadStatus, MarkTimeReached, CheckExpirable, FindUnused, ExpireBatch
<1> QED
  BY <1>1, <1>2, <1>3

LEMMA TakeOne ==
  ASSUME OnePod, TypeInv, NEW p \in Pods, Take(p)
  PROVE  \A q \in Pods : pc[q] = "idle" /\ pc'[q] \in {"session", "stop.read", "expire.read"}
<1>1. Head(queue) \in Jobs
  BY HeadTailProperties DEF Take, TypeInv, QueueOK
<1>2. FirstStep[Head(queue).kind] \in {"session", "stop.read", "expire.read"}
  BY <1>1 DEF Jobs, ApplyJobs, OtherJobs, FirstStep
<1> QED
  BY <1>2 DEF Take, OnePod, TypeInv, WorkersOK

\* The steps outside the handlers leave a running handler and its facts alone.
LEMMA BackgroundCalm ==
  ASSUME OnePod, TypeInv, Background
  PROVE  /\ UNCHANGED <<counter, mem>> /\ session'.status = session.status
         /\ \A c \in Coupons : /\ coupon'[c].applied = coupon[c].applied
                               /\ coupon'[c].position = coupon[c].position
                               /\ coupon'[c].status = coupon[c].status
         /\ \A p \in Pods : \/ pc'[p] = pc[p] /\ job'[p] = job[p]
                            \/ /\ pc[p] = "idle"
                               /\ pc'[p] \in {"session", "stop.read", "expire.read"}
<1>0. StoreOK
  BY DEF TypeInv
<1>r. \A u, c : c \in Coupons => /\ Retired(u)[c].applied = coupon[c].applied
                                 /\ Retired(u)[c].position = coupon[c].position
                                 /\ Retired(u)[c].status = coupon[c].status
  BY <1>0 DEF StoreOK, CouponRows, Retired
<1>1. CASE \E k \in Calls : Api(k)
  BY <1>r, <1>1 DEF Api, Admit, RefuseMaxWins, LookUp, Enqueue, db, worker
<1>2. CASE \E p \in Pods : Take(p)
  BY <1>2, TakeOne DEF Take, db
<1>3. CASE \E p \in Pods : Reclaim(p)
  BY <1>3 DEF Reclaim, db
<1>4. CASE \E j \in delayed : Promote(j)
  BY <1>4 DEF Promote, db, worker
<1>5. CASE SalesReachTrigger
  BY <1>0, <1>5 DEF SalesReachTrigger, worker, StoreOK
<1>6. CASE UNCHANGED vars
  BY <1>6 DEF vars, db, worker
<1> QED
  BY <1>1, <1>2, <1>3, <1>4, <1>5, <1>6 DEF Background

LEMMA StatusStep ==
  ASSUME OnePod, TypeInv, StatusInv, [Next]_vars
  PROVE  StatusInv'
<1>0. StoreOK /\ WorkersOK
  BY DEF TypeInv
<1>1. CASE Background
  BY <1>1, BackgroundCalm DEF StatusInv, Deciding
<1>2. ASSUME NEW p \in Pods, ApplyStep(p) PROVE StatusInv'
  <2>1. CASE CloseSession(p)
    BY <1>0, <2>1, GotoOne, FinishOne DEF CloseSession, StatusInv, Deciding
  <2>2. CASE ReadSession(p)
    BY <2>2, GotoOne, FinishOne DEF ReadSession, SessionOpen, StatusInv, Deciding, db
  <2>3. ASSUME ~CloseSession(p), ~ReadSession(p), ~EnqueueExpire(p)
        PROVE  UNCHANGED session /\ pc[p] \in Deciding
    BY <1>2, <2>3 DEF ApplyStep, ReadCoupon, CheckWins, CountApplied, GetCounter, SetCounter,
       TakeSlot, UpdateCoupon, RevertCounter, CreateReward, RecheckWins, Deciding, db
  <2>4. CASE EnqueueExpire(p)
    BY <2>4, FinishOne DEF EnqueueExpire, StatusInv, Deciding
  <2>5. CASE UNCHANGED session /\ pc[p] \in Deciding
    BY <2>5 DEF StatusInv, OnePod
  <2> QED
    BY <2>1, <2>2, <2>3, <2>4, <2>5
<1>3. ASSUME NEW p \in Pods, OtherStep(p) PROVE StatusInv'
  BY <1>3, GotoOne, FinishOne, ZenonT(40)
  DEF OtherStep, ReadStatus, ShouldStop, MarkTimeReached, CheckExpirable, FindUnused, ExpireBatch,
      StatusInv, Deciding, db
<1>4. ASSUME NEW p \in Pods, FaultStep(p) PROVE StatusInv'
  <2>1. CASE Crash(p)
    BY <1>0, <2>1 DEF Crash, StatusInv, Deciding, OnePod, WorkersOK, db
  <2>2. CASE DbFails(p) \/ RedisFails(p)
    BY <2>2, GotoOne, FinishOne DEF DbFails, RedisFails, StatusInv, Deciding, db
  <2> QED
    BY <1>4, <2>1, <2>2 DEF FaultStep
<1> QED
  BY <1>1, <1>2, <1>3, <1>4, NextSteps

\* The status changes in two steps only, both of which rely on a LIVE session.
LEMMA ClosedStep ==
  ASSUME OnePod, TypeInv, StatusInv, [Next]_vars, session.status # "live"
  PROVE  session'.status = session.status
<1>0. StoreOK
  BY DEF TypeInv
<1>1. CASE Background
  BY <1>1, BackgroundCalm
<1>2. ASSUME NEW p \in Pods, ApplyStep(p) PROVE session'.status = session.status
  BY <1>2
  DEF ApplyStep, ReadSession, ReadCoupon, CheckWins, CountApplied, GetCounter, SetCounter,
      TakeSlot, UpdateCoupon, RevertCounter, CreateReward, RecheckWins, CloseSession,
      EnqueueExpire, StatusInv, Deciding, db
<1>3. ASSUME NEW p \in Pods, OtherStep(p) PROVE session'.status = session.status
  BY <1>3
  DEF OtherStep, ReadStatus, MarkTimeReached, CheckExpirable, FindUnused, ExpireBatch,
      StatusInv, Deciding, db
<1>4. ASSUME NEW p \in Pods, FaultStep(p) PROVE session'.status = session.status
  BY <1>4 DEF FaultStep, DbFails, RedisFails, Crash, db
<1> QED
  BY <1>1, <1>2, <1>3, <1>4, NextSteps

\* Only the conditional update of a handler marks a coupon as applied.
LEMMA OnlyUpdateApplies ==
  ASSUME OnePod, TypeInv, [Next]_vars, ~ \E p \in Pods : UpdateCoupon(p)
  PROVE  \A c \in Coupons : /\ coupon'[c].applied = coupon[c].applied
                            /\ coupon'[c].position = coupon[c].position
<1>0. StoreOK
  BY DEF TypeInv
<1>r. \A u, c : c \in Coupons => /\ Retired(u)[c].applied = coupon[c].applied
                                 /\ Retired(u)[c].position = coupon[c].position
  BY <1>0 DEF StoreOK, CouponRows, Retired
<1> DEFINE Same == \A c \in Coupons : /\ coupon'[c].applied = coupon[c].applied
                                      /\ coupon'[c].position = coupon[c].position
<1>1. CASE Background
  BY <1>1, BackgroundCalm
<1>2. ASSUME NEW p \in Pods, ApplyStep(p) PROVE Same
  BY <1>2, <1>r
  DEF ApplyStep, ReadSession, ReadCoupon, CheckWins, CountApplied, GetCounter, SetCounter,
      TakeSlot, RevertCounter, CreateReward, RecheckWins, CloseSession, EnqueueExpire, db
<1>3. ASSUME NEW p \in Pods, OtherStep(p) PROVE Same
  <2>1. CASE ExpireBatch(p)
    BY <1>0, <2>1 DEF ExpireBatch, StoreOK, CouponRows
  <2> QED
    BY <1>3, <2>1 DEF OtherStep, ReadStatus, MarkTimeReached, CheckExpirable, FindUnused, db
<1>4. ASSUME NEW p \in Pods, FaultStep(p) PROVE Same
  BY <1>4 DEF FaultStep, DbFails, RedisFails, Crash, db
<1> QED
  BY <1>1, <1>2, <1>3, <1>4, NextSteps

\* From the validation to the update the coupon stays unapplied, so the update
\* never finds it taken; a batch found unused stays unused until it is expired.
Undecided == {"wins", "count", "get", "set", "slot", "update"}

FreshInv ==
  \A p \in Pods : /\ pc[p] # "revert"
                  /\ pc[p] \in Undecided => ~coupon[job[p].coupon].applied
                  /\ pc[p] = "expire.write" => \A c \in mem[p].batch : ~coupon[c].applied

LEMMA FreshStep ==
  ASSUME OnePod, TypeInv, FreshInv, [Next]_vars
  PROVE  FreshInv'
<1>0. StoreOK /\ WorkersOK /\ MemOK
  BY DEF TypeInv
<1>m. \A p \in Pods : mem[p].batch \subseteq Coupons
  BY <1>0 DEF MemOK, Mem
<1>j. \A p \in Pods : pc[p] \in Undecided => job[p].coupon \in Coupons
  BY <1>0, JobCoupon DEF Undecided, ApplySteps
<1>1. CASE Background
  BY <1>1, <1>m, <1>j, BackgroundCalm DEF FreshInv, Undecided
<1>2. ASSUME NEW p \in Pods, ApplyStep(p) PROVE FreshInv'
  <2>1. CASE UpdateCoupon(p)
    <3>1. NotYetApplied(job[p].coupon)
      BY <2>1 DEF UpdateCoupon, NotYetApplied, FreshInv, Undecided
    <3>2. AfterUpdate(mem[p].position) \in {"reward", "close"}
      BY DEF AfterUpdate
    <3>3. \A q \in Pods : pc'[q] \in {"reward", "close"}
      BY <2>1, <3>1, <3>2, GotoOne DEF UpdateCoupon
    <3> QED
      BY <3>3 DEF FreshInv, Undecided
  <2>2. CASE ReadCoupon(p)
    BY <2>2, GotoOne, FinishOne DEF ReadCoupon, FreshInv, Undecided, db
  <2>3. CASE ~UpdateCoupon(p) /\ ~ReadCoupon(p)
    <3>1. ~ \E q \in Pods : UpdateCoupon(q)
      BY <1>2, <2>3 DEF OnePod
    <3>2. \A c \in Coupons : coupon'[c].applied = coupon[c].applied
      BY <3>1, OnlyUpdateApplies
    <3>3. \A q \in Pods : /\ pc'[q] \notin {"revert", "expire.write"}
                          /\ pc'[q] \in Undecided => pc[q] \in Undecided /\ job'[q] = job[q]
      BY <1>2, <2>3, GotoOne, FinishOne
      DEF ApplyStep, ReadSession, CheckWins, CountApplied, GetCounter, SetCounter, TakeSlot,
          RefuseFull, RevertCounter, CreateReward, RecheckWins, CloseSession, EnqueueExpire,
          Undecided
    <3> QED
      BY <1>j, <3>2, <3>3 DEF FreshInv
  <2> QED
    BY <2>1, <2>2, <2>3
<1>3. ASSUME NEW p \in Pods, OtherStep(p) PROVE FreshInv'
  <2>1. CASE FindUnused(p)
    <3>1. CASE Finish(p)
      BY <3>1, FinishOne DEF FreshInv, Undecided
    <3>2. ASSUME NEW batch \in SUBSET Unused, mem' = [mem EXCEPT ![p].batch = batch],
                 Goto(p, "expire.write")
          PROVE  FreshInv'
      <4>1. mem'[p].batch = batch
        BY <1>0, <3>2 DEF MemOK, Mem
      <4>2. UNCHANGED coupon
        BY <2>1 DEF FindUnused, db
      <4> QED
        BY <3>2, <4>1, <4>2, GotoOne DEF FreshInv, Undecided, Unused
    <3> QED
      BY <2>1, <3>1, <3>2 DEF FindUnused
  <2>2. CASE ReadStatus(p) \/ MarkTimeReached(p) \/ CheckExpirable(p) \/ ExpireBatch(p)
    <3>1. \A q \in Pods : pc'[q] \in {"stop.write", "expire.find", "idle"}
      BY <2>2, GotoOne, FinishOne DEF ReadStatus, MarkTimeReached, CheckExpirable, ExpireBatch
    <3> QED
      BY <3>1 DEF FreshInv, Undecided
  <2> QED
    BY <1>3, <2>1, <2>2 DEF OtherStep
<1>4. ASSUME NEW p \in Pods, FaultStep(p) PROVE FreshInv'
  <2>1. CASE Crash(p)
    BY <1>0, <2>1 DEF Crash, FreshInv, Undecided, OnePod, WorkersOK
  <2>2. CASE DbFails(p) \/ RedisFails(p)
    BY <2>2, GotoOne, FinishOne DEF DbFails, RedisFails, FreshInv, Undecided, db
  <2> QED
    BY <1>4, <2>1, <2>2 DEF FaultStep
<1> QED
  BY <1>1, <1>2, <1>3, <1>4, NextSteps

LEMMA InitFresh == Init => FreshInv
BY DEF Init, FreshInv, Undecided

LEMMA OutcomeStep ==
  ASSUME OnePod, TypeInv, FreshInv, [Next]_vars, NEW c \in Coupons, coupon[c].applied
  PROVE  /\ coupon'[c].applied
         /\ coupon'[c].position = coupon[c].position
         /\ coupon'[c].status = coupon[c].status
<1>0. StoreOK
  BY DEF TypeInv
<1>r. \A u : /\ Retired(u)[c].applied = coupon[c].applied
             /\ Retired(u)[c].position = coupon[c].position
             /\ Retired(u)[c].status = coupon[c].status
  BY <1>0 DEF StoreOK, CouponRows, Retired
<1> DEFINE Same == /\ coupon'[c].applied
                   /\ coupon'[c].position = coupon[c].position
                   /\ coupon'[c].status = coupon[c].status
<1>1. CASE Background
  BY <1>1, BackgroundCalm
<1>2. ASSUME NEW p \in Pods, ApplyStep(p) PROVE Same
  <2>1. CASE UpdateCoupon(p)
    BY <1>0, <2>1 DEF UpdateCoupon, NotYetApplied, StoreOK, CouponRows
  <2> QED
    BY <1>2, <1>r, <2>1
    DEF ApplyStep, ReadSession, ReadCoupon, CheckWins, CountApplied, GetCounter, SetCounter,
        TakeSlot, RevertCounter, CreateReward, RecheckWins, CloseSession, EnqueueExpire, db
<1>3. ASSUME NEW p \in Pods, OtherStep(p) PROVE Same
  <2>1. CASE ExpireBatch(p)
    BY <1>0, <2>1 DEF ExpireBatch, FreshInv, StoreOK, CouponRows
  <2> QED
    BY <1>3, <2>1 DEF OtherStep, ReadStatus, MarkTimeReached, CheckExpirable, FindUnused, db
<1>4. ASSUME NEW p \in Pods, FaultStep(p) PROVE Same
  BY <1>4 DEF FaultStep, DbFails, RedisFails, Crash, db
<1> QED
  BY <1>1, <1>2, <1>3, <1>4, NextSteps

\* With one pod the outcome of an applied coupon is final: neither a second job of
\* the coupon nor the expiration of the unused coupons rewrites it.
THEOREM OutcomesAreFinal ==
  ASSUME OnePod
  PROVE  Spec => OutcomeIsFinal
<1>1. TypeInv /\ FreshInv /\ [Next]_vars => TypeInv' /\ FreshInv'
  BY NextTypes, FreshStep
<1>2. TypeInv /\ FreshInv /\ [Next]_vars
        => [\A c \in Coupons : coupon[c].applied =>
              /\ coupon'[c].applied
              /\ coupon'[c].position = coupon[c].position
              /\ coupon'[c].status = coupon[c].status]_vars
  BY OutcomeStep
<1> QED
  BY InitTypes, InitFresh, <1>1, <1>2, PTL DEF Spec, OutcomeIsFinal

(***************************************************************************)
(* The win limit.  Past the check of the user's wins nobody else wins until*)
(* the coupon is updated, so one more win is within the limit.             *)
(***************************************************************************)
Entitled == {"count", "get", "set", "slot", "update"}

WinsInv ==
  /\ WinsWithinLimit
  /\ \A p \in Pods : pc[p] \in Entitled => ~AtMaxWins(Owner[job[p].coupon])

LEMMA WinnersStep ==
  ASSUME OnePod, TypeInv, FreshInv, [Next]_vars, ~ \E p \in Pods : UpdateCoupon(p)
  PROVE  Winners' = Winners
BY OutcomeStep, OnlyUpdateApplies DEF Winners, Applied

LEMMA WinsType ==
  ASSUME NEW u
  PROVE  Wins(u) \in Nat
BY CountingCoupons DEF Wins, Winners, Applied

LEMMA WinsStep ==
  ASSUME OnePod, TypeInv, FreshInv, WinsInv, [Next]_vars
  PROVE  WinsInv'
<1>0. StoreOK /\ WorkersOK /\ MemOK
  BY DEF TypeInv
<1>1. ASSUME NEW p \in Pods, UpdateCoupon(p) PROVE WinsInv'
  <2> DEFINE c == job[p].coupon
  <2>1. c \in Coupons /\ Owner[c] \in Users
    BY <1>0, <1>1, JobCoupon, ConstantsAssumption
    DEF UpdateCoupon, ApplySteps, ConstantsAssumption
  <2>2. \A d \in Coupons : d # c => coupon'[d] = coupon[d]
    BY <1>0, <1>1, <2>1 DEF UpdateCoupon, StoreOK, CouponRows
  <2>3. NotYetApplied(c) /\ ~AtMaxWins(Owner[c])
    BY <1>1 DEF UpdateCoupon, NotYetApplied, FreshInv, WinsInv, Undecided, Entitled
  <2>4. \A u \in Users : Wins(u)' <= IF u = Owner[c] THEN Wins(u) + 1 ELSE Wins(u)
    <3> SUFFICES ASSUME NEW u \in Users
                 PROVE  Wins(u)' <= IF u = Owner[c] THEN Wins(u) + 1 ELSE Wins(u)
      OBVIOUS
    <3> DEFINE old == {d \in Winners : Owner[d] = u}
               new == {d \in Winners' : Owner[d] = u}
    <3>1. old \in SUBSET Coupons /\ new \in SUBSET Coupons /\ c \notin old
      BY <2>3 DEF Winners, Applied, NotYetApplied
    <3>2. Cardinality(old) \in Nat /\ Cardinality(new) \in Nat
      BY <3>1, CountingCoupons
    <3>3. CASE u = Owner[c]
      <4>1. new \subseteq old \cup {c}
        BY <2>2 DEF Winners, Applied
      <4>2. Cardinality(new) <= Cardinality(old \cup {c})
        BY <2>1, <3>1, <4>1, MoreCoupons
      <4>3. Cardinality(old \cup {c}) = Cardinality(old) + 1
        BY <2>1, <3>1, OneMoreCoupon
      <4> QED
        BY <3>2, <3>3, <4>2, <4>3 DEF Wins
    <3>4. CASE u # Owner[c]
      <4>1. new \subseteq old
        BY <2>2, <3>4 DEF Winners, Applied
      <4>2. Cardinality(new) <= Cardinality(old)
        BY <3>1, <4>1, MoreCoupons
      <4> QED
        BY <3>4, <4>2 DEF Wins
    <3> QED
      BY <3>3, <3>4
  <2>5. WinsWithinLimit'
    <3> SUFFICES ASSUME MaxWins > 0, NEW u \in Users PROVE Wins(u)' <= MaxWins
      BY DEF WinsWithinLimit
    <3>1. Wins(u) <= MaxWins
      BY DEF WinsInv, WinsWithinLimit
    <3>2. u = Owner[c] => Wins(u) < MaxWins
      BY <2>3, WinsType, ConstantsAssumption DEF AtMaxWins, ConstantsAssumption
    <3>3. Wins(u) \in Nat /\ Wins(u)' \in Nat /\ MaxWins \in Nat
      <4>1. {d \in Winners' : Owner[d] = u} \in SUBSET Coupons
        BY DEF Winners, Applied
      <4> QED
        BY <4>1, WinsType, CountingCoupons, ConstantsAssumption DEF Wins, ConstantsAssumption
    <3> QED
      BY <2>4, <3>1, <3>2, <3>3
  <2>6. \A q \in Pods : pc'[q] \notin Entitled
    <3>1. AfterUpdate(mem[p].position) \in {"reward", "close"}
      BY DEF AfterUpdate
    <3>2. \A q \in Pods : pc'[q] \in {"reward", "close"}
      BY <1>1, <2>3, <3>1, GotoOne DEF UpdateCoupon
    <3> QED
      BY <3>2 DEF Entitled
  <2> QED
    BY <2>5, <2>6 DEF WinsInv
<1>2. ASSUME ~ \E p \in Pods : UpdateCoupon(p) PROVE WinsInv'
  <2>1. Winners' = Winners
    BY <1>2, WinnersStep
  <2>2. \A u : Wins(u)' = Wins(u) /\ (AtMaxWins(u)' <=> AtMaxWins(u))
    BY <2>1 DEF Wins, AtMaxWins
  <2>3. ASSUME NEW q \in Pods, pc'[q] \in Entitled
        PROVE  ~AtMaxWins(Owner[job'[q].coupon])
    <3>1. CASE Background
      BY <2>3, <3>1, BackgroundCalm DEF WinsInv, Entitled
    <3>2. ASSUME NEW p \in Pods, ApplyStep(p) PROVE ~AtMaxWins(Owner[job'[q].coupon])
      <4>1. CASE CheckWins(p)
        BY <2>3, <4>1, GotoOne, FinishOne DEF CheckWins, Entitled
      <4>2. CASE ~CheckWins(p)
        <5>1. pc[q] \in Entitled /\ job'[q] = job[q]
          BY <1>2, <2>3, <3>2, <4>2, GotoOne, FinishOne
          DEF ApplyStep, ReadSession, ReadCoupon, CountApplied, GetCounter, SetCounter, TakeSlot,
              RefuseFull, RevertCounter, CreateReward, RecheckWins, CloseSession, EnqueueExpire,
              Entitled
        <5> QED
          BY <5>1 DEF WinsInv
      <4> QED
        BY <4>1, <4>2
    <3>3. ASSUME NEW p \in Pods, OtherStep(p) PROVE FALSE
      <4>1. pc'[q] \in {"stop.write", "expire.find", "expire.write", "idle"}
        BY <3>3, OtherTargets
      <4> QED
        BY <2>3, <4>1 DEF Entitled
    <3>4. ASSUME NEW p \in Pods, FaultStep(p) PROVE ~AtMaxWins(Owner[job'[q].coupon])
      <4>1. CASE Crash(p)
        BY <1>0, <2>3, <4>1 DEF Crash, Entitled, OnePod, WorkersOK
      <4>2. CASE DbFails(p) \/ RedisFails(p)
        BY <2>3, <4>2, GotoOne, FinishOne DEF DbFails, RedisFails, WinsInv, Entitled
      <4> QED
        BY <3>4, <4>1, <4>2 DEF FaultStep
    <3> QED
      BY <3>1, <3>2, <3>3, <3>4, NextSteps
  <2>4. WinsWithinLimit'
    BY <2>2 DEF WinsInv, WinsWithinLimit
  <2> QED
    BY <2>2, <2>3, <2>4 DEF WinsInv
<1> QED
  BY <1>1, <1>2

\* With one pod nobody wins more often than MAX_SESSION_COUPON_APPLY allows, although
\* the wins are counted by one query and the win is written by a later one.
THEOREM WinsLimited ==
  ASSUME OnePod
  PROVE  Spec => []WinsWithinLimit
<1>1. Init => WinsInv
  <2> SUFFICES ASSUME Init PROVE WinsInv
    OBVIOUS
  <2>1. Winners = {}
    BY DEF Init, Winners, Applied
  <2>2. \A u : Wins(u) = 0
    BY <2>1, FS_EmptySet DEF Wins
  <2>3. \A p \in Pods : pc[p] \notin Entitled
    BY DEF Init, Entitled
  <2> QED
    BY <2>2, <2>3, ConstantsAssumption DEF WinsInv, WinsWithinLimit, ConstantsAssumption
<1>2. TypeInv /\ FreshInv /\ WinsInv /\ [Next]_vars => TypeInv' /\ FreshInv' /\ WinsInv'
  BY NextTypes, FreshStep, WinsStep
<1>3. WinsInv => WinsWithinLimit
  BY DEF WinsInv
<1> QED
  BY InitTypes, InitFresh, <1>1, <1>2, <1>3, PTL DEF Spec

(***************************************************************************)
(* The slot limit.  Errors may make the counter too high, never too low: it*)
(* only falls when the sync sets it to the number of applied coupons, which*)
(* with one pod is still that number.                                      *)
(***************************************************************************)
Count == Cardinality(Applied)

SlotsInv ==
  /\ SlotsRespected
  /\ Count <= counter
  /\ \A p \in Pods :
       /\ pc[p] \in {"get", "set"} => mem[p].count = Count
       /\ pc[p] = "update" => /\ Count < mem[p].position /\ mem[p].position <= counter
                              /\ MaxSlots > 0 => mem[p].position <= MaxSlots

LEMMA CountType == Count \in Nat
BY CountingCoupons DEF Count, Applied

LEMMA SlotsStep ==
  ASSUME OnePod, TypeInv, FreshInv, SlotsInv, [Next]_vars
  PROVE  SlotsInv'
<1>0. StoreOK /\ WorkersOK /\ MemOK
  BY DEF TypeInv
<1>1. ASSUME NEW p \in Pods, UpdateCoupon(p) PROVE SlotsInv'
  <2> DEFINE c == job[p].coupon
  <2>1. c \in Coupons
    BY <1>0, <1>1, JobCoupon DEF UpdateCoupon, ApplySteps
  <2>2. NotYetApplied(c)
    BY <1>1 DEF UpdateCoupon, NotYetApplied, FreshInv, Undecided
  <2>3. Applied' = Applied \cup {c} /\ c \notin Applied
    BY <1>0, <1>1, <2>1, <2>2 DEF UpdateCoupon, NotYetApplied, Applied, StoreOK, CouponRows
  <2>4. Count' = Count + 1
    <3>1. Applied \in SUBSET Coupons
      BY DEF Applied
    <3> QED
      BY <2>1, <2>3, <3>1, OneMoreCoupon DEF Count
  <2>5. AfterUpdate(mem[p].position) \in {"reward", "close"}
    BY DEF AfterUpdate
  <2>6. \A q \in Pods : pc'[q] \in {"reward", "close"}
    BY <1>1, <2>2, <2>5, GotoOne DEF UpdateCoupon
  <2>7. counter' = counter /\ mem[p].position \in Int
    BY <1>0, <1>1 DEF UpdateCoupon, MemOK, Mem
  <2>8. /\ Count < mem[p].position /\ mem[p].position <= counter
        /\ MaxSlots > 0 => mem[p].position <= MaxSlots
    BY <1>1 DEF UpdateCoupon, SlotsInv
  <2>9. Count' <= counter' /\ (MaxSlots > 0 => Count' <= MaxSlots)
    BY <1>0, <2>4, <2>7, <2>8, CountType, ConstantsAssumption DEF StoreOK, ConstantsAssumption
  <2> QED
    BY <2>6, <2>9 DEF SlotsInv, SlotsRespected, Count
<1>2. ASSUME ~ \E p \in Pods : UpdateCoupon(p) PROVE SlotsInv'
  <2>1. Count' = Count
    <3>1. Applied' = Applied
      BY <1>2, OnlyUpdateApplies DEF Applied
    <3> QED
      BY <3>1 DEF Count
  <2>2. SlotsRespected'
    BY <2>1 DEF SlotsInv, SlotsRespected, Count
  <2>3. ASSUME counter' = counter,
               \A q \in Pods : pc'[q] \notin {"get", "set", "update"}
        PROVE  SlotsInv'
    BY <2>1, <2>2, <2>3 DEF SlotsInv
  <2>4. CASE Background
    <3>1. counter' = counter /\ mem' = mem
      BY <2>4, BackgroundCalm
    <3>2. \A q \in Pods : pc'[q] \in {"get", "set", "update"} => pc'[q] = pc[q]
      BY <2>4, BackgroundCalm
    <3> QED
      BY <2>1, <2>2, <3>1, <3>2 DEF SlotsInv
  <2>5. ASSUME NEW p \in Pods, ApplyStep(p) PROVE SlotsInv'
    <3>1. CASE CountApplied(p)
      <4>1. mem'[p].count = Count /\ counter' = counter
        BY <1>0, <3>1 DEF CountApplied, MemOK, Mem, Count
      <4>2. \A q \in Pods : pc'[q] = "get" /\ q = p
        BY <3>1, GotoOne DEF CountApplied
      <4> QED
        BY <2>1, <2>2, <4>1, <4>2 DEF SlotsInv
    <3>2. CASE GetCounter(p)
      <4>1. \A q \in Pods : pc'[q] \in {"set", "slot"} /\ q = p
        BY <3>2, GotoOne DEF GetCounter
      <4>2. counter' = counter /\ mem' = mem /\ pc[p] = "get"
        BY <3>2 DEF GetCounter
      <4> QED
        BY <2>1, <2>2, <4>1, <4>2 DEF SlotsInv
    <3>3. CASE SetCounter(p)
      <4>1. \A q \in Pods : pc'[q] = "slot"
        BY <3>3, GotoOne DEF SetCounter
      <4>2. counter' = Count
        BY <3>3 DEF SetCounter, SlotsInv
      <4>3. Count' <= counter'
        BY <2>1, <4>2, CountType
      <4> QED
        BY <2>2, <4>1, <4>3 DEF SlotsInv
    <3>4. CASE TakeSlot(p)
      <4>1. CASE RefuseFull(p)
        BY <2>3, <4>1, FinishOne DEF RefuseFull
      <4>2. CASE /\ ~SlotsFull
                 /\ counter' = counter + 1
                 /\ mem' = [mem EXCEPT ![p].position = counter + 1]
                 /\ Goto(p, "update")
        <5>1. mem'[p].position = counter + 1 /\ counter \in Int
          BY <1>0, <4>2 DEF MemOK, Mem, StoreOK
        <5>2. \A q \in Pods : pc'[q] = "update" /\ q = p
          BY <4>2, GotoOne
        <5>3. Count <= counter
          BY DEF SlotsInv
        <5>4. MaxSlots > 0 => counter + 1 <= MaxSlots
          BY <4>2, <5>1, ConstantsAssumption DEF SlotsFull, ConstantsAssumption
        <5>5. Count' < mem'[p].position /\ mem'[p].position <= counter' /\ Count' <= counter'
          BY <2>1, <4>2, <5>1, <5>3, CountType
        <5> QED
          BY <2>2, <5>1, <5>2, <5>4, <5>5 DEF SlotsInv
      <4> QED
        BY <3>4, <4>1, <4>2 DEF TakeSlot
    <3>5. CASE CheckWins(p) \/ ReadSession(p) \/ ReadCoupon(p)
      <4>1. \A q \in Pods : pc'[q] \in {"coupon", "wins", "count", "slot", "idle"}
        BY <3>5, GotoOne, FinishOne DEF CheckWins, ReadSession, ReadCoupon
      <4>2. counter' = counter
        BY <3>5 DEF CheckWins, ReadSession, ReadCoupon
      <4> QED
        BY <2>3, <4>1, <4>2
    <3>6. CASE RevertCounter(p)
      BY <3>6 DEF RevertCounter, FreshInv
    <3>7. CASE CreateReward(p) \/ RecheckWins(p) \/ CloseSession(p) \/ EnqueueExpire(p)
      <4>1. \A q \in Pods : pc'[q] \in {"rewins", "close", "enqueue", "idle"}
        BY <3>7, GotoOne, FinishOne DEF CreateReward, RecheckWins, CloseSession, EnqueueExpire
      <4>2. counter' = counter
        BY <3>7 DEF CreateReward, RecheckWins, CloseSession, EnqueueExpire
      <4> QED
        BY <2>3, <4>1, <4>2
    <3> QED
      BY <1>2, <2>5, <3>1, <3>2, <3>3, <3>4, <3>5, <3>6, <3>7 DEF ApplyStep
  <2>6. ASSUME NEW p \in Pods, OtherStep(p) PROVE SlotsInv'
    <3>1. counter' = counter
      BY <2>6
      DEF OtherStep, ReadStatus, MarkTimeReached, CheckExpirable, FindUnused, ExpireBatch
    <3> QED
      BY <2>3, <2>6, <3>1, OtherTargets
  <2>7. ASSUME NEW p \in Pods, FaultStep(p) PROVE SlotsInv'
    <3>1. counter' = counter
      BY <2>7 DEF FaultStep, DbFails, RedisFails, Crash
    <3>2. \A q \in Pods : pc'[q] \in {"slot", "idle"}
      <4>1. CASE Crash(p)
        BY <1>0, <4>1 DEF Crash, OnePod, WorkersOK
      <4>2. CASE DbFails(p) \/ RedisFails(p)
        BY <4>2, GotoOne, FinishOne DEF DbFails, RedisFails
      <4> QED
        BY <2>7, <4>1, <4>2 DEF FaultStep
    <3> QED
      BY <2>3, <3>1, <3>2
  <2> QED
    BY <2>4, <2>5, <2>6, <2>7, NextSteps
<1> QED
  BY <1>1, <1>2

LEMMA InitSlots == Init => SlotsInv
<1> SUFFICES ASSUME Init PROVE SlotsInv
  OBVIOUS
<1>1. Applied = {}
  BY DEF Init, Applied
<1>2. Count = 0 /\ counter = 0
  BY <1>1, FS_EmptySet DEF Count, Init
<1>3. \A p \in Pods : pc[p] = "idle"
  BY DEF Init
<1> QED
  BY <1>2, <1>3, ConstantsAssumption DEF SlotsInv, SlotsRespected, Count, ConstantsAssumption

\* With one pod no more coupons are applied than the profile has slots, whichever
\* calls fail and whenever the process dies: the Lua script tests a counter that is
\* never lower than the number of applied coupons.
THEOREM SlotsNeverOverfilled ==
  ASSUME OnePod
  PROVE  Spec => []SlotsRespected
<1>1. TypeInv /\ FreshInv /\ SlotsInv /\ [Next]_vars => TypeInv' /\ FreshInv' /\ SlotsInv'
  BY NextTypes, FreshStep, SlotsStep
<1>2. SlotsInv => SlotsRespected
  BY DEF SlotsInv
<1> QED
  BY InitTypes, InitFresh, InitSlots, <1>1, <1>2, PTL DEF Spec

(***************************************************************************)
(* While nothing has failed.  The counter is then the number of applied    *)
(* coupons, plus one between the Lua script and the update, so the update  *)
(* puts its coupon behind all the others.                                  *)
(***************************************************************************)
LEMMA QuietSteps ==
  ASSUME TypeInv, [Next]_vars, faults' = 0
  PROVE  faults = 0 /\ (Background \/ \E p \in Pods : ApplyStep(p) \/ OtherStep(p))
<1>0. faults \in Nat
  BY ConstantsAssumption DEF ConstantsAssumption, TypeInv, StoreOK
<1>1. CASE Background
  BY <1>1
  DEF Background, Api, Admit, RefuseMaxWins, LookUp, Enqueue, Take, Reclaim, Promote,
      SalesReachTrigger, vars
<1>2. ASSUME NEW p \in Pods, ApplyStep(p) PROVE faults = 0
  BY <1>2
  DEF ApplyStep, ReadSession, ReadCoupon, CheckWins, CountApplied, GetCounter, SetCounter,
      TakeSlot, UpdateCoupon, RevertCounter, CreateReward, RecheckWins, CloseSession, EnqueueExpire
<1>3. ASSUME NEW p \in Pods, OtherStep(p) PROVE faults = 0
  BY <1>3
  DEF OtherStep, ReadStatus, MarkTimeReached, CheckExpirable, FindUnused, ExpireBatch
<1>4. ASSUME NEW p \in Pods, FaultStep(p) PROVE FALSE
  BY <1>0, <1>4 DEF FaultStep, DbFails, RedisFails, Crash, Fault
<1> QED
  BY <1>1, <1>2, <1>3, <1>4, NextSteps

\* With one pod an update always finds its coupon unapplied.
LEMMA UpdateApplies ==
  ASSUME OnePod, TypeInv, FreshInv, NEW p \in Pods, UpdateCoupon(p)
  PROVE  LET c == job[p].coupon IN
         /\ c \in Coupons /\ c \notin Applied
         /\ Applied' = Applied \cup {c} /\ Count' = Count + 1
         /\ coupon'[c].position = mem[p].position
         /\ coupon'[c].status = IF IsWinner(mem[p].position) THEN "winner" ELSE "applied_late"
         /\ \A d \in Coupons : d # c => coupon'[d] = coupon[d]
         /\ \A q \in Pods : q = p /\ pc'[q] = AfterUpdate(mem[p].position)
         /\ UNCHANGED <<session, reward, counter, jobs, mem, job, orphan>>
<1> DEFINE c == job[p].coupon
<1>0. StoreOK /\ WorkersOK
  BY DEF TypeInv
<1>1. c \in Coupons
  BY <1>0, JobCoupon DEF UpdateCoupon, ApplySteps
<1>2. NotYetApplied(c)
  BY DEF UpdateCoupon, NotYetApplied, FreshInv, Undecided
<1>3. c \notin Applied
  BY <1>2 DEF NotYetApplied, Applied
<1>4. /\ coupon'[c].applied
      /\ coupon'[c].position = mem[p].position
      /\ coupon'[c].status = IF IsWinner(mem[p].position) THEN "winner" ELSE "applied_late"
      /\ \A d \in Coupons : d # c => coupon'[d] = coupon[d]
  BY <1>0, <1>1, <1>2 DEF UpdateCoupon, StoreOK, CouponRows
<1>5. Applied' = Applied \cup {c}
  BY <1>1, <1>4 DEF Applied
<1>6. Count' = Count + 1
  <2>1. Applied \in SUBSET Coupons
    BY DEF Applied
  <2> QED
    BY <1>1, <1>3, <1>5, <2>1, OneMoreCoupon DEF Count
<1>7. \A q \in Pods : q = p /\ pc'[q] = AfterUpdate(mem[p].position)
  BY <1>2, GotoOne DEF UpdateCoupon
<1>8. UNCHANGED <<session, reward, counter, jobs, mem, job, orphan>>
  BY <1>2 DEF UpdateCoupon, Goto
<1> QED
  BY <1>1, <1>3, <1>4, <1>5, <1>6, <1>7, <1>8

CounterInv == faults = 0 =>
  /\ \A c \in Applied : coupon[c].position <= Count
  /\ \A p \in Pods :
       /\ counter = IF pc[p] = "update" THEN Count + 1 ELSE Count
       /\ pc[p] = "update" => mem[p].position = Count + 1
       /\ pc[p] \in AfterWin => mem[p].position = Count

LEMMA CounterStep ==
  ASSUME OnePod, TypeInv, FreshInv, SlotsInv, CounterInv, [Next]_vars
  PROVE  CounterInv'
<1> SUFFICES ASSUME faults' = 0
             PROVE  /\ \A c \in Applied' : coupon'[c].position <= Count'
                    /\ \A p \in Pods :
                         /\ counter' = IF pc'[p] = "update" THEN Count' + 1 ELSE Count'
                         /\ pc'[p] = "update" => mem'[p].position = Count' + 1
                         /\ pc'[p] \in AfterWin => mem'[p].position = Count'
  BY DEF CounterInv
<1>0. /\ StoreOK /\ WorkersOK /\ MemOK /\ Count \in Nat
      /\ \A c \in Coupons : coupon[c].position \in Int
  BY CountType DEF TypeInv, StoreOK, CouponRows
<1>q. faults = 0 /\ (Background \/ \E p \in Pods : ApplyStep(p) \/ OtherStep(p))
  BY QuietSteps
<1>c. /\ \A c \in Applied : coupon[c].position <= Count
      /\ \A p \in Pods :
           /\ counter = IF pc[p] = "update" THEN Count + 1 ELSE Count
           /\ pc[p] = "update" => mem[p].position = Count + 1
           /\ pc[p] \in AfterWin => mem[p].position = Count
  BY <1>q DEF CounterInv
<1>1. ASSUME NEW p \in Pods, UpdateCoupon(p) PROVE CounterInv'
  <2> DEFINE c == job[p].coupon
  <2>1. /\ c \in Coupons /\ Applied' = Applied \cup {c} /\ Count' = Count + 1
        /\ coupon'[c].position = mem[p].position
        /\ \A d \in Coupons : d # c => coupon'[d] = coupon[d]
        /\ \A q \in Pods : q = p /\ pc'[q] = AfterUpdate(mem[p].position)
        /\ UNCHANGED <<counter, mem>>
    BY <1>1, UpdateApplies
  <2>2. mem[p].position = Count + 1 /\ counter = Count + 1
    BY <1>1, <1>c DEF UpdateCoupon
  <2>3. \A d \in Applied' : coupon'[d].position <= Count'
    <3> SUFFICES ASSUME NEW d \in Applied' PROVE coupon'[d].position <= Count'
      OBVIOUS
    <3>1. CASE d = c
      BY <1>0, <2>1, <2>2, <3>1
    <3>2. CASE d # c
      <4>1. d \in Applied /\ d \in Coupons
        BY <2>1, <3>2 DEF Applied
      <4> QED
        BY <1>0, <1>c, <2>1, <3>2, <4>1
    <3> QED
      BY <3>1, <3>2
  <2>4. \A q \in Pods : pc'[q] # "update"
    BY <2>1 DEF AfterUpdate
  <2> QED
    BY <2>1, <2>2, <2>3, <2>4 DEF CounterInv
<1>2. ASSUME ~ \E p \in Pods : UpdateCoupon(p) PROVE CounterInv'
  <2>1. /\ Applied' = Applied /\ Count' = Count
        /\ \A c \in Applied' : coupon'[c].position <= Count'
    <3>1. Applied' = Applied /\ \A c \in Applied : coupon'[c].position = coupon[c].position
      BY <1>2, OnlyUpdateApplies DEF Applied
    <3> QED
      BY <1>c, <3>1 DEF Count
  <2>2. ASSUME NEW p \in Pods, ApplyStep(p)
        PROVE  \A q \in Pods :
                 /\ counter' = IF pc'[q] = "update" THEN Count + 1 ELSE Count
                 /\ pc'[q] = "update" => mem'[q].position = Count + 1
                 /\ pc'[q] \in AfterWin => mem'[q].position = Count
    <3>1. CASE TakeSlot(p)
      <4>1. counter = Count
        BY <1>c, <3>1 DEF TakeSlot
      <4>2. CASE RefuseFull(p)
        BY <4>1, <4>2, FinishOne DEF RefuseFull, AfterWin
      <4>3. CASE /\ counter' = counter + 1
                 /\ mem' = [mem EXCEPT ![p].position = counter + 1]
                 /\ Goto(p, "update")
        <5>1. mem'[p].position = Count + 1
          BY <1>0, <4>1, <4>3 DEF MemOK, Mem
        <5>2. \A q \in Pods : pc'[q] = "update" /\ q = p
          BY <4>3, GotoOne
        <5> QED
          BY <4>1, <4>3, <5>1, <5>2 DEF AfterWin
      <4> QED
        BY <3>1, <4>2, <4>3 DEF TakeSlot
    <3>2. CASE SetCounter(p)
      <4>1. counter' = Count
        BY <3>2 DEF SetCounter, SlotsInv
      <4>2. \A q \in Pods : pc'[q] = "slot"
        BY <3>2, GotoOne DEF SetCounter
      <4> QED
        BY <4>1, <4>2 DEF AfterWin
    <3>3. CASE \/ ReadSession(p) \/ ReadCoupon(p) \/ CheckWins(p) \/ CountApplied(p)
               \/ GetCounter(p) \/ CloseSession(p) \/ EnqueueExpire(p)
      <4>1. counter' = counter /\ pc[p] # "update"
        BY <3>3 DEF ReadSession, ReadCoupon, CheckWins, CountApplied, GetCounter,
                    CloseSession, EnqueueExpire
      <4>2. \A q \in Pods : pc'[q] \notin {"update"} \cup AfterWin
        BY <3>3, GotoOne, FinishOne
        DEF ReadSession, ReadCoupon, CheckWins, CountApplied, GetCounter, CloseSession,
            EnqueueExpire, AfterWin
      <4> QED
        BY <1>c, <4>1, <4>2
    <3>4. CASE CreateReward(p) \/ RecheckWins(p)
      <4>1. UNCHANGED <<counter, mem>> /\ pc[p] \in AfterWin /\ pc[p] # "update"
        BY <3>4 DEF CreateReward, RecheckWins, AfterWin
      <4>2. \A q \in Pods : pc'[q] \in {"rewins", "close"} /\ q = p
        BY <3>4, GotoOne DEF CreateReward, RecheckWins
      <4> QED
        BY <1>c, <4>1, <4>2
    <3>5. ~RevertCounter(p)
      BY DEF RevertCounter, FreshInv
    <3> QED
      BY <1>2, <2>2, <3>1, <3>2, <3>3, <3>4, <3>5 DEF ApplyStep
  <2>3. ASSUME NEW p \in Pods, OtherStep(p)
        PROVE  \A q \in Pods : /\ counter' = Count
                               /\ pc'[q] \notin {"update"} \cup AfterWin
    <3>1. counter' = counter /\ pc[p] # "update"
      BY <2>3 DEF OtherStep, ReadStatus, MarkTimeReached, CheckExpirable, FindUnused, ExpireBatch
    <3> QED
      BY <1>c, <2>3, <3>1, OtherTargets DEF AfterWin
  <2>4. CASE Background
    <3>1. UNCHANGED <<counter, mem>>
      BY <2>4, BackgroundCalm
    <3>2. \A q \in Pods : \/ pc'[q] = pc[q]
                          \/ pc[q] = "idle" /\ pc'[q] \notin {"update"} \cup AfterWin
      BY <2>4, BackgroundCalm DEF AfterWin
    <3> QED
      BY <1>c, <2>1, <3>1, <3>2 DEF CounterInv
  <2> QED
    BY <1>q, <2>1, <2>2, <2>3, <2>4 DEF CounterInv
<1>3. CounterInv'
  BY <1>1, <1>2
<1> QED
  BY <1>3 DEF CounterInv

(***************************************************************************)
(* First come, first served.  A coupon is settled when it is applied or can*)
(* never be: a coupon that is neither is in line, and nobody who came later*)
(* is ahead of it in the queue, in hand, or applied.                       *)
(***************************************************************************)
Doomed(c) == \/ session.status # "live" \/ ~coupon[c].valid \/ AtMaxWins(Owner[c])
             \/ MaxSlots > 0 /\ Count >= MaxSlots

Settled(c) == coupon[c].applied \/ Doomed(c)

\* A handler goes on with a valid coupon or meets the win limit; after the update it
\* is about an applied one.
HandlerInv ==
  \A p \in Pods :
    /\ pc[p] \in Undecided => coupon[job[p].coupon].valid \/ AtMaxWins(Owner[job[p].coupon])
    /\ pc[p] \in AfterWin \cup {"enqueue"} => coupon[job[p].coupon].applied

\* Wins and applied coupons only become more.
LEMMA LimitsApproach ==
  ASSUME OnePod, TypeInv, FreshInv, [Next]_vars
  PROVE  Count <= Count' /\ \A u : AtMaxWins(u) => AtMaxWins(u)'
<1>1. Applied \in SUBSET Coupons /\ Applied' \in SUBSET Coupons /\ Applied \subseteq Applied'
  BY AppliedGrows DEF Applied
<1>2. Winners \subseteq Winners' /\ Winners' \subseteq Coupons
  BY OutcomeStep DEF Winners, Applied
<1>3. ASSUME NEW u PROVE Wins(u) <= Wins(u)' /\ Wins(u) \in Nat /\ Wins(u)' \in Nat
  <2> DEFINE old == {c \in Winners : Owner[c] = u}
             new == {c \in Winners' : Owner[c] = u}
  <2>1. old \subseteq new /\ old \in SUBSET Coupons /\ new \in SUBSET Coupons
    BY <1>2
  <2> QED
    BY <2>1, MoreCoupons, CountingCoupons DEF Wins
<1>4. Count <= Count'
  BY <1>1, MoreCoupons DEF Count
<1>5. ASSUME NEW u, AtMaxWins(u) PROVE AtMaxWins(u)'
  <2>1. MaxWins > 0 /\ Wins(u) >= MaxWins /\ MaxWins \in Nat
    BY <1>5, ConstantsAssumption DEF AtMaxWins, ConstantsAssumption
  <2>2. Wins(u)' >= MaxWins
    BY <1>3, <2>1
  <2> QED
    BY <2>1, <2>2 DEF AtMaxWins
<1> QED
  BY <1>4, <1>5

\* No coupon becomes valid again; outside the handlers only the API call that finds
\* the win limit reached takes the validity of a coupon.
LEMMA ValidityStep ==
  ASSUME TypeInv, [Next]_vars, NEW c \in Coupons
  PROVE  /\ coupon'[c].valid => coupon[c].valid
         /\ Background => coupon'[c].valid = coupon[c].valid \/ AtMaxWins(Owner[c])
<1>0. StoreOK
  BY DEF TypeInv
<1>r. \A u : /\ Retired(u)[c].valid => coupon[c].valid
             /\ Owner[c] # u => Retired(u)[c] = coupon[c]
  BY <1>0 DEF StoreOK, CouponRows, Retired
<1>1. ASSUME Background
      PROVE  /\ coupon'[c].valid => coupon[c].valid
             /\ coupon'[c].valid = coupon[c].valid \/ AtMaxWins(Owner[c])
  <2>1. ASSUME NEW k \in Calls, NEW d \in Coupons, RefuseMaxWins(k, d)
        PROVE  /\ coupon'[c].valid => coupon[c].valid
               /\ coupon'[c].valid = coupon[c].valid \/ AtMaxWins(Owner[c])
    BY <1>r, <2>1 DEF RefuseMaxWins
  <2>2. ASSUME UNCHANGED coupon
        PROVE  coupon'[c].valid = coupon[c].valid
    BY <2>2
  <2> QED
    BY <1>1, <2>1, <2>2
    DEF Background, Api, Admit, LookUp, Enqueue, Take, Reclaim, Promote, SalesReachTrigger, db, vars
<1>2. ASSUME NEW p \in Pods, ApplyStep(p) PROVE coupon'[c].valid => coupon[c].valid
  <2>1. CASE UpdateCoupon(p)
    BY <1>0, <2>1 DEF UpdateCoupon, StoreOK, CouponRows
  <2> QED
    BY <1>2, <1>r, <2>1
    DEF ApplyStep, ReadSession, ReadCoupon, CheckWins, CountApplied, GetCounter, SetCounter,
        TakeSlot, RevertCounter, CreateReward, RecheckWins, CloseSession, EnqueueExpire, db
<1>3. ASSUME NEW p \in Pods, OtherStep(p) PROVE coupon'[c].valid => coupon[c].valid
  <2>1. CASE ExpireBatch(p)
    BY <1>0, <2>1 DEF ExpireBatch, StoreOK, CouponRows
  <2> QED
    BY <1>3, <2>1 DEF OtherStep, ReadStatus, MarkTimeReached, CheckExpirable, FindUnused, db
<1>4. ASSUME NEW p \in Pods, FaultStep(p) PROVE coupon'[c].valid => coupon[c].valid
  BY <1>4 DEF FaultStep, DbFails, RedisFails, Crash, db
<1> QED
  BY <1>1, <1>2, <1>3, <1>4, NextSteps

LEMMA SettledStays ==
  ASSUME OnePod, TypeInv, StatusInv, FreshInv, [Next]_vars, NEW c \in Coupons, Settled(c)
  PROVE  Settled(c)'
<1>1. coupon[c].applied => coupon'[c].applied
  BY AppliedGrows
<1>2. session.status # "live" => session'.status # "live"
  BY ClosedStep
<1>3. coupon'[c].valid => coupon[c].valid
  BY ValidityStep
<1>4. AtMaxWins(Owner[c]) => AtMaxWins(Owner[c])'
  BY LimitsApproach
<1>5. MaxSlots > 0 /\ Count >= MaxSlots => Count' >= MaxSlots
  <2>1. Count \in Nat /\ Count' \in Nat
    <3>1. Applied' \in SUBSET Coupons
      BY DEF Applied
    <3> QED
      BY <3>1, CountType, CountingCoupons DEF Count
  <2> QED
    BY <2>1, LimitsApproach, ConstantsAssumption DEF ConstantsAssumption
<1> QED
  BY <1>1, <1>2, <1>3, <1>4, <1>5 DEF Settled, Doomed

LEMMA HandlerStep ==
  ASSUME OnePod, TypeInv, FreshInv, HandlerInv, [Next]_vars
  PROVE  HandlerInv'
<1>0. StoreOK /\ WorkersOK /\ \A u : AtMaxWins(u) => AtMaxWins(u)'
  BY LimitsApproach DEF TypeInv
<1>a. \A p \in Pods : pc[p] \in Undecided \cup AfterWin \cup {"enqueue"} => job[p].coupon \in Coupons
  BY <1>0, JobCoupon DEF Undecided, AfterWin, ApplySteps
<1>g. \A c \in Coupons : coupon[c].applied => coupon'[c].applied
  BY AppliedGrows
<1> DEFINE Idle == \A q \in Pods : pc'[q] \notin Undecided \cup AfterWin \cup {"enqueue"}
<1>i. Idle => HandlerInv'
  BY DEF HandlerInv
<1>1. CASE Background
  <2>1. \A q \in Pods : pc'[q] \in Undecided \cup AfterWin \cup {"enqueue"}
                          => pc'[q] = pc[q] /\ job'[q] = job[q]
    BY <1>1, BackgroundCalm DEF Undecided, AfterWin
  <2>2. ASSUME NEW q \in Pods, NEW c \in Coupons, c = job[q].coupon
        PROVE  /\ pc[q] \in Undecided => coupon'[c].valid \/ AtMaxWins(Owner[c])'
               /\ pc[q] \in AfterWin \cup {"enqueue"} => coupon'[c].applied
    <3>1. coupon'[c].valid = coupon[c].valid \/ AtMaxWins(Owner[c])
      BY <1>1, ValidityStep
    <3> QED
      BY <1>0, <1>g, <2>2, <3>1 DEF HandlerInv
  <2> QED
    BY <1>a, <2>1, <2>2 DEF HandlerInv
<1>2. ASSUME NEW p \in Pods, ApplyStep(p) PROVE HandlerInv'
  <2>1. CASE UpdateCoupon(p)
    <3>1. \A q \in Pods : q = p /\ pc'[q] = AfterUpdate(mem[p].position) /\ job'[q] = job[q]
      BY <2>1, UpdateApplies
    <3>2. coupon'[job[p].coupon].applied
      BY <2>1, UpdateApplies DEF Applied
    <3>3. AfterUpdate(mem[p].position) \in AfterWin /\ AfterUpdate(mem[p].position) \notin Undecided
      BY DEF AfterUpdate, AfterWin, Undecided
    <3> QED
      BY <3>1, <3>2, <3>3 DEF HandlerInv
  <2>2. CASE ReadCoupon(p)
    BY <2>2, GotoOne, FinishOne DEF ReadCoupon, HandlerInv, Undecided, AfterWin, db
  <2>3. CASE \/ CheckWins(p) \/ CountApplied(p) \/ GetCounter(p) \/ SetCounter(p) \/ TakeSlot(p)
    <3>1. \/ \A q \in Pods : pc'[q] = "idle"
          \/ /\ pc[p] \in Undecided /\ UNCHANGED coupon
             /\ \A q \in Pods : /\ pc'[q] \notin AfterWin \cup {"enqueue"}
                                /\ q = p /\ job'[q] = job[q]
      BY <2>3, GotoOne, FinishOne
      DEF CheckWins, CountApplied, GetCounter, SetCounter, TakeSlot, RefuseFull, Undecided,
          AfterWin, db
    <3>2. CASE \A q \in Pods : pc'[q] = "idle"
      BY <1>i, <3>2 DEF Undecided, AfterWin
    <3> QED
      BY <1>0, <3>1, <3>2 DEF HandlerInv
  <2>4. CASE CreateReward(p) \/ RecheckWins(p) \/ CloseSession(p)
    <3>1. \A q \in Pods : /\ pc'[q] \notin Undecided
                          /\ pc'[q] \in AfterWin \cup {"enqueue"} => job'[q] = job[q]
                          /\ pc[q] \in AfterWin
      BY <2>4, GotoOne, FinishOne
      DEF CreateReward, RecheckWins, CloseSession, Undecided, AfterWin, OnePod
    <3> QED
      BY <1>a, <1>g, <3>1 DEF HandlerInv
  <2>5. CASE ReadSession(p) \/ RevertCounter(p) \/ EnqueueExpire(p)
    <3>1. Idle
      BY <2>5, GotoOne, FinishOne
      DEF ReadSession, RevertCounter, EnqueueExpire, Undecided, AfterWin
    <3> QED
      BY <1>i, <3>1
  <2> QED
    BY <1>2, <2>1, <2>2, <2>3, <2>4, <2>5 DEF ApplyStep
<1>3. ASSUME NEW p \in Pods, OtherStep(p) PROVE HandlerInv'
  <2>1. Idle
    BY <1>3, OtherTargets DEF Undecided, AfterWin
  <2> QED
    BY <1>i, <2>1
<1>4. ASSUME NEW p \in Pods, FaultStep(p) PROVE HandlerInv'
  <2>1. CASE Crash(p)
    <3>1. Idle
      BY <1>0, <2>1 DEF Crash, OnePod, WorkersOK, Undecided, AfterWin
    <3> QED
      BY <1>i, <3>1
  <2>2. CASE DbFails(p) \/ RedisFails(p)
    <3>1. UNCHANGED coupon
      BY <2>2 DEF DbFails, RedisFails, db
    <3>2. \A q \in Pods : /\ pc'[q] \notin AfterWin \cup {"enqueue"}
                          /\ pc'[q] \in Undecided => pc[q] \in Undecided /\ job'[q] = job[q]
      BY <2>2, GotoOne, FinishOne DEF DbFails, RedisFails, Undecided, AfterWin
    <3> QED
      BY <1>0, <3>1, <3>2 DEF HandlerInv
  <2> QED
    BY <1>4, <2>1, <2>2 DEF FaultStep
<1> QED
  BY <1>1, <1>2, <1>3, <1>4, NextSteps

\* The update decides a coupon nothing stands against.
LEMMA UpdateNotDoomed ==
  ASSUME TypeInv, StatusInv, WinsInv, SlotsInv, HandlerInv, NEW p \in Pods, UpdateCoupon(p)
  PROVE  ~Doomed(job[p].coupon)
<1> DEFINE c == job[p].coupon
<1>1. session.status = "live" /\ ~AtMaxWins(Owner[c])
  BY DEF UpdateCoupon, StatusInv, Deciding, WinsInv, Entitled
<1>2. coupon[c].valid
  BY <1>1 DEF UpdateCoupon, HandlerInv, Undecided
<1>3. MaxSlots > 0 => Count < MaxSlots
  <2>1. /\ Count < mem[p].position
        /\ MaxSlots > 0 => mem[p].position <= MaxSlots
    BY DEF UpdateCoupon, SlotsInv
  <2>2. mem[p].position \in Int /\ Count \in Nat /\ MaxSlots \in Nat
    BY CountType, ConstantsAssumption DEF TypeInv, MemOK, Mem, ConstantsAssumption
  <2> QED
    BY <2>1, <2>2
<1>4. Count \in Nat /\ MaxSlots \in Nat
  BY CountType, ConstantsAssumption DEF ConstantsAssumption
<1> QED
  BY <1>1, <1>2, <1>3, <1>4 DEF Doomed

\* A handler that ends without a fault leaves its coupon settled.
LEMMA EndSettles ==
  ASSUME OnePod, TypeInv, StatusInv, FreshInv, SlotsInv, CounterInv, HandlerInv, [Next]_vars,
         faults = 0, NEW p \in Pods, ApplyStep(p), pc'[p] = "idle"
  PROVE  Settled(job[p].coupon)
<1> DEFINE c == job[p].coupon
<1>1. CASE ReadSession(p)
  BY <1>1, GotoOne DEF ReadSession, SessionOpen, Settled, Doomed
<1>2. CASE ReadCoupon(p)
  BY <1>2, GotoOne DEF ReadCoupon, Settled, Doomed
<1>3. CASE CheckWins(p)
  BY <1>3, GotoOne DEF CheckWins, Settled, Doomed
<1>4. CASE TakeSlot(p)
  <2>1. SlotsFull
    BY <1>4, GotoOne DEF TakeSlot, RefuseFull
  <2>2. counter = Count
    BY <1>4 DEF TakeSlot, CounterInv
  <2> QED
    BY <2>1, <2>2 DEF SlotsFull, Settled, Doomed
<1>5. CASE CloseSession(p) \/ EnqueueExpire(p)
  BY <1>5 DEF CloseSession, EnqueueExpire, HandlerInv, AfterWin, Settled
<1>6. CASE RevertCounter(p)
  BY <1>6 DEF RevertCounter, FreshInv
<1>7. CASE \/ CountApplied(p) \/ GetCounter(p) \/ SetCounter(p) \/ CreateReward(p) \/ RecheckWins(p)
  BY <1>7, GotoOne DEF CountApplied, GetCounter, SetCounter, CreateReward, RecheckWins
<1>8. CASE UpdateCoupon(p)
  <2>1. pc'[p] = AfterUpdate(mem[p].position)
    BY <1>8, UpdateApplies
  <2> QED
    BY <2>1 DEF AfterUpdate
<1> QED
  BY <1>1, <1>2, <1>3, <1>4, <1>5, <1>6, <1>7, <1>8 DEF ApplyStep

Arrived(c) == \E i \in 1..Len(arrivals) : arrivals[i] = c

InHand(c) == \E p \in Pods : pc[p] # "idle" /\ job[p].coupon = c

\* The coupon is in hand or among the first n jobs of the queue.
Ahead(c, n) == InHand(c) \/ \E m \in 1..n : queue[m].coupon = c

\* Whatever coupon the system knows of has arrived, once.
ArrivalsInv == faults = 0 =>
  /\ delayed \subseteq OtherJobs
  /\ \A p \in Pods : orphan[p] = None
  /\ \A c \in Coupons : Ahead(c, Len(queue)) \/ coupon[c].applied => Arrived(c)
  /\ \A i, j \in 1..Len(arrivals) : arrivals[i] = arrivals[j] => i = j

\* The first request of coupon a was queued before that of coupon b.
Before(a, b) ==
  \E i, j \in 1..Len(arrivals) : i < j /\ arrivals[i] = a /\ arrivals[j] = b

LineInv == faults = 0 =>
  /\ \A a \in Coupons : Arrived(a) /\ ~Settled(a) => Ahead(a, Len(queue))
  /\ \A a, b \in Coupons : Before(a, b) /\ ~Settled(a) =>
       /\ ~coupon[b].applied
       /\ ~InHand(b)
       /\ \A n \in 1..Len(queue) : queue[n].coupon = b => Ahead(a, n - 1)

\* The steps that neither bring a new request nor take one from the queue.
Onward ==
  /\ UNCHANGED <<arrivals, orphan>> /\ delayed' \subseteq delayed
  /\ queue' = queue \/ \E j \in OtherJobs : queue' = Append(queue, j)
  /\ \A p \in Pods : pc'[p] # "idle" => pc[p] # "idle" /\ job'[p] = job[p]
  /\ \A c \in Coupons : InHand(c) => InHand(c)' \/ Settled(c)'
  /\ \A c \in Coupons : coupon'[c].applied => coupon[c].applied \/ InHand(c)

LEMMA OnwardSteps ==
  ASSUME OnePod, TypeInv, StatusInv, FreshInv, SlotsInv, CounterInv, HandlerInv, ArrivalsInv,
         [Next]_vars, faults' = 0
  PROVE  \/ \E k \in Calls : Enqueue(k)
         \/ \E p \in Pods : Take(p)
         \/ Onward
<1>0. StoreOK /\ QueueOK /\ WorkersOK
  BY DEF TypeInv
<1>q. faults = 0 /\ (Background \/ \E p \in Pods : ApplyStep(p) \/ OtherStep(p))
  BY QuietSteps
<1>n. None \notin Coupons
  BY ConstantsAssumption DEF ConstantsAssumption
<1>e. ExpireJob \in OtherJobs
  BY ConstantJobs
<1> DEFINE Lines == /\ UNCHANGED <<arrivals, orphan>> /\ delayed' \subseteq delayed
                    /\ queue' = queue \/ \E j \in OtherJobs : queue' = Append(queue, j)
<1>1. ASSUME Background, ~ \E k \in Calls : Enqueue(k), ~ \E p \in Pods : Take(p)
      PROVE  Onward
  <2>1. Lines /\ UNCHANGED <<pc, job>>
    <3>1. CASE \E k \in Calls : Api(k)
      BY <1>1, <3>1 DEF Api, Admit, RefuseMaxWins, LookUp, jobs, worker
    <3>2. CASE \E p \in Pods : Reclaim(p)
      BY <1>q, <3>2 DEF Reclaim, ArrivalsInv
    <3>3. CASE \E j \in delayed : Promote(j)
      BY <1>q, <3>3 DEF Promote, Queued, ArrivalsInv, worker
    <3>4. CASE SalesReachTrigger \/ UNCHANGED vars
      BY <3>4 DEF SalesReachTrigger, vars, jobs, worker
    <3> QED
      BY <1>1, <3>1, <3>2, <3>3, <3>4 DEF Background
  <2>2. \A c \in Coupons : InHand(c) => InHand(c)'
    BY <2>1 DEF InHand
  <2>3. \A c \in Coupons : coupon'[c].applied => coupon[c].applied
    BY <1>1, BackgroundCalm
  <2> QED
    BY <2>1, <2>2, <2>3 DEF Onward
<1>2. ASSUME NEW p \in Pods, ApplyStep(p) PROVE Onward
  <2>1. Lines
    BY <1>2, <1>e
    DEF ApplyStep, ReadSession, ReadCoupon, CheckWins, CountApplied, GetCounter, SetCounter,
        TakeSlot, RefuseFull, UpdateCoupon, RevertCounter, CreateReward, RecheckWins,
        CloseSession, EnqueueExpire, Queued, Goto, Finish, jobs
  <2>2. \A q \in Pods : /\ q = p /\ pc[q] # "idle"
                        /\ pc'[q] # "idle" => job'[q] = job[q]
    BY <1>2, FinishOne DEF OnePod,
       ApplyStep, ReadSession, ReadCoupon, CheckWins, CountApplied, GetCounter, SetCounter,
        TakeSlot, RefuseFull, UpdateCoupon, RevertCounter, CreateReward, RecheckWins,
        CloseSession, EnqueueExpire, Goto
  <2>3. ASSUME NEW c \in Coupons, InHand(c) PROVE InHand(c)' \/ Settled(c)'
    <3>1. c = job[p].coupon
      BY <2>2, <2>3 DEF InHand
    <3>2. CASE pc'[p] = "idle"
      BY <1>2, <1>q, <3>1, <3>2, EndSettles, SettledStays
    <3>3. CASE pc'[p] # "idle"
      BY <2>2, <3>1, <3>3 DEF InHand
    <3> QED
      BY <3>2, <3>3
  <2>4. ASSUME NEW c \in Coupons, coupon'[c].applied PROVE coupon[c].applied \/ InHand(c)
    <3>1. CASE UpdateCoupon(p)
      <4>1. Applied' = Applied \cup {job[p].coupon}
        BY <3>1, UpdateApplies
      <4> QED
        BY <2>2, <2>4, <4>1 DEF Applied, InHand
    <3>2. CASE ~UpdateCoupon(p)
      BY <2>2, <2>4, <3>2, OnlyUpdateApplies
    <3> QED
      BY <3>1, <3>2
  <2> QED
    BY <2>1, <2>2, <2>3, <2>4 DEF Onward
<1>3. ASSUME NEW p \in Pods, OtherStep(p) PROVE Onward
  <2>1. Lines
    BY <1>3
    DEF OtherStep, ReadStatus, MarkTimeReached, CheckExpirable, FindUnused, ExpireBatch,
        Goto, Finish, jobs
  <2>2. \A q \in Pods : /\ q = p /\ pc[q] \in OtherSteps
                        /\ pc'[q] # "idle" => job'[q] = job[q]
    BY <1>3, FinishOne
    DEF OnePod, OtherStep, ReadStatus, MarkTimeReached, CheckExpirable, FindUnused,
        ExpireBatch, Goto, OtherSteps
  <2>3. \A c \in Coupons : ~InHand(c)
    BY <1>0, <1>n, <2>2 DEF InHand, WorkersOK, OtherJobs
  <2>4. \A c \in Coupons : coupon'[c].applied = coupon[c].applied
    <3>1. ~ \E q \in Pods : UpdateCoupon(q)
      BY <2>2 DEF UpdateCoupon, OtherSteps
    <3> QED
      BY <3>1, OnlyUpdateApplies
  <2>5. \A q \in Pods : pc[q] # "idle"
    BY <2>2 DEF OtherSteps
  <2> QED
    BY <2>1, <2>2, <2>3, <2>4, <2>5 DEF Onward
<1> QED
  BY <1>q, <1>1, <1>2, <1>3

LEMMA AppendToQueue ==
  ASSUME QueueOK, NEW j \in Jobs, queue' = Append(queue, j)
  PROVE  /\ Len(queue') = Len(queue) + 1 /\ Len(queue) \in Nat
         /\ \A n \in 1..Len(queue) : queue'[n] = queue[n]
         /\ queue'[Len(queue) + 1] = j
BY AppendProperties, LenProperties DEF QueueOK

LEMMA TakeFromQueue ==
  ASSUME OnePod, TypeInv, NEW p \in Pods, Take(p)
  PROVE  /\ Len(queue') = Len(queue) - 1 /\ Len(queue) \in Nat \ {0}
         /\ \A n \in 1..Len(queue') : queue'[n] = queue[n + 1]
         /\ \A c : ~InHand(c) /\ (InHand(c)' <=> queue[1].coupon = c)
         /\ \A c \in Coupons : Settled(c)' <=> Settled(c)
         /\ UNCHANGED <<coupon, arrivals, delayed, orphan>>
<1>0. QueueOK /\ WorkersOK
  BY DEF TypeInv
<1>1. /\ Len(Tail(queue)) = Len(queue) - 1 /\ Len(queue) \in Nat \ {0}
      /\ \A n \in 1..Len(Tail(queue)) : Tail(queue)[n] = queue[n + 1]
      /\ Head(queue) = queue[1]
  BY <1>0, HeadTailProperties, LenProperties, EmptySeq DEF Take, QueueOK
<1>2. \A q \in Pods : pc[q] = "idle" /\ pc'[q] # "idle" /\ job'[q] = Head(queue)
  BY <1>0, TakeOne DEF Take, OnePod, WorkersOK
<1>3. \A c : ~InHand(c) /\ (InHand(c)' <=> queue[1].coupon = c)
  BY <1>1, <1>2 DEF InHand
<1>4. UNCHANGED <<db, arrivals, delayed, orphan>>
  BY DEF Take
<1>5. \A c \in Coupons : Settled(c)' <=> Settled(c)
  BY <1>4 DEF Settled, Doomed, AtMaxWins, Wins, Winners, Count, Applied, db
<1> QED
  BY <1>1, <1>3, <1>4, <1>5 DEF Take, db

LEMMA EnqueueAtTheEnd ==
  ASSUME TypeInv, NEW k \in Calls, Enqueue(k)
  PROVE  LET c == call[k].coupon IN
         /\ c \in Coupons
         /\ Len(queue') = Len(queue) + 1 /\ Len(queue) \in Nat /\ Len(arrivals) \in Nat
         /\ \A n \in 1..Len(queue) : queue'[n] = queue[n]
         /\ queue'[Len(queue) + 1].coupon = c
         /\ \A i \in 1..Len(arrivals) : arrivals'[i] = arrivals[i]
         /\ \/ Arrived(c) /\ Len(arrivals') = Len(arrivals)
            \/ /\ ~Arrived(c) /\ Len(arrivals') = Len(arrivals) + 1
               /\ arrivals'[Len(arrivals) + 1] = c
         /\ \A d \in Coupons : (InHand(d)' <=> InHand(d)) /\ (Settled(d)' <=> Settled(d))
         /\ UNCHANGED <<coupon, delayed, orphan>>
<1> DEFINE c == call[k].coupon
<1>0. QueueOK /\ CallsOK
  BY DEF TypeInv
<1>1. c \in Coupons
  BY <1>0 DEF Enqueue, CallsOK
<1>2. ApplyJob(c) \in Jobs /\ ApplyJob(c).coupon = c
  BY <1>1 DEF ApplyJob, Jobs, ApplyJobs
<1>3. queue' = Append(queue, ApplyJob(c))
  BY DEF Enqueue, Queued
<1>4. /\ Len(queue') = Len(queue) + 1 /\ Len(queue) \in Nat
      /\ \A n \in 1..Len(queue) : queue'[n] = queue[n]
      /\ queue'[Len(queue) + 1].coupon = c
  BY <1>0, <1>2, <1>3, AppendToQueue
<1>5. /\ Len(arrivals) \in Nat
      /\ Len(Append(arrivals, c)) = Len(arrivals) + 1
      /\ \A i \in 1..Len(arrivals) : Append(arrivals, c)[i] = arrivals[i]
      /\ Append(arrivals, c)[Len(arrivals) + 1] = c
  BY <1>0, <1>1, AppendProperties, LenProperties DEF QueueOK
<1>6. UNCHANGED <<db, delayed, worker>>
  BY DEF Enqueue
<1>7. \A d \in Coupons : (InHand(d)' <=> InHand(d)) /\ (Settled(d)' <=> Settled(d))
  BY <1>6 DEF InHand, Settled, Doomed, AtMaxWins, Wins, Winners, Count, Applied, db, worker
<1>8. CASE Arrived(c)
  <2>1. arrivals' = arrivals
    BY <1>8 DEF Enqueue, Arrived
  <2> QED
    BY <1>1, <1>4, <1>5, <1>6, <1>7, <1>8, <2>1 DEF db, worker
<1>9. CASE ~Arrived(c)
  <2>1. arrivals' = Append(arrivals, c)
    BY <1>9 DEF Enqueue, Arrived
  <2> QED
    BY <1>1, <1>4, <1>5, <1>6, <1>7, <1>9, <2>1 DEF db, worker
<1> QED
  BY <1>8, <1>9

LEMMA OnwardQueue ==
  ASSUME QueueOK, Onward
  PROVE  /\ Len(queue) \in Nat /\ Len(queue') \in Nat /\ Len(queue) <= Len(queue')
         /\ \A n \in 1..Len(queue) : queue'[n] = queue[n]
         /\ \A n \in 1..Len(queue') : queue'[n].coupon \in Coupons => n \in 1..Len(queue)
<1>1. CASE queue' = queue
  BY <1>1, LenProperties DEF QueueOK
<1>2. ASSUME NEW j \in OtherJobs, queue' = Append(queue, j)
      PROVE  /\ Len(queue) \in Nat /\ Len(queue') \in Nat /\ Len(queue) <= Len(queue')
             /\ \A n \in 1..Len(queue) : queue'[n] = queue[n]
             /\ \A n \in 1..Len(queue') : queue'[n].coupon \in Coupons => n \in 1..Len(queue)
  <2>1. j \in Jobs /\ j.coupon \notin Coupons
    BY ConstantsAssumption DEF Jobs, OtherJobs, ConstantsAssumption
  <2>2. /\ Len(queue') = Len(queue) + 1 /\ Len(queue) \in Nat
        /\ \A n \in 1..Len(queue) : queue'[n] = queue[n]
        /\ queue'[Len(queue) + 1] = j
    BY <1>2, <2>1, AppendToQueue
  <2> QED
    BY <2>1, <2>2
<1> QED
  BY <1>1, <1>2 DEF Onward

LEMMA ArrivalsStep ==
  ASSUME OnePod, TypeInv, StatusInv, FreshInv, SlotsInv, CounterInv, HandlerInv, ArrivalsInv,
         [Next]_vars
  PROVE  ArrivalsInv'
<1> SUFFICES ASSUME faults' = 0 PROVE ArrivalsInv'
  BY DEF ArrivalsInv
<1>0. QueueOK /\ faults = 0
  BY QuietSteps DEF TypeInv
<1>1. /\ delayed \subseteq OtherJobs
      /\ \A p \in Pods : orphan[p] = None
      /\ \A c \in Coupons : Ahead(c, Len(queue)) \/ coupon[c].applied => Arrived(c)
      /\ \A i, j \in 1..Len(arrivals) : arrivals[i] = arrivals[j] => i = j
  BY <1>0 DEF ArrivalsInv
<1>2. ASSUME NEW k \in Calls, Enqueue(k) PROVE ArrivalsInv'
  <2> DEFINE c == call[k].coupon
  <2>1. /\ c \in Coupons
        /\ Len(queue') = Len(queue) + 1 /\ Len(queue) \in Nat /\ Len(arrivals) \in Nat
        /\ \A n \in 1..Len(queue) : queue'[n] = queue[n]
        /\ queue'[Len(queue) + 1].coupon = c
        /\ \A i \in 1..Len(arrivals) : arrivals'[i] = arrivals[i]
        /\ \/ Arrived(c) /\ Len(arrivals') = Len(arrivals)
           \/ /\ ~Arrived(c) /\ Len(arrivals') = Len(arrivals) + 1
              /\ arrivals'[Len(arrivals) + 1] = c
        /\ \A d \in Coupons : (InHand(d)' <=> InHand(d)) /\ (Settled(d)' <=> Settled(d))
        /\ UNCHANGED <<coupon, delayed, orphan>>
    BY <1>2, EnqueueAtTheEnd
  <2> HIDE DEF c
  <2>2. 1..Len(arrivals) \subseteq 1..Len(arrivals')
    BY <2>1
  <2>3. \A d \in Coupons : Arrived(d) \/ d = c => Arrived(d)'
    BY <2>1, <2>2 DEF Arrived
  <2>4. \A d \in Coupons : Ahead(d, Len(queue))' => Ahead(d, Len(queue)) \/ d = c
    BY <2>1 DEF Ahead
  <2>5. \A d \in Coupons : (Ahead(d, Len(queue)) \/ coupon[d].applied)' => Arrived(d)'
    BY <1>1, <2>1, <2>3, <2>4
  <2>6. ASSUME NEW i \in 1..Len(arrivals'), NEW j \in 1..Len(arrivals'),
               arrivals'[i] = arrivals'[j]
        PROVE  i = j
    <3>1. CASE i \in 1..Len(arrivals) /\ j \in 1..Len(arrivals)
      BY <1>1, <2>1, <2>6, <3>1
    <3>2. CASE i \notin 1..Len(arrivals) \/ j \notin 1..Len(arrivals)
      <4>1. ~Arrived(c) /\ \A n \in 1..Len(arrivals') :
                n \notin 1..Len(arrivals) => n = Len(arrivals) + 1 /\ arrivals'[n] = c
        BY <2>1, <3>2
      <4>2. \A n \in 1..Len(arrivals) : arrivals'[n] # c
        BY <2>1, <4>1 DEF Arrived
      <4> QED
        BY <2>6, <3>2, <4>1, <4>2
    <3> QED
      BY <3>1, <3>2
  <2> QED
    BY <1>1, <2>1, <2>5, <2>6 DEF ArrivalsInv
<1>3. ASSUME NEW p \in Pods, Take(p) PROVE ArrivalsInv'
  <2>1. /\ Len(queue') = Len(queue) - 1 /\ Len(queue) \in Nat \ {0}
        /\ \A n \in 1..Len(queue') : queue'[n] = queue[n + 1]
        /\ \A c : ~InHand(c) /\ (InHand(c)' <=> queue[1].coupon = c)
        /\ UNCHANGED <<coupon, arrivals, delayed, orphan>>
    BY <1>3, TakeFromQueue
  <2>2. \A c : Arrived(c)' <=> Arrived(c)
    BY <2>1 DEF Arrived
  <2>3. \A c : Ahead(c, Len(queue))' => Ahead(c, Len(queue))
    <3>1. 1 \in 1..Len(queue) /\ \A n \in 1..Len(queue') : n + 1 \in 1..Len(queue)
      BY <2>1
    <3> QED
      BY <2>1, <3>1 DEF Ahead
  <2>4. \A c \in Coupons : (Ahead(c, Len(queue)) \/ coupon[c].applied)' => Arrived(c)'
    BY <1>1, <2>1, <2>2, <2>3
  <2> QED
    BY <1>1, <2>1, <2>4 DEF ArrivalsInv
<1>4. CASE Onward
  <2>1. /\ \A n \in 1..Len(queue) : queue'[n] = queue[n]
        /\ \A n \in 1..Len(queue') : queue'[n].coupon \in Coupons => n \in 1..Len(queue)
    BY <1>0, <1>4, OnwardQueue
  <2>2. /\ UNCHANGED <<arrivals, orphan>> /\ delayed' \subseteq delayed
        /\ \A p \in Pods : pc'[p] # "idle" => pc[p] # "idle" /\ job'[p] = job[p]
        /\ \A c \in Coupons : coupon'[c].applied => coupon[c].applied \/ InHand(c)
    BY <1>4 DEF Onward
  <2>3. \A c : InHand(c)' => InHand(c)
    BY <2>2 DEF InHand
  <2>4. \A c : Arrived(c)' <=> Arrived(c)
    BY <2>2 DEF Arrived
  <2>5. \A c \in Coupons : Ahead(c, Len(queue))' => Ahead(c, Len(queue))
    BY <2>1, <2>3 DEF Ahead
  <2>6. \A c \in Coupons : (Ahead(c, Len(queue)) \/ coupon[c].applied)' => Arrived(c)'
    BY <1>1, <2>2, <2>4, <2>5 DEF Ahead
  <2> QED
    BY <1>1, <2>2, <2>6 DEF ArrivalsInv
<1> QED
  BY <1>2, <1>3, <1>4, OnwardSteps

LEMMA LineStep ==
  ASSUME OnePod, TypeInv, StatusInv, FreshInv, SlotsInv, CounterInv, HandlerInv, ArrivalsInv,
         LineInv, [Next]_vars
  PROVE  LineInv'
<1> SUFFICES ASSUME faults' = 0 PROVE LineInv'
  BY DEF LineInv
<1>0. QueueOK /\ faults = 0
  BY QuietSteps DEF TypeInv
<1>1. /\ \A a \in Coupons : Arrived(a) /\ ~Settled(a) => Ahead(a, Len(queue))
      /\ \A a, b \in Coupons : Before(a, b) /\ ~Settled(a) =>
           /\ ~coupon[b].applied
           /\ ~InHand(b)
           /\ \A n \in 1..Len(queue) : queue[n].coupon = b => Ahead(a, n - 1)
  BY <1>0 DEF LineInv
<1>2. ASSUME NEW k \in Calls, Enqueue(k) PROVE LineInv'
  <2> DEFINE c == call[k].coupon
  <2>1. /\ c \in Coupons
        /\ Len(queue') = Len(queue) + 1 /\ Len(queue) \in Nat /\ Len(arrivals) \in Nat
        /\ \A n \in 1..Len(queue) : queue'[n] = queue[n]
        /\ queue'[Len(queue) + 1].coupon = c
        /\ \A i \in 1..Len(arrivals) : arrivals'[i] = arrivals[i]
        /\ \/ Arrived(c) /\ Len(arrivals') = Len(arrivals)
           \/ /\ ~Arrived(c) /\ Len(arrivals') = Len(arrivals) + 1
              /\ arrivals'[Len(arrivals) + 1] = c
        /\ \A d \in Coupons : (InHand(d)' <=> InHand(d)) /\ (Settled(d)' <=> Settled(d))
        /\ UNCHANGED <<coupon, delayed, orphan>>
    BY <1>2, EnqueueAtTheEnd
  <2> HIDE DEF c
  <2>2. \A d \in Coupons : Arrived(d)' => Arrived(d) \/ d = c
    BY <2>1 DEF Arrived
  <2>3. ASSUME NEW a \in Coupons, NEW b \in Coupons, Before(a, b)'
        PROVE  Before(a, b) \/ (Arrived(a) /\ b = c /\ ~Arrived(b))
    <3>1. PICK i \in 1..Len(arrivals'), j \in 1..Len(arrivals') :
            i < j /\ arrivals'[i] = a /\ arrivals'[j] = b
      BY <2>3 DEF Before
    <3>2. i \in 1..Len(arrivals) /\ arrivals[i] = a
      BY <2>1, <3>1
    <3>3. CASE j \in 1..Len(arrivals)
      BY <2>1, <3>1, <3>2, <3>3 DEF Before
    <3>4. CASE j \notin 1..Len(arrivals)
      <4>1. b = c /\ ~Arrived(c)
        BY <2>1, <3>1, <3>4
      <4> QED
        BY <3>2, <4>1 DEF Arrived
    <3> QED
      BY <3>3, <3>4
  <2>4. \A d \in Coupons, n \in 0..Len(queue) : Ahead(d, n) => Ahead(d, n)'
    BY <2>1 DEF Ahead
  <2>5. \A d \in Coupons : Ahead(d, Len(queue)) \/ d = c => Ahead(d, Len(queue))'
    <3>1. Len(queue) + 1 \in 1..Len(queue')
      BY <2>1
    <3> QED
      BY <2>1, <3>1 DEF Ahead
  <2>6. ASSUME NEW a \in Coupons, NEW b \in Coupons, Before(a, b)', ~Settled(a)'
        PROVE  /\ ~coupon'[b].applied
               /\ ~InHand(b)'
               /\ \A n \in 1..Len(queue') : queue'[n].coupon = b => Ahead(a, n - 1)'
    <3>1. Arrived(a) /\ ~Settled(a) /\ Ahead(a, Len(queue))
      BY <1>1, <2>1, <2>3, <2>6 DEF Before, Arrived
    <3>2. /\ ~coupon[b].applied /\ ~InHand(b)
          /\ \A n \in 1..Len(queue) : queue[n].coupon = b => Ahead(a, n - 1)
      <4>1. CASE Before(a, b)
        BY <1>1, <3>1, <4>1
      <4>2. CASE ~Arrived(b)
        BY <1>0, <4>2 DEF ArrivalsInv, Ahead
      <4> QED
        BY <2>3, <2>6, <4>1, <4>2
    <3>3. ASSUME NEW n \in 1..Len(queue'), queue'[n].coupon = b PROVE Ahead(a, n - 1)'
      <4>1. CASE n \in 1..Len(queue)
        BY <2>1, <2>4, <3>2, <3>3, <4>1
      <4>2. CASE n = Len(queue) + 1
        BY <2>1, <2>4, <3>1, <4>2
      <4> QED
        BY <2>1, <4>1, <4>2
    <3> QED
      BY <2>1, <3>2, <3>3
  <2>7. \A a \in Coupons : Arrived(a)' /\ ~Settled(a)' => Ahead(a, Len(queue))'
    BY <1>1, <2>1, <2>2, <2>5
  <2> QED
    BY <2>6, <2>7 DEF LineInv
<1>3. ASSUME NEW p \in Pods, Take(p) PROVE LineInv'
  <2>1. /\ Len(queue') = Len(queue) - 1 /\ Len(queue) \in Nat \ {0}
        /\ \A n \in 1..Len(queue') : queue'[n] = queue[n + 1]
        /\ \A c : ~InHand(c) /\ (InHand(c)' <=> queue[1].coupon = c)
        /\ \A c \in Coupons : Settled(c)' <=> Settled(c)
        /\ UNCHANGED <<coupon, arrivals, delayed, orphan>>
    BY <1>3, TakeFromQueue
  <2>2. \A a, b : (Arrived(a)' <=> Arrived(a)) /\ (Before(a, b)' <=> Before(a, b))
    BY <2>1 DEF Arrived, Before
  <2>3. ASSUME NEW c, NEW n \in 1..Len(queue), Ahead(c, n) PROVE Ahead(c, n - 1)'
    <3>1. PICK m \in 1..n : queue[m].coupon = c
      BY <2>1, <2>3 DEF Ahead
    <3>2. CASE m = 1
      BY <2>1, <3>1, <3>2 DEF Ahead
    <3>3. CASE m # 1
      <4>1. /\ m - 1 \in 1..(n - 1) /\ m - 1 \in 1..Len(queue')
            /\ queue'[m - 1] = queue[(m - 1) + 1] /\ (m - 1) + 1 = m
        BY <2>1, <3>3
      <4> QED
        BY <3>1, <4>1 DEF Ahead
    <3> QED
      BY <3>2, <3>3
  <2>4. ASSUME NEW a \in Coupons, NEW b \in Coupons, Before(a, b)', ~Settled(a)'
        PROVE  /\ ~coupon'[b].applied
               /\ ~InHand(b)'
               /\ \A n \in 1..Len(queue') : queue'[n].coupon = b => Ahead(a, n - 1)'
    <3>1. /\ ~coupon[b].applied
          /\ \A n \in 1..Len(queue) : queue[n].coupon = b => Ahead(a, n - 1)
      BY <1>1, <2>1, <2>2, <2>4
    <3>2. queue[1].coupon # b
      <4>1. 1 \in 1..Len(queue) /\ ~Ahead(a, 1 - 1)
        BY <2>1 DEF Ahead
      <4> QED
        BY <3>1, <4>1
    <3>3. ASSUME NEW n \in 1..Len(queue'), queue'[n].coupon = b PROVE Ahead(a, n - 1)'
      <4>1. n + 1 \in 1..Len(queue) /\ queue[n + 1].coupon = b /\ (n + 1) - 1 = n
        BY <2>1, <3>3
      <4>2. Ahead(a, n) /\ n \in 1..Len(queue)
        BY <2>1, <3>1, <4>1
      <4> QED
        BY <2>3, <4>2
    <3> QED
      BY <2>1, <3>1, <3>2, <3>3
  <2>5. ASSUME NEW a \in Coupons, Arrived(a)', ~Settled(a)' PROVE Ahead(a, Len(queue))'
    <3>1. Ahead(a, Len(queue)) /\ Len(queue) \in 1..Len(queue)
      BY <1>1, <2>1, <2>2, <2>5
    <3> QED
      BY <2>1, <2>3, <3>1 DEF Ahead
  <2> QED
    BY <2>4, <2>5 DEF LineInv
<1>4. CASE Onward
  <2>1. /\ Len(queue) \in Nat /\ Len(queue') \in Nat /\ Len(queue) <= Len(queue')
        /\ \A n \in 1..Len(queue) : queue'[n] = queue[n]
        /\ \A n \in 1..Len(queue') : queue'[n].coupon \in Coupons => n \in 1..Len(queue)
    BY <1>0, <1>4, OnwardQueue
  <2>2. /\ UNCHANGED arrivals
        /\ \A p \in Pods : pc'[p] # "idle" => pc[p] # "idle" /\ job'[p] = job[p]
        /\ \A c \in Coupons : InHand(c) => InHand(c)' \/ Settled(c)'
        /\ \A c \in Coupons : coupon'[c].applied => coupon[c].applied \/ InHand(c)
    BY <1>4 DEF Onward
  <2>3. \A c : InHand(c)' => InHand(c)
    BY <2>2 DEF InHand
  <2>4. \A a, b : (Arrived(a)' <=> Arrived(a)) /\ (Before(a, b)' <=> Before(a, b))
    BY <2>2 DEF Arrived, Before
  <2>5. \A c \in Coupons, n \in 0..Len(queue) : Ahead(c, n) /\ ~Settled(c)' => Ahead(c, n)'
    BY <2>1, <2>2 DEF Ahead
  <2>6. \A c \in Coupons : Settled(c) => Settled(c)'
    BY SettledStays
  <2>7. ASSUME NEW a \in Coupons, NEW b \in Coupons, Before(a, b)', ~Settled(a)'
        PROVE  /\ ~coupon'[b].applied
               /\ ~InHand(b)'
               /\ \A n \in 1..Len(queue') : queue'[n].coupon = b => Ahead(a, n - 1)'
    <3>1. /\ ~coupon[b].applied /\ ~InHand(b)
          /\ \A n \in 1..Len(queue) : queue[n].coupon = b => Ahead(a, n - 1)
      BY <1>1, <2>4, <2>6, <2>7
    <3>2. ASSUME NEW n \in 1..Len(queue'), queue'[n].coupon = b PROVE Ahead(a, n - 1)'
      <4>1. n \in 1..Len(queue) /\ queue[n].coupon = b /\ n - 1 \in 0..Len(queue)
        BY <2>1, <3>2
      <4> QED
        BY <2>5, <2>7, <3>1, <4>1
    <3> QED
      BY <2>2, <2>3, <3>1, <3>2
  <2>8. ASSUME NEW a \in Coupons, Arrived(a)', ~Settled(a)' PROVE Ahead(a, Len(queue))'
    <3>1. Ahead(a, Len(queue)) /\ Len(queue) \in 0..Len(queue)
      BY <1>1, <2>1, <2>4, <2>6, <2>8
    <3>2. InHand(a)' \/ \E m \in 1..Len(queue) : queue'[m].coupon = a
      BY <2>1, <2>2, <2>8, <3>1 DEF Ahead
    <3> QED
      BY <2>1, <3>2 DEF Ahead
  <2> QED
    BY <2>7, <2>8 DEF LineInv
<1> QED
  BY <1>2, <1>3, <1>4, OnwardSteps

(***************************************************************************)
(* The invariants of a pod that runs alone, together.                      *)
(***************************************************************************)
QueueInv ==
  /\ TypeInv /\ StatusInv /\ FreshInv /\ WinsInv /\ SlotsInv
  /\ CounterInv /\ HandlerInv /\ ArrivalsInv /\ LineInv

LEMMA InitQueue == Init => QueueInv
<1> SUFFICES ASSUME Init PROVE QueueInv
  OBVIOUS
<1>1. /\ \A p \in Pods : pc[p] = "idle" /\ orphan[p] = None
      /\ Applied = {} /\ Winners = {} /\ Len(queue) = 0 /\ Len(arrivals) = 0 /\ counter = 0
      /\ delayed \subseteq OtherJobs
  BY ConstantJobs DEF Init, Applied, Winners
<1>2. Count = 0 /\ \A u : Wins(u) = 0
  BY <1>1, FS_EmptySet DEF Count, Wins
<1>3. StatusInv /\ HandlerInv
  BY <1>1 DEF StatusInv, Deciding, HandlerInv, Undecided, AfterWin
<1>4. WinsInv
  BY <1>1, <1>2, ConstantsAssumption DEF WinsInv, WinsWithinLimit, Entitled, ConstantsAssumption
<1>5. CounterInv
  BY <1>1, <1>2 DEF CounterInv, AfterWin
<1>6. ArrivalsInv
  BY <1>1 DEF ArrivalsInv, Ahead, InHand, Applied
<1>7. LineInv
  BY <1>1 DEF LineInv, Arrived, Before
<1> QED
  BY <1>3, <1>4, <1>5, <1>6, <1>7, InitTypes, InitFresh, InitSlots DEF QueueInv

LEMMA QueueStep ==
  ASSUME OnePod, QueueInv, [Next]_vars
  PROVE  QueueInv'
BY NextTypes, StatusStep, FreshStep, WinsStep, SlotsStep, CounterStep, HandlerStep, ArrivalsStep,
   LineStep, Zenon
DEF QueueInv

\* Positions in the order of arrival, for coupons instead of indices.
LEMMA FirstServedStep ==
  ASSUME OnePod, QueueInv, FirstComeFirstServed, [Next]_vars
  PROVE  FirstComeFirstServed'
<1> USE DEF QueueInv
<1> SUFFICES ASSUME faults' = 0,
                    NEW i \in 1..Len(arrivals'), NEW j \in 1..Len(arrivals'), i < j,
                    {arrivals'[i], arrivals'[j]} \subseteq Applied'
             PROVE  coupon'[arrivals'[i]].position < coupon'[arrivals'[j]].position
  BY DEF FirstComeFirstServed
<1>0. /\ StoreOK /\ QueueOK /\ MemOK /\ WorkersOK /\ faults = 0 /\ Count \in Nat
      /\ \A n \in 1..Len(arrivals) : arrivals[n] \in Coupons
  BY QuietSteps, CountType, ElementOfSeq DEF TypeInv, QueueOK
<1>1. /\ \A c \in Applied : coupon[c].position <= Count
      /\ \A c \in Applied : Arrived(c)
      /\ \A m, n \in 1..Len(arrivals) : arrivals[m] = arrivals[n] => m = n
      /\ \A a, b \in Coupons : Before(a, b) /\ ~Settled(a) => ~coupon[b].applied
      /\ \A m, n \in 1..Len(arrivals) : m < n /\ {arrivals[m], arrivals[n]} \subseteq Applied
           => coupon[arrivals[m]].position < coupon[arrivals[n]].position
  BY <1>0 DEF CounterInv, ArrivalsInv, LineInv, FirstComeFirstServed, Applied
<1>2. ASSUME NEW p \in Pods, UpdateCoupon(p)
      PROVE  coupon'[arrivals'[i]].position < coupon'[arrivals'[j]].position
  <2> DEFINE c == job[p].coupon
  <2>1. /\ c \in Coupons /\ c \notin Applied /\ Applied' = Applied \cup {c}
        /\ coupon'[c].position = mem[p].position
        /\ \A d \in Coupons : d # c => coupon'[d] = coupon[d]
        /\ arrivals' = arrivals
    BY <1>2, UpdateApplies DEF jobs
  <2>2. mem[p].position = Count + 1
    BY <1>0, <1>2 DEF UpdateCoupon, CounterInv
  <2>3. ~Settled(c)
    BY <1>2, <2>1, UpdateNotDoomed DEF Settled, Applied
  <2> HIDE DEF c
  <2> DEFINE a == arrivals[i]
             b == arrivals[j]
  <2>4. /\ a \in Coupons /\ b \in Coupons /\ Before(a, b) /\ a # b
        /\ a \in Applied \cup {c} /\ b \in Applied \cup {c}
    BY <1>0, <1>1, <2>1 DEF Before
  <2> HIDE DEF a, b
  <2>5. CASE a = c
    <3>1. ~coupon[b].applied
      BY <1>1, <2>3, <2>4, <2>5
    <3> QED
      BY <2>4, <2>5, <3>1 DEF Applied
  <2>6. CASE a # c /\ b = c
    <3>1. coupon[a].position <= Count /\ coupon[a].position \in Int
      BY <1>0, <1>1, <2>4, <2>6 DEF StoreOK, CouponRows
    <3>2. coupon'[a].position < coupon'[b].position
      BY <1>0, <2>1, <2>2, <2>4, <2>6, <3>1
    <3> QED
      BY <2>1, <3>2 DEF a, b
  <2>7. CASE a # c /\ b # c
    <3>1. coupon[a].position < coupon[b].position
      BY <1>1, <2>1, <2>4, <2>7 DEF a, b
    <3>2. coupon'[a].position < coupon'[b].position
      BY <2>1, <2>4, <2>7, <3>1
    <3> QED
      BY <2>1, <3>2 DEF a, b
  <2> QED
    BY <2>5, <2>6, <2>7
<1>3. ASSUME ~ \E p \in Pods : UpdateCoupon(p)
      PROVE  coupon'[arrivals'[i]].position < coupon'[arrivals'[j]].position
  <2>1. /\ Applied' = Applied
        /\ \A c \in Applied : coupon'[c].position = coupon[c].position
    BY <1>3, OnlyUpdateApplies DEF Applied
  <2>2. \A n \in 1..Len(arrivals') : arrivals'[n] \in Applied =>
          n \in 1..Len(arrivals) /\ arrivals'[n] = arrivals[n]
    <3>1. CASE UNCHANGED arrivals
      BY <3>1
    <3>2. ASSUME NEW k \in Calls, Enqueue(k), NEW n \in 1..Len(arrivals'), arrivals'[n] \in Applied
          PROVE  n \in 1..Len(arrivals) /\ arrivals'[n] = arrivals[n]
      BY <1>1, <3>2, EnqueueAtTheEnd
    <3>3. ASSUME NEW p \in Pods, Take(p) PROVE UNCHANGED arrivals
      BY <3>3 DEF Take
    <3> QED
      BY <3>1, <3>2, <3>3, OnwardSteps DEF Onward
  <2>3. /\ i \in 1..Len(arrivals) /\ j \in 1..Len(arrivals)
        /\ arrivals'[i] = arrivals[i] /\ arrivals'[j] = arrivals[j]
        /\ arrivals[i] \in Applied /\ arrivals[j] \in Applied
    BY <2>1, <2>2
  <2>4. coupon[arrivals[i]].position < coupon[arrivals[j]].position
    BY <1>1, <2>3
  <2> QED
    BY <2>1, <2>3, <2>4
<1> QED
  BY <1>2, <1>3

\* With one pod and nothing failing, the coupon whose request was queued first gets the
\* lower position, although requests are validated twice, a coupon may be queued again,
\* and a request that is refused leaves the line.
THEOREM FirstServed ==
  ASSUME OnePod
  PROVE  Spec => []FirstComeFirstServed
<1>1. Init => FirstComeFirstServed
  BY DEF Init, FirstComeFirstServed, Applied
<1>2. QueueInv /\ FirstComeFirstServed /\ [Next]_vars => QueueInv' /\ FirstComeFirstServed'
  BY QueueStep, FirstServedStep
<1> QED
  BY InitQueue, <1>1, <1>2, PTL DEF Spec

(***************************************************************************)
(* The books.  The three writes after a win are bracketed by AfterWin: while*)
(* a handler is there, the session is one coupon behind.                   *)
(***************************************************************************)
Reading == Undecided \cup {"coupon"}

BooksInv == faults = 0 =>
  /\ \A p \in Pods : /\ pc[p] \in Reading \cup AfterWin => mem[p].participants = session.participants
                     /\ pc[p] \in AfterWin => session.participants + 1 = Count
  /\ \A c \in Winners : reward[c] = 1 \/ \E p \in Pods : pc[p] = "reward" /\ job[p].coupon = c
  /\ (\A p \in Pods : pc[p] \notin AfterWin) =>
       /\ session.participants = Count
       /\ MaxSlots > 0 /\ Count = MaxSlots => session.status # "live"

\* The steps before the update and outside apply-coupon keep no books.
LEMMA BooksUntouched ==
  ASSUME OnePod, TypeInv, FreshInv, BooksInv, [Next]_vars, faults = 0, faults' = 0,
         ~ \E p \in Pods : UpdateCoupon(p) \/ CreateReward(p) \/ RecheckWins(p) \/ CloseSession(p)
  PROVE  /\ UNCHANGED reward /\ session'.participants = session.participants
         /\ Count' = Count /\ Winners' = Winners
         /\ \A p \in Pods :
              /\ pc'[p] \in AfterWin <=> pc[p] \in AfterWin
              /\ pc'[p] \in AfterWin => UNCHANGED <<pc[p], job[p], mem[p]>>
              /\ pc'[p] \in Reading => mem'[p].participants = session.participants
<1>0. StoreOK /\ WorkersOK /\ MemOK
  BY DEF TypeInv
<1>q. Background \/ \E p \in Pods : ApplyStep(p) \/ OtherStep(p)
  BY QuietSteps
<1>1. Calm
  BY StepsOfNext
<1>2. Count' = Count /\ Winners' = Winners
  <2>1. Applied' = Applied
    BY OnlyUpdateApplies DEF Applied
  <2> QED
    BY <2>1, WinnersStep DEF Count
<1>3. ASSUME NEW p \in Pods
      PROVE  /\ pc[p] \in AfterWin => pc'[p] \in AfterWin
             /\ pc'[p] \in Reading => mem'[p].participants = session.participants
  <2>1. CASE Background
    BY <2>1, BackgroundCalm DEF AfterWin, Reading, Undecided, BooksInv
  <2>2. ASSUME NEW q \in Pods, ApplyStep(q)
        PROVE  /\ pc[p] \notin AfterWin
               /\ pc'[p] \in Reading => mem'[p].participants = session.participants
    <3>1. p = q /\ pc[q] \notin AfterWin
      BY <2>2 DEF OnePod, ApplyStep, ReadSession, ReadCoupon, CheckWins, CountApplied, GetCounter,
         SetCounter, TakeSlot, RevertCounter, EnqueueExpire, AfterWin
    <3>2. CASE ReadSession(q)
      <4>1. CASE Finish(q)
        BY <4>1, <3>1, FinishOne DEF Reading, Undecided
      <4>2. CASE mem' = [mem EXCEPT ![q].participants = session.participants]
        BY <1>0, <3>1, <4>2 DEF MemOK, Mem
      <4> QED
        BY <3>1, <3>2, <4>1, <4>2 DEF ReadSession
    <3>3. CASE \/ ReadCoupon(q) \/ CheckWins(q) \/ CountApplied(q) \/ GetCounter(q) \/ SetCounter(q)
               \/ TakeSlot(q) \/ RevertCounter(q) \/ EnqueueExpire(q)
      <4>1. CASE Finish(q)
        BY <4>1, <3>1, FinishOne DEF Reading, Undecided
      <4>2. CASE ~Finish(q)
        <5>1. pc[q] \in Reading
          BY <3>3, <4>2 DEF ReadCoupon, CheckWins, CountApplied, GetCounter, SetCounter, TakeSlot,
             RevertCounter, EnqueueExpire, Reading, Undecided
        <5>2. mem'[q].participants = mem[q].participants
          BY <1>0, <3>3, <4>2 DEF ReadCoupon, CheckWins, CountApplied, GetCounter, SetCounter,
             TakeSlot, RefuseFull, RevertCounter, EnqueueExpire, MemOK, Mem
        <5> QED
          BY <3>1, <5>1, <5>2 DEF BooksInv
      <4> QED
        BY <3>1, <4>1, <4>2
    <3> QED
      BY <2>2, <3>1, <3>2, <3>3 DEF ApplyStep
  <2>3. ASSUME NEW q \in Pods, OtherStep(q)
        PROVE  pc[p] \notin AfterWin /\ pc'[p] \notin Reading
    <3>1. p = q /\ pc[q] \notin AfterWin
      BY <2>3 DEF OnePod, OtherStep, ReadStatus, MarkTimeReached, CheckExpirable, FindUnused,
         ExpireBatch, AfterWin
    <3> QED
      BY <2>3, <3>1, OtherTargets DEF Reading, Undecided
  <2> QED
    BY <1>q, <2>1, <2>2, <2>3
<1> QED
  BY <1>1, <1>2, <1>3 DEF Calm

LEMMA BooksStep ==
  ASSUME OnePod, TypeInv, StatusInv, FreshInv, RewardInv, CounterInv, BooksInv, [Next]_vars
  PROVE  BooksInv'
<1> SUFFICES ASSUME faults' = 0 PROVE BooksInv'
  BY DEF BooksInv
<1>0. StoreOK /\ WorkersOK /\ MemOK /\ faults = 0 /\ Count \in Nat
  BY QuietSteps, CountType DEF TypeInv
<1>b. /\ \A p \in Pods :
           /\ pc[p] \in Reading \cup AfterWin => mem[p].participants = session.participants
           /\ pc[p] \in AfterWin => session.participants + 1 = Count
      /\ \A c \in Winners : reward[c] = 1 \/ \E p \in Pods : pc[p] = "reward" /\ job[p].coupon = c
      /\ (\A p \in Pods : pc[p] \notin AfterWin) =>
           /\ session.participants = Count
           /\ MaxSlots > 0 /\ Count = MaxSlots => session.status # "live"
  BY <1>0 DEF BooksInv
<1>1. ASSUME NEW p \in Pods, UpdateCoupon(p) PROVE BooksInv'
  <2> DEFINE c == job[p].coupon
  <2>1. /\ c \in Coupons /\ c \notin Applied
        /\ Applied' = Applied \cup {c} /\ Count' = Count + 1
        /\ coupon'[c].status = IF IsWinner(mem[p].position) THEN "winner" ELSE "applied_late"
        /\ \A d \in Coupons : d # c => coupon'[d] = coupon[d]
        /\ \A q \in Pods : q = p /\ pc'[q] = AfterUpdate(mem[p].position)
        /\ UNCHANGED <<session, reward, mem, job>>
    BY <1>1, UpdateApplies
  <2> HIDE DEF c
  <2>2. \A q \in Pods : pc[q] = "update" /\ pc[q] \in Reading /\ pc[q] \notin AfterWin
    BY <1>1, <2>1 DEF UpdateCoupon, Reading, Undecided, AfterWin
  <2>3. AfterUpdate(mem[p].position) \in AfterWin
    BY DEF AfterUpdate, AfterWin
  <2>4. ASSUME NEW d \in Winners'
        PROVE  reward'[d] = 1 \/ \E q \in Pods : pc'[q] = "reward" /\ job'[q].coupon = d
    <3>1. CASE d = c
      <4>1. IsWinner(mem[p].position)
        BY <2>1, <2>4, <3>1 DEF Winners
      <4> QED
        BY <2>1, <3>1, <4>1 DEF AfterUpdate, c
    <3>2. CASE d # c
      <4>1. d \in Winners
        BY <2>1, <2>4, <3>2 DEF Winners, Applied
      <4> QED
        BY <1>b, <2>1, <2>2, <4>1
    <3> QED
      BY <3>1, <3>2
  <2> QED
    BY <1>b, <2>1, <2>2, <2>3, <2>4 DEF BooksInv
<1>2. ASSUME NEW p \in Pods, CreateReward(p) PROVE BooksInv'
  <2> DEFINE c == job[p].coupon
  <2>1. /\ pc[p] = "reward" /\ c \in Coupons /\ reward[c] = 0
        /\ UNCHANGED <<session, coupon, counter, mem, job>>
    BY <1>0, <1>2, JobCoupon DEF CreateReward, ApplySteps, RewardInv, Goto
  <2>2. reward'[c] = 1 /\ \A d \in Coupons : d # c => reward'[d] = reward[d]
    BY <1>0, <1>2, <2>1 DEF CreateReward, StoreOK
  <2>3. \A q \in Pods : pc'[q] = "rewins" /\ q = p
    BY <1>2, GotoOne DEF CreateReward
  <2>4. Winners' = Winners /\ Count' = Count /\ Winners \subseteq Coupons
    BY <2>1 DEF Winners, Count, Applied
  <2> QED
    BY <1>b, <2>1, <2>2, <2>3, <2>4 DEF BooksInv, AfterWin, Reading, Undecided
<1>3. ASSUME NEW p \in Pods, RecheckWins(p) PROVE BooksInv'
  <2>1. \A q \in Pods : pc'[q] = "close" /\ q = p
    BY <1>3, GotoOne DEF RecheckWins
  <2>2. ~ \E q \in Pods : UpdateCoupon(q)
    BY <1>3, <2>1 DEF RecheckWins, UpdateCoupon
  <2>3. Winners' = Winners /\ Count' = Count
    BY <2>2, WinnersStep, OnlyUpdateApplies DEF Applied, Count
  <2> QED
    BY <1>3, <1>b, <2>1, <2>3 DEF RecheckWins, BooksInv, AfterWin, Reading, Undecided
<1>4. ASSUME NEW p \in Pods, CloseSession(p) PROVE BooksInv'
  <2>1. pc[p] = "close" /\ mem[p].position = Count
    BY <1>0, <1>4 DEF CloseSession, CounterInv, AfterWin
  <2>2. \A q \in Pods : q = p /\ pc'[q] \in {"enqueue", "idle"}
    BY <1>4, GotoOne, FinishOne DEF CloseSession, OnePod
  <2>3. UNCHANGED <<coupon, reward>> /\ Winners' = Winners /\ Count' = Count
    BY <1>4 DEF CloseSession, Winners, Count, Applied
  <2>4. /\ session'.participants = Count
        /\ MaxSlots > 0 /\ Count = MaxSlots => session'.status # "live"
    BY <1>0, <1>4, <1>b, <2>1 DEF CloseSession, CountAfter, LastSlot, StoreOK, AfterWin
  <2> QED
    BY <1>b, <2>1, <2>2, <2>3, <2>4 DEF BooksInv, AfterWin, Reading, Undecided
<1>5. ASSUME ~ \E p \in Pods : \/ UpdateCoupon(p) \/ CreateReward(p)
                               \/ RecheckWins(p) \/ CloseSession(p)
      PROVE  BooksInv'
  <2>1. /\ UNCHANGED reward /\ session'.participants = session.participants
        /\ Count' = Count /\ Winners' = Winners
        /\ \A p \in Pods :
             /\ pc'[p] \in AfterWin <=> pc[p] \in AfterWin
             /\ pc'[p] \in AfterWin => UNCHANGED <<pc[p], job[p], mem[p]>>
             /\ pc'[p] \in Reading => mem'[p].participants = session.participants
    BY <1>0, <1>5, BooksUntouched
  <2>2. session.status # "live" => session'.status # "live"
    BY ClosedStep
  <2>3. \A p \in Pods : pc[p] = "reward" => pc'[p] = "reward" /\ job'[p] = job[p]
    BY <2>1 DEF AfterWin
  <2> QED
    BY <1>b, <2>1, <2>2, <2>3 DEF BooksInv
<1> QED
  BY <1>1, <1>2, <1>3, <1>4, <1>5

\* With one pod and nothing failing, whenever no handler runs every applied coupon is
\* counted in the session, every winner has its reward and a full session is closed.
THEOREM BooksAreBalanced ==
  ASSUME OnePod
  PROVE  Spec => []BooksBalance
<1> DEFINE Inv == QueueInv /\ RewardInv /\ BooksInv
<1>1. Init => Inv
  <2> SUFFICES ASSUME Init PROVE Inv
    OBVIOUS
  <2>1. RewardInv
    BY DEF Init, RewardInv, RewardsSound
  <2>2. Applied = {} /\ Winners = {} /\ session.participants = 0 /\ \A p \in Pods : pc[p] = "idle"
    BY DEF Init, Applied, Winners
  <2>3. Count = 0
    BY <2>2, FS_EmptySet DEF Count
  <2>4. BooksInv
    BY <2>2, <2>3 DEF BooksInv, Reading, Undecided, AfterWin
  <2> QED
    BY <2>1, <2>4, InitQueue
<1>2. Inv /\ [Next]_vars => Inv'
  BY QueueStep, RewardStep, BooksStep DEF QueueInv
<1>3. Inv => BooksBalance
  BY DEF BooksInv, BooksBalance, AfterWin, Count
<1> QED
  BY <1>1, <1>2, <1>3, PTL DEF Spec
=============================================================================
