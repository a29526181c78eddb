---------------------- MODULE CouponApplyContestProofs ----------------------
(***************************************************************************)
(* One worker pod that may crash, in a session with a slot limit, runs the *)
(* contest of SlotContest: every handler finds the Redis counter equal to  *)
(* the number of applied coupons when it asks for a position.              *)
(***************************************************************************)
EXTENDS CouponApplyOnePodProofs

CrashesOnly == Faults \subseteq {"crash"}
Limited     == MaxSlots > 0

\* From the update to the end of the handler.
Ranked == {"reward", "rewins", "close"}

DenseInv ==
  /\ PositionsDense
  /\ \A c, d \in Applied : coupon[c].position = coupon[d].position => c = d
  /\ CompletedMeansFull
  /\ \A p \in Pods :
       /\ pc[p] = "slot" => counter = Count
       /\ pc[p] = "update" => mem[p].position = Count + 1
       /\ pc[p] \in Ranked => mem[p].position = Count

LEMMA NoFailingCalls ==
  ASSUME CrashesOnly, NEW p \in Pods
  PROVE  ~DbFails(p) /\ ~RedisFails(p)
BY DEF CrashesOnly, DbFails, RedisFails, Fault

\* The update puts the coupon behind all the others.
LEMMA UpdateAppends ==
  ASSUME OnePod, TypeInv, FreshInv, DenseInv, NEW p \in Pods, UpdateCoupon(p)
  PROVE  LET c == job[p].coupon IN
         /\ c \in Coupons /\ c \notin Applied
         /\ Applied' = Applied \cup {c}
         /\ Count' = Count + 1
         /\ coupon'[c].position = Count + 1
         /\ \A d \in Applied : coupon'[d].position = coupon[d].position
         /\ \A q \in Pods : pc'[q] \in {"reward", "close"} /\ mem'[q].position = Count + 1
<1> DEFINE c == job[p].coupon
<1>0. StoreOK /\ WorkersOK /\ MemOK
  BY DEF TypeInv
<1>1. c \in Coupons
  BY <1>0, JobCoupon DEF UpdateCoupon, ApplySteps
<1>2. NotYetApplied(c)
  BY DEF UpdateCoupon, NotYetApplied, FreshInv, Undecided
<1>3. mem[p].position = Count + 1
  BY DEF UpdateCoupon, DenseInv
<1>4. Applied' = Applied \cup {c} /\ c \notin Applied
  BY <1>0, <1>1, <1>2 DEF UpdateCoupon, NotYetApplied, Applied, StoreOK, CouponRows
<1>5. Count' = Count + 1
  <2>1. Applied \in SUBSET Coupons
    BY DEF Applied
  <2> QED
    BY <1>1, <1>4, <2>1, OneMoreCoupon DEF Count
<1>6. coupon'[c].position = Count + 1
  BY <1>0, <1>1, <1>2, <1>3 DEF UpdateCoupon, StoreOK, CouponRows
<1>7. \A d \in Applied : coupon'[d].position = coupon[d].position
  BY <1>0, <1>1, <1>4 DEF UpdateCoupon, StoreOK, Applied
<1>8. \A q \in Pods : pc'[q] \in {"reward", "close"}
  <2>1. AfterUpdate(mem[p].position) \in {"reward", "close"}
    BY DEF AfterUpdate
  <2> QED
    BY <1>2, <2>1, GotoOne DEF UpdateCoupon
<1>9. \A q \in Pods : mem'[q].position = Count + 1
  BY <1>3 DEF UpdateCoupon, OnePod
<1> QED
  BY <1>1, <1>4, <1>5, <1>6, <1>7, <1>8, <1>9

\* Every other step leaves positions and their number alone.
LEMMA NothingApplied ==
  ASSUME OnePod, TypeInv, [Next]_vars, ~ \E p \in Pods : UpdateCoupon(p)
  PROVE  /\ Applied' = Applied /\ Count' = Count
         /\ \A c \in Applied : coupon'[c].position = coupon[c].position
<1>1. Applied' = Applied /\ \A c \in Applied : coupon'[c].position = coupon[c].position
  BY OnlyUpdateApplies DEF Applied
<1> QED
  BY <1>1 DEF Count

LEMMA DenseStep ==
  ASSUME OnePod, CrashesOnly, Limited,
         TypeInv, StatusInv, FreshInv, SlotsInv, DenseInv, [Next]_vars
  PROVE  DenseInv'
<1>0. StoreOK /\ WorkersOK /\ MemOK
  BY DEF TypeInv
<1>1. ASSUME NEW p \in Pods, UpdateCoupon(p) PROVE DenseInv'
  <2> DEFINE c == job[p].coupon
  <2>1. /\ c \in Coupons /\ c \notin Applied
        /\ Applied' = Applied \cup {c}
        /\ Count' = Count + 1
        /\ coupon'[c].position = Count + 1
        /\ \A d \in Applied : coupon'[d].position = coupon[d].position
        /\ \A q \in Pods : pc'[q] \in {"reward", "close"} /\ mem'[q].position = Count + 1
    BY <1>1, UpdateAppends
  <2>2. {coupon[d].position : d \in Applied} = 1..Count
    BY DEF DenseInv, PositionsDense, Count
  <2>3. PositionsDense'
    <3>1. {coupon'[d].position : d \in Applied'} = (1..Count) \cup {Count + 1}
      BY <2>1, <2>2
    <3>2. (1..Count) \cup {Count + 1} = 1..(Count + 1)
      BY CountType
    <3> QED
      BY <2>1, <3>1, <3>2 DEF PositionsDense, Count
  <2>4. \A d, e \in Applied' : coupon'[d].position = coupon'[e].position => d = e
    <3>1. \A d \in Applied : coupon[d].position \in 1..Count
      BY <2>2
    <3>2. \A d \in Applied : coupon[d].position # Count + 1
      BY <3>1, CountType
    <3>3. \A d, e \in Applied : coupon[d].position = coupon[e].position => d = e
      BY DEF DenseInv
    <3> QED
      BY <2>1, <3>2, <3>3
  <2>5. CompletedMeansFull'
    BY <1>1 DEF UpdateCoupon, StatusInv, Deciding, CompletedMeansFull
  <2> QED
    BY <2>1, <2>3, <2>4, <2>5 DEF DenseInv, Ranked
<1>2. ASSUME ~ \E p \in Pods : UpdateCoupon(p) PROVE DenseInv'
  <2>1. /\ Applied' = Applied /\ Count' = Count
        /\ \A c \in Applied : coupon'[c].position = coupon[c].position
    BY <1>2, NothingApplied
  <2>2. PositionsDense'
    <3>1. {coupon'[c].position : c \in Applied'} = {coupon[c].position : c \in Applied}
      BY <2>1
    <3> QED
      BY <2>1, <3>1 DEF DenseInv, PositionsDense, Count
  <2>3. \A c, d \in Applied' : coupon'[c].position = coupon'[d].position => c = d
    BY <2>1 DEF DenseInv
  <2>4. ASSUME CompletedMeansFull',
               \A q \in Pods :
                 /\ pc'[q] = "slot" => counter' = Count
                 /\ pc'[q] = "update" => mem'[q].position = Count + 1
                 /\ pc'[q] \in Ranked => mem'[q].position = Count
        PROVE  DenseInv'
    BY <2>1, <2>2, <2>3, <2>4 DEF DenseInv
  <2>5. session'.status = session.status => CompletedMeansFull'
    BY <2>1 DEF DenseInv, CompletedMeansFull, Count
  <2>6. CASE Background
    <3>1. session'.status = session.status /\ counter' = counter /\ mem' = mem
      BY <2>6, BackgroundCalm
    <3>2. \A q \in Pods : pc'[q] \in {"slot", "update"} \cup Ranked => pc'[q] = pc[q]
      BY <2>6, BackgroundCalm DEF Ranked
    <3> QED
      BY <2>4, <2>5, <3>1, <3>2 DEF DenseInv
  <2>7. ASSUME NEW p \in Pods, ApplyStep(p) PROVE DenseInv'
    <3>1. CASE GetCounter(p)
      <4>1. counter \in Int /\ mem[p].count = Count
        BY <1>0, <3>1 DEF GetCounter, SlotsInv, StoreOK
      <4>2. \A q \in Pods : pc'[q] \in {"set", "slot"} /\ (pc'[q] = "slot" => counter = Count)
        BY <3>1, <4>1, GotoOne DEF GetCounter, OutOfSync
      <4>3. counter' = counter /\ session' = session
        BY <3>1 DEF GetCounter, db
      <4> QED
        BY <2>4, <2>5, <4>2, <4>3 DEF Ranked
    <3>2. CASE SetCounter(p)
      <4>1. counter' = Count /\ session' = session
        BY <3>2 DEF SetCounter, SlotsInv, db
      <4>2. \A q \in Pods : pc'[q] = "slot"
        BY <3>2, GotoOne DEF SetCounter
      <4> QED
        BY <2>4, <2>5, <4>1, <4>2 DEF Ranked
    <3>3. CASE TakeSlot(p)
      <4>1. session' = session /\ counter = Count
        BY <3>3 DEF TakeSlot, DenseInv, db
      <4>2. CASE RefuseFull(p)
        <5>1. \A q \in Pods : pc'[q] = "idle"
          BY <4>2, FinishOne DEF RefuseFull
        <5> QED
          BY <2>4, <2>5, <4>1, <5>1 DEF Ranked
      <4>3. CASE mem' = [mem EXCEPT ![p].position = counter + 1] /\ Goto(p, "update")
        <5>1. \A q \in Pods : pc'[q] = "update" /\ q = p
          BY <4>3, GotoOne
        <5>2. mem'[p].position = Count + 1
          BY <1>0, <4>1, <4>3 DEF MemOK, Mem
        <5> QED
          BY <2>4, <2>5, <4>1, <5>1, <5>2 DEF Ranked
      <4> QED
        BY <3>3, <4>2, <4>3 DEF TakeSlot
    <3>4. CASE CreateReward(p) \/ RecheckWins(p)
      <4>1. session' = session /\ mem' = mem /\ pc[p] \in Ranked
        BY <3>4 DEF CreateReward, RecheckWins, Ranked
      <4>2. \A q \in Pods : pc'[q] \in {"rewins", "close"} /\ q = p
        BY <3>4, GotoOne DEF CreateReward, RecheckWins
      <4> QED
        BY <2>4, <2>5, <4>1, <4>2 DEF DenseInv
    <3>5. CASE CloseSession(p)
      <4>1. \A q \in Pods : pc'[q] \in {"enqueue", "idle"}
        BY <3>5, GotoOne, FinishOne DEF CloseSession
      <4>2. session'.status = session.status \/ Count = MaxSlots
        BY <1>0, <3>5 DEF CloseSession, LastSlot, StoreOK, DenseInv, Ranked
      <4>3. CompletedMeansFull'
        BY <2>1, <2>5, <4>2 DEF CompletedMeansFull, Count
      <4> QED
        BY <2>4, <4>1, <4>3 DEF Ranked
    <3>6. CASE \/ ReadSession(p) \/ ReadCoupon(p) \/ CheckWins(p) \/ CountApplied(p)
               \/ RevertCounter(p) \/ EnqueueExpire(p)
      <4>1. session' = session
        BY <3>6 DEF ReadSession, ReadCoupon, CheckWins, CountApplied, RevertCounter,
                    EnqueueExpire, db
      <4>2. \A q \in Pods : pc'[q] \in {"coupon", "wins", "count", "get", "idle"}
        BY <3>6, GotoOne, FinishOne
        DEF ReadSession, ReadCoupon, CheckWins, CountApplied, RevertCounter, EnqueueExpire, Limited
      <4> QED
        BY <2>4, <2>5, <4>1, <4>2 DEF Ranked
    <3> QED
      BY <1>2, <2>7, <3>1, <3>2, <3>3, <3>4, <3>5, <3>6 DEF ApplyStep
  <2>8. ASSUME NEW p \in Pods, OtherStep(p) PROVE DenseInv'
    <3>1. CompletedMeansFull'
      <4>1. CASE MarkTimeReached(p)
        BY <1>0, <4>1 DEF MarkTimeReached, StoreOK, CompletedMeansFull
      <4>2. CASE ~MarkTimeReached(p)
        BY <2>5, <2>8, <4>2
        DEF OtherStep, ReadStatus, CheckExpirable, FindUnused, ExpireBatch, db
      <4> QED
        BY <4>1, <4>2
    <3> QED
      BY <2>4, <2>8, <3>1, OtherTargets DEF Ranked
  <2>9. ASSUME NEW p \in Pods, FaultStep(p) PROVE DenseInv'
    <3>1. Crash(p)
      BY <2>9, NoFailingCalls DEF FaultStep
    <3>2. session' = session /\ \A q \in Pods : pc'[q] = "idle"
      BY <1>0, <3>1 DEF Crash, OnePod, WorkersOK, db
    <3> QED
      BY <2>4, <2>5, <3>2 DEF Ranked
  <2> QED
    BY <2>6, <2>7, <2>8, <2>9, NextSteps
<1> QED
  BY <1>1, <1>2

LEMMA InitDense ==
  ASSUME Limited, Init
  PROVE  DenseInv
<1>1. Applied = {}
  BY DEF Init, Applied
<1>2. Cardinality(Applied) = 0
  BY <1>1, FS_EmptySet
<1>3. {coupon[c].position : c \in Applied} = 1..Cardinality(Applied)
  BY <1>1, <1>2
<1>4. session.status = "live" /\ \A p \in Pods : pc[p] = "idle"
  BY DEF Init
<1> QED
  BY <1>1, <1>3, <1>4 DEF DenseInv, PositionsDense, CompletedMeansFull, Ranked

\* All that one pod keeps true, for the theorems below.
OnePodInv == TypeInv /\ StatusInv /\ FreshInv /\ SlotsInv /\ DenseInv

LEMMA InitOnePod ==
  ASSUME Limited
  PROVE  Init => OnePodInv
<1>1. Init => StatusInv
  BY DEF Init, StatusInv
<1> QED
  BY <1>1, InitTypes, InitFresh, InitSlots, InitDense DEF OnePodInv

LEMMA OnePodStep ==
  ASSUME OnePod, CrashesOnly, Limited
  PROVE  OnePodInv /\ [Next]_vars => OnePodInv'
BY NextTypes, StatusStep, FreshStep, SlotsStep, DenseStep DEF OnePodInv

\* With one pod the positions of the applied coupons are 1..n: a position lost by a
\* crash between the Lua script and the update is given to the next coupon, because
\* the counter sync at apply-coupon.handler.ts:201 runs first.
THEOREM PositionsAreDense ==
  ASSUME OnePod, CrashesOnly, Limited
  PROVE  Spec => []PositionsDense
<1>1. OnePodInv => PositionsDense
  BY DEF OnePodInv, DenseInv
<1> QED
  BY InitOnePod, OnePodStep, <1>1, PTL DEF Spec

\* With one pod a session is COMPLETED only when all of its slots are taken.
THEOREM CompletedIsFull ==
  ASSUME OnePod, CrashesOnly, Limited
  PROVE  Spec => []CompletedMeansFull
<1>1. OnePodInv => CompletedMeansFull
  BY DEF OnePodInv, DenseInv
<1> QED
  BY InitOnePod, OnePodStep, <1>1, PTL DEF Spec

(***************************************************************************)
(* The refinement.  A set of coupons with distinct positions 1..n is a     *)
(* sequence, and the coupon an update applies extends it.                  *)
(***************************************************************************)
ByPosition(A, position) == [i \in 1..Cardinality(A) |-> CHOOSE c \in A : position[c] = i]

RankedBy(A, position) ==
  /\ A \subseteq Coupons
  /\ {position[c] : c \in A} = 1..Cardinality(A)
  /\ \A c, d \in A : position[c] = position[d] => c = d

LEMMA ByPositionIsSeq ==
  ASSUME NEW A, NEW position, RankedBy(A, position)
  PROVE  /\ ByPosition(A, position) \in Seq(Coupons)
         /\ Len(ByPosition(A, position)) = Cardinality(A)
         /\ \A i \in 1..Cardinality(A) :
              /\ ByPosition(A, position)[i] \in A
              /\ \A c \in A : position[c] = i => ByPosition(A, position)[i] = c
<1> DEFINE n == Cardinality(A)
           s == ByPosition(A, position)
<1>1. n \in Nat
  BY CountingCoupons DEF RankedBy
<1>2. \A i \in 1..n : s[i] \in A /\ \A c \in A : position[c] = i => s[i] = c
  <2> SUFFICES ASSUME NEW i \in 1..n
               PROVE  s[i] \in A /\ \A c \in A : position[c] = i => s[i] = c
    OBVIOUS
  <2>1. s[i] = CHOOSE c \in A : position[c] = i
    BY DEF ByPosition
  <2>2. \E c \in A : position[c] = i
    BY DEF RankedBy
  <2>3. s[i] \in A /\ position[s[i]] = i
    BY <2>1, <2>2
  <2> QED
    BY <2>3 DEF RankedBy
<1>3. s \in [1..n -> Coupons]
  <2>1. s = [i \in 1..n |-> CHOOSE c \in A : position[c] = i]
    BY DEF ByPosition
  <2>2. \A i \in 1..n : s[i] \in Coupons
    BY <1>2 DEF RankedBy
  <2> QED
    BY <2>1, <2>2
<1> HIDE DEF n, s
<1>4. s \in Seq(Coupons) /\ Len(s) = n
  BY <1>1, <1>3
<1> QED
  BY <1>2, <1>4 DEF n, s

Position == [c \in Coupons |-> coupon[c].position]

LEMMA RankingByPosition ==
  /\ Ranking = ByPosition(Applied, Position)
  /\ Ranking' = ByPosition(Applied', Position')
<1>1. \A c \in Applied : coupon[c].position = Position[c]
  BY DEF Position, Applied
<1>2. \A c \in Applied' : coupon'[c].position = Position'[c]
  BY DEF Position, Applied
<1> QED
  BY <1>1, <1>2 DEF Ranking, ByPosition

LEMMA DenseIsRanked ==
  ASSUME DenseInv
  PROVE  RankedBy(Applied, Position)
<1>1. \A c \in Applied : coupon[c].position = Position[c]
  BY DEF Position, Applied
<1>2. Applied \subseteq Coupons
  BY DEF Applied
<1> QED
  BY <1>1, <1>2 DEF DenseInv, PositionsDense, RankedBy

LEMMA DenseIsRankedNext ==
  ASSUME DenseInv'
  PROVE  RankedBy(Applied', Position')
<1>1. \A c \in Applied' : coupon'[c].position = Position'[c]
  BY DEF Position, Applied
<1>2. Applied' \subseteq Coupons
  BY DEF Applied
<1> QED
  BY <1>1, <1>2 DEF DenseInv, PositionsDense, RankedBy

LEMMA RankingFacts ==
  ASSUME DenseInv
  PROVE  /\ Ranking \in Seq(Coupons) /\ Len(Ranking) = Count
         /\ \A i \in 1..Count : \E c \in Applied : coupon[c].position = i /\ Ranking[i] = c
<1>1. RankedBy(Applied, Position) /\ \A c \in Applied : Position[c] = coupon[c].position
  BY DenseIsRanked DEF Position, Applied
<1>2. \A i \in 1..Count : \E c \in Applied : Position[c] = i
  BY <1>1 DEF RankedBy, Count
<1> QED
  BY <1>1, <1>2, RankingByPosition, ByPositionIsSeq DEF Count

LEMMA RankingFactsNext ==
  ASSUME DenseInv'
  PROVE  /\ Ranking' \in Seq(Coupons) /\ Len(Ranking') = Count'
         /\ \A c \in Applied' : coupon'[c].position \in 1..Count'
                                /\ Ranking'[coupon'[c].position] = c
<1>1. RankedBy(Applied', Position') /\ \A c \in Applied' : Position'[c] = coupon'[c].position
  BY DenseIsRankedNext DEF Position, Applied
<1>2. \A c \in Applied' : Position'[c] \in 1..Count'
  BY <1>1 DEF RankedBy, Count
<1> QED
  BY <1>1, <1>2, RankingByPosition, ByPositionIsSeq DEF Count

LEMMA RankStep ==
  ASSUME OnePod, Limited, OnePodInv, OnePodInv', NEW p \in Pods, UpdateCoupon(p)
  PROVE  Contest!Rank(job[p].coupon) /\ job[p].coupon \in Coupons
<1> DEFINE c == job[p].coupon
<1>0. TypeInv /\ StatusInv /\ FreshInv /\ SlotsInv /\ DenseInv /\ DenseInv'
  BY DEF OnePodInv
<1>1. /\ c \in Coupons /\ c \notin Applied
      /\ Applied' = Applied \cup {c}
      /\ Count' = Count + 1
      /\ coupon'[c].position = Count + 1
      /\ \A d \in Applied : coupon'[d].position = coupon[d].position
  BY <1>0, UpdateAppends
<1>2. Count \in Nat /\ Count' = Count + 1
  BY <1>1, CountType
<1>3. /\ Ranking \in Seq(Coupons) /\ Len(Ranking) = Count
      /\ \A i \in 1..Count : \E d \in Applied : coupon[d].position = i /\ Ranking[i] = d
  BY <1>0, RankingFacts
<1>4. /\ Ranking' \in Seq(Coupons) /\ Len(Ranking') = Count'
      /\ \A d \in Applied' : Ranking'[coupon'[d].position] = d
  BY <1>0, RankingFactsNext
<1>5. Ranking' = Append(Ranking, c)
  <2>1. Ranking'[Count + 1] = c
    BY <1>1, <1>4
  <2>2. \A i \in 1..Count : Ranking'[i] = Ranking[i]
    BY <1>1, <1>3, <1>4
  <2> DEFINE s == Ranking
             t == Ranking'
  <2>3. /\ s \in Seq(Coupons) /\ Len(s) = Count /\ t \in Seq(Coupons) /\ Len(t) = Count + 1
        /\ t[Count + 1] = c /\ \A i \in 1..Count : t[i] = s[i]
    BY <1>2, <1>3, <1>4, <2>1, <2>2
  <2> HIDE DEF s, t
  <2>4. Append(s, c) \in Seq(Coupons) /\ Len(Append(s, c)) = Len(t)
    BY <1>1, <1>2, <2>3
  <2>5. \A i \in 1..Len(t) : Append(s, c)[i] = t[i]
    BY <1>1, <1>2, <2>3
  <2>6. t = Append(s, c)
    BY <2>3, <2>4, <2>5, SeqEqual
  <2> QED
    BY <2>6 DEF s, t
<1>6. session.status = "live" /\ session' = session
  BY <1>0 DEF UpdateCoupon, StatusInv, Deciding
<1>7. Count + 1 <= MaxSlots
  BY <1>0 DEF UpdateCoupon, SlotsInv, DenseInv, Limited
<1>8. Count # MaxSlots
  BY <1>7, CountType
<1> QED
  BY <1>1, <1>3, <1>5, <1>6, <1>8 DEF Contest!Rank, Contest!Full, Contest!Ranked

LEMMA OtherStepsKeepRanking ==
  ASSUME OnePod, TypeInv, [Next]_vars, ~ \E p \in Pods : UpdateCoupon(p)
  PROVE  Ranking' = Ranking
<1>1. /\ Applied' = Applied
      /\ \A c \in Applied : coupon'[c].position = coupon[c].position
  BY NothingApplied
<1> QED
  BY <1>1 DEF Ranking

LEMMA ContestStep ==
  ASSUME OnePod, CrashesOnly, Limited, OnePodInv, OnePodInv', [Next]_vars
  PROVE  [Contest!Next]_(Contest!vars)
<1>0. TypeInv /\ StatusInv /\ FreshInv /\ SlotsInv /\ DenseInv /\ StoreOK
  BY DEF OnePodInv, TypeInv
<1>1. CASE \E p \in Pods : UpdateCoupon(p)
  BY <1>1, RankStep DEF Contest!Next
<1>2. CASE ~ \E p \in Pods : UpdateCoupon(p)
  <2>1. Ranking' = Ranking
    BY <1>0, <1>2, OtherStepsKeepRanking
  <2>2. session'.status = session.status => UNCHANGED Contest!vars
    BY <2>1 DEF Contest!vars
  <2>3. CASE Background
    BY <1>0, <2>2, <2>3, BackgroundCalm
  <2>4. ASSUME NEW p \in Pods, CloseSession(p), session'.status # session.status
        PROVE  Contest!Complete
    <3>1. session'.status = "completed" /\ mem[p].position = MaxSlots
      BY <1>0, <2>4 DEF CloseSession, LastSlot, StoreOK
    <3>2. session.status = "live" /\ mem[p].position = Count
      BY <1>0, <2>4 DEF CloseSession, StatusInv, Deciding, DenseInv, Ranked
    <3>3. Len(Ranking) = Count
      BY <1>0, RankingFacts
    <3> QED
      BY <2>1, <3>1, <3>2, <3>3 DEF Contest!Complete, Contest!Full, Limited
  <2>5. ASSUME NEW p \in Pods, MarkTimeReached(p) PROVE Contest!TimeUp
    BY <1>0, <2>1, <2>5 DEF MarkTimeReached, StatusInv, Deciding, StoreOK, Contest!TimeUp
  <2>6. ASSUME NEW p \in Pods, ApplyStep(p), ~CloseSession(p) PROVE session' = session
    BY <1>2, <2>6
    DEF ApplyStep, ReadSession, ReadCoupon, CheckWins, CountApplied, GetCounter, SetCounter,
        TakeSlot, RevertCounter, CreateReward, RecheckWins, EnqueueExpire, db
  <2>7. ASSUME NEW p \in Pods, OtherStep(p), ~MarkTimeReached(p) PROVE session' = session
    BY <2>7 DEF OtherStep, ReadStatus, CheckExpirable, FindUnused, ExpireBatch, db
  <2>8. ASSUME NEW p \in Pods, FaultStep(p) PROVE session' = session
    BY <2>8 DEF FaultStep, DbFails, RedisFails, Crash, db
  <2> QED
    BY <2>2, <2>3, <2>4, <2>5, <2>6, <2>7, <2>8, NextSteps DEF Contest!Next
<1> QED
  BY <1>1, <1>2

\* One worker pod that may crash implements the contest: see SlotContest for what
\* that promises to the users of a session.
THEOREM ImplementsContest ==
  ASSUME OnePod, CrashesOnly, Limited
  PROVE  Spec => ContestSpec
<1>1. Init => Contest!Init
  <2> SUFFICES ASSUME Init PROVE Contest!Init
    OBVIOUS
  <2>1. Applied = {}
    BY DEF Init, Applied
  <2>2. Cardinality(Applied) = 0
    BY <2>1, FS_EmptySet
  <2>3. DenseInv
    BY InitDense
  <2>4. Ranking \in Seq(Coupons) /\ Len(Ranking) = 0
    BY <2>2, <2>3, RankingFacts DEF Count
  <2>5. Ranking = <<>>
    BY <2>4
  <2> QED
    BY <2>5 DEF Init, Contest!Init
<1>2. OnePodInv /\ [Next]_vars => OnePodInv'
  BY OnePodStep
<1>3. OnePodInv /\ OnePodInv' /\ [Next]_vars => [Contest!Next]_(Contest!vars)
  BY ContestStep
<1> QED
  BY InitOnePod, <1>1, <1>2, <1>3, PTL DEF Spec, ContestSpec, Contest!Spec
=============================================================================
