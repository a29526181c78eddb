------------------------ MODULE OrphanCouponsProofs ------------------------
(***************************************************************************)
(* Proofs about OrphanCoupons for any coupons, orders, sessions and pods.  *)
(***************************************************************************)
EXTENDS OrphanCoupons, TLAPS, FiniteSetTheorems, SequenceTheorems

(***************************************************************************)
(* Types.  A pod in the loop has a coupon, and from the check to the       *)
(* message it has a session.                                               *)
(***************************************************************************)
LoopSteps   == {"find", "check", "recheck", "assign", "incr", "publish", "refund", "mark"}
AssignSteps == {"check", "recheck", "assign", "incr", "publish"}

LoopOK ==
  \A p \in Pods : /\ pc[p] \in LoopSteps => mem[p].coupon \in Coupons
                  /\ pc[p] \in AssignSteps => mem[p].session \in Sessions
                  /\ pc[p] = "publish" => mem[p].count # 0

TypeInv == TypeOK /\ LoopOK

LEMMA FreshType == Fresh \in Mem
<1>1. <<>> \in Seq(Coupons) /\ 0 \in 0..MaxCoupon /\ 0 \in 0..MaxSession /\ 0 \in Nat
  BY EmptySeq, ConstantsAssumption DEF ConstantsAssumption
<1> QED
  BY <1>1 DEF Fresh, Mem

LEMMA PageUpdateType ==
  ASSUME NEW m \in Mem, NEW t \in Seq(Coupons), NEW k \in Nat
  PROVE  [m EXCEPT !.todo = t, !.skip = k] \in Mem
BY DEF Mem

\* What is listed are orphans, each once in an answer, and so in a page.
Elements(s) == {s[i] : i \in 1..Len(s)}
Once(s)     == \A i, j \in 1..Len(s) : s[i] = s[j] => i = j

LEMMA AnswerType ==
  ASSUME NEW q \in Answers
  PROVE  q \in Seq(Orphans) /\ Len(q) \in 0..MaxCoupon /\ Once(q)
<1> DEFINE n == Cardinality(Orphans)
<1>1. IsFiniteSet(Coupons) /\ Cardinality(Coupons) = MaxCoupon /\ Orphans \in SUBSET Coupons
  BY FS_Interval, ConstantsAssumption DEF Coupons, Orphans, ConstantsAssumption
<1>2. n \in 0..MaxCoupon
  BY <1>1, FS_Subset, FS_CardinalityType, ConstantsAssumption DEF ConstantsAssumption
<1>3. q \in [1..n -> Orphans] /\ \A i, j \in 1..n : i < j => q[i] # q[j]
  BY DEF Answers
<1> HIDE DEF n
<1>4. q \in Seq(Orphans) /\ Len(q) = n
  BY <1>2, <1>3
<1>5. Once(q)
  BY <1>2, <1>3, <1>4 DEF Once
<1> QED
  BY <1>2, <1>4, <1>5

LEMMA PageType ==
  ASSUME NEW q \in Answers, NEW skip \in Nat
  PROVE  /\ Page(q, skip) \in Seq(Coupons) /\ Elements(Page(q, skip)) \subseteq Orphans
         /\ Once(Page(q, skip))
         /\ skip >= MaxCoupon => Page(q, skip) = <<>>
<1> DEFINE k == IF skip + BatchSize <= Len(q) THEN skip + BatchSize ELSE Len(q)
<1>1. BatchSize \in Nat /\ MaxCoupon \in Nat
  BY ConstantsAssumption DEF ConstantsAssumption
<1>2. q \in Seq(Orphans) /\ Len(q) \in 0..MaxCoupon /\ Once(q)
  BY AnswerType
<1>3. k \in Nat /\ k <= Len(q)
  BY <1>1, <1>2
<1>4. Page(q, skip) = SubSeq(q, skip + 1, k)
  BY DEF Page
<1> HIDE DEF k
<1>5. \A i \in (skip + 1)..k : i \in 1..Len(q) /\ q[i] \in Orphans
  BY <1>2, <1>3, ElementOfSeq
<1>6. /\ SubSeq(q, skip + 1, k) \in Seq(Orphans)
      /\ Len(SubSeq(q, skip + 1, k)) = IF skip + 1 <= k THEN k - skip ELSE 0
      /\ \A i \in 1..(k - skip) : SubSeq(q, skip + 1, k)[i] = q[skip + i]
  <2>1. skip + 1 \in Int /\ k \in Int /\ \A i \in (skip + 1)..k : q[i] \in Orphans
    BY <1>3, <1>5
  <2> QED
    BY <2>1, <1>3, SubSeqProperties
<1>7. Page(q, skip) \in Seq(Coupons) /\ Elements(Page(q, skip)) \subseteq Orphans
  BY <1>4, <1>6, SeqMonotonic, ElementOfSeq DEF Elements, Orphans
<1>8. Once(Page(q, skip))
  <2>1. \A i \in 1..Len(Page(q, skip)) :
          Page(q, skip)[i] = q[skip + i] /\ skip + i \in 1..Len(q) /\ i \in Nat
    BY <1>2, <1>3, <1>4, <1>6
  <2>2. \A i, j \in 1..Len(q) : q[i] = q[j] => i = j
    BY <1>2 DEF Once
  <2> QED
    BY <2>1, <2>2 DEF Once
<1>9. skip >= MaxCoupon => Page(q, skip) = <<>>
  BY <1>1, <1>2, <1>3, <1>4, SubSeqEmpty
<1> QED
  BY <1>7, <1>8, <1>9

LEMMA ResetType ==
  ASSUME NEW m \in Mem
  PROVE  [m EXCEPT !.coupon = 0, !.session = 0, !.count = 0] \in Mem
<1>1. 0 \in 0..MaxCoupon /\ 0 \in 0..MaxSession
  BY ConstantsAssumption DEF ConstantsAssumption
<1> QED
  BY <1>1 DEF Mem

LEMMA SessionUpdateType ==
  ASSUME NEW m \in Mem, NEW s \in Sessions
  PROVE  [m EXCEPT !.session = s] \in Mem
<1>1. s \in 0..MaxSession
  BY DEF Sessions
<1> QED
  BY <1>1 DEF Mem

LEMMA RowUpdateType ==
  ASSUME NEW r \in [session: 0..MaxSession, valid: BOOLEAN], NEW s \in Sessions
  PROVE  [r EXCEPT !.session = s] \in [session: 0..MaxSession, valid: BOOLEAN]
<1>1. s \in 0..MaxSession
  BY DEF Sessions
<1> QED
  BY <1>1

LEMMA InitTypes == Init => TypeInv
<1> SUFFICES ASSUME Init PROVE TypeInv
  OBVIOUS
<1>1. chan \in [Pods -> Seq(Message)]
  BY EmptySeq DEF Init
<1>2. made \subseteq Coupons /\ sold \in 0..MaxSold /\ faults \in 0..MaxFaults
  BY ConstantsAssumption DEF Init, ConstantsAssumption
<1>3. mem \in [Pods -> Mem]
  BY FreshType DEF Init
<1>4. coupon \in [Coupons -> [session: 0..MaxSession, valid: BOOLEAN]]
  <2>1. 0 \in 0..MaxSession
    BY ConstantsAssumption DEF ConstantsAssumption
  <2> QED
    BY <2>1 DEF Init
<1> QED
  BY <1>1, <1>2, <1>3, <1>4 DEF Init, TypeInv, TypeOK, SalesOK, LoopOK, LoopSteps, AssignSteps, Steps

(***************************************************************************)
(* Writes that several actions share.                                      *)
(***************************************************************************)
LEMMA CountType ==
  ASSUME SalesOK, NEW s \in Sessions
  PROVE  Count(s) \in Nat
BY DEF SalesOK, Count, NoKey

LEMMA IncrType ==
  ASSUME SalesOK, NEW s \in Sessions, Incr(s)
  PROVE  sales' \in [Sessions -> {NoKey} \cup Nat]
BY CountType DEF Incr, SalesOK

LEMMA PublishType ==
  ASSUME SalesOK, NEW R, NEW s \in Sessions, NEW n \in Nat, n # 0, PublishTo(R, s, n)
  PROVE  chan' \in [Pods -> Seq(Message)]
<1> DEFINE m == [session |-> s, count |-> n]
<1>1. m \in Message
  BY DEF Message
<1>2. ASSUME NEW p \in Pods PROVE Append(chan[p], m) \in Seq(Message)
  BY <1>1, AppendProperties DEF SalesOK
<1> QED
  BY <1>2 DEF PublishTo, SalesOK

LEMMA TailType ==
  ASSUME SalesOK, NEW p \in Pods, chan[p] # <<>>
  PROVE  /\ [chan EXCEPT ![p] = Tail(@)] \in [Pods -> Seq(Message)]
         /\ Head(chan[p]) \in Message
BY HeadTailProperties DEF SalesOK

LEMMA StoreType ==
  ASSUME SalesOK, NEW p \in Pods, HandleSalesUpdate(p) \/ StoreFails(p) \/ Disconnect(p)
  PROVE  SalesOK'
<1>1. CASE HandleSalesUpdate(p)
  <2>1. chan[p] # <<>> /\ Head(chan[p]) \in Message
    BY <1>1, TailType DEF HandleSalesUpdate
  <2> QED
    BY <1>1, <2>1, TailType DEF HandleSalesUpdate, Overwrite, SalesOK, Message
<1>2. CASE StoreFails(p)
  BY <1>2, TailType DEF StoreFails, SalesOK
<1>3. CASE Disconnect(p)
  BY <1>3, EmptySeq DEF Disconnect, SalesOK
<1> QED
  BY <1>1, <1>2, <1>3

LEMMA NextCouponType ==
  ASSUME TypeInv, NEW p \in Pods, NextCoupon(p)
  PROVE  /\ pc' \in [Pods -> Steps] /\ mem' \in [Pods -> Mem]
         /\ LoopOK'
<1>1. mem'[p] \in Mem
  <2>1. mem[p] \in Mem /\ mem'[p] = [mem[p] EXCEPT !.coupon = 0, !.session = 0, !.count = 0]
    BY DEF TypeInv, TypeOK, NextCoupon
  <2> QED
    BY <2>1, ResetType
<1>2. /\ mem' \in [Pods -> Mem] /\ pc' \in [Pods -> Steps]
      /\ pc'[p] = "next" /\ \A q \in Pods \ {p} : mem'[q] = mem[q] /\ pc'[q] = pc[q]
  BY <1>1 DEF TypeInv, TypeOK, NextCoupon, Goto, Steps
<1> QED
  BY <1>2 DEF TypeInv, LoopOK, LoopSteps, AssignSteps

LEMMA ForgetType ==
  ASSUME TypeInv, NEW p \in Pods, Goto(p, "idle"), mem' = [mem EXCEPT ![p] = Fresh]
  PROVE  /\ pc' \in [Pods -> Steps] /\ mem' \in [Pods -> Mem]
         /\ LoopOK'
<1>2. /\ mem' \in [Pods -> Mem] /\ pc' \in [Pods -> Steps]
      /\ pc'[p] = "idle" /\ \A q \in Pods \ {p} : mem'[q] = mem[q] /\ pc'[q] = pc[q]
  BY FreshType DEF TypeInv, TypeOK, Goto, Steps
<1> QED
  BY <1>2 DEF TypeInv, LoopOK, LoopSteps, AssignSteps

LEMMA GotoType ==
  ASSUME TypeInv, NEW p \in Pods, NEW step \in Steps, Goto(p, step), UNCHANGED mem,
         step \in LoopSteps => mem[p].coupon \in Coupons,
         step \in AssignSteps => mem[p].session \in Sessions,
         step = "publish" => mem[p].count # 0
  PROVE  pc' \in [Pods -> Steps] /\ mem' \in [Pods -> Mem] /\ LoopOK'
BY DEF TypeInv, TypeOK, Goto, LoopOK

(***************************************************************************)
(* The steps of a run.                                                     *)
(***************************************************************************)
LEMMA TreatTypes ==
  ASSUME TypeInv, NEW p \in Pods, Start(p) \/ Treat(p)
  PROVE  TypeInv'
<1> USE DEF TypeInv, TypeOK, SalesOK
<1>1. CASE Start(p)
  BY <1>1, GotoType DEF Start, channel, outside, Steps, LoopSteps, AssignSteps
<1>2. CASE ListPage(p)
  <2>1. CASE Goto(p, "next") /\ UNCHANGED mem
    BY <1>2, <2>1, GotoType DEF ListPage, channel, outside, Steps, LoopSteps, AssignSteps
  <2>2. ASSUME NEW q \in Answers, UNCHANGED pc,
               mem' = [mem EXCEPT ![p].todo = @ \o Page(q, mem[p].skip), ![p].skip = @ + BatchSize]
        PROVE  TypeInv'
    <3> DEFINE t == mem[p].todo \o Page(q, mem[p].skip)
               k == mem[p].skip + BatchSize
    <3>1. t \in Seq(Coupons) /\ k \in Nat
      <4>1. mem[p] \in Mem /\ BatchSize \in Nat
        BY ConstantsAssumption DEF ConstantsAssumption
      <4>2. mem[p].todo \in Seq(Coupons) /\ mem[p].skip \in Nat
        BY ONLY <4>1 DEF Mem
      <4>3. Page(q, mem[p].skip) \in Seq(Coupons)
        BY <4>2, PageType
      <4>4. t \in Seq(Coupons)
        BY ONLY <4>2, <4>3, ConcatProperties
      <4> QED
        BY ONLY <4>1, <4>2, <4>4
    <3>2. mem'[p] = [mem[p] EXCEPT !.todo = t, !.skip = k] /\ mem[p] \in Mem
      BY <2>2
    <3> HIDE DEF t, k
    <3>3. mem'[p] \in Mem
      BY ONLY <3>1, <3>2, PageUpdateType
    <3>4. mem' \in [Pods -> Mem] /\ \A r \in Pods \ {p} : mem'[r] = mem[r]
      BY <2>2, <3>3
    <3> QED
      BY <1>2, <2>2, <3>4 DEF ListPage, channel, outside, LoopOK, LoopSteps, AssignSteps
  <2> QED
    BY <1>2, <2>1, <2>2 DEF ListPage
<1>3. CASE NextListed(p)
  <2>1. CASE mem[p].todo = <<>>
    BY <1>3, <2>1, ForgetType DEF NextListed, channel, outside
  <2>2. CASE mem[p].todo # <<>>
    <3> DEFINE t == Tail(mem[p].todo)
               c == Head(mem[p].todo)
    <3>1. t \in Seq(Coupons) /\ c \in Coupons /\ c \in 0..MaxCoupon
      <4>1. mem[p].todo \in Seq(Coupons)
        BY DEF Mem
      <4>2. t \in Seq(Coupons) /\ c \in Coupons
        BY <2>2, <4>1, HeadTailProperties
      <4> QED
        BY <4>2 DEF Coupons
    <3>2. mem' = [mem EXCEPT ![p].todo = Tail(@), ![p].coupon = Head(mem[p].todo)] /\ Goto(p, "find")
      BY <1>3, <2>2 DEF NextListed
    <3>3. mem'[p] = [mem[p] EXCEPT !.todo = t, !.coupon = c] /\ mem[p] \in Mem
      BY <3>2
    <3> HIDE DEF t, c
    <3>4. mem'[p] \in Mem /\ mem'[p].coupon = c
      BY ONLY <3>1, <3>3 DEF Mem
    <3>5. /\ mem' \in [Pods -> Mem] /\ pc' \in [Pods -> Steps] /\ pc'[p] = "find"
          /\ \A r \in Pods \ {p} : mem'[r] = mem[r] /\ pc'[r] = pc[r]
      BY <3>2, <3>4 DEF Goto, Steps
    <3> QED
      BY <1>3, <3>1, <3>4, <3>5 DEF NextListed, channel, outside, LoopOK, LoopSteps, AssignSteps
  <2> QED
    BY <2>1, <2>2
<1>4. CASE SkipTermless(p)
  BY <1>4, NextCouponType DEF SkipTermless, channel, outside
<1>5. CASE FindSession(p)
  <2>1. mem[p].coupon \in Coupons
    BY <1>5 DEF FindSession, LoopOK, LoopSteps
  <2>2. CASE Goto(p, "refund") /\ UNCHANGED mem
    BY <1>5, <2>1, <2>2, GotoType DEF FindSession, channel, outside, Steps, LoopSteps, AssignSteps
  <2>3. ASSUME NEW s \in First(Upcoming),
               Goto(p, "check") /\ mem' = [mem EXCEPT ![p].session = s]
        PROVE  TypeInv'
    <3>1. s \in Sessions
      BY DEF First, Upcoming
    <3>2. mem'[p] \in Mem /\ mem'[p].session = s /\ mem'[p].coupon = mem[p].coupon
      BY <2>3, <3>1, SessionUpdateType DEF Mem
    <3>3. /\ mem' \in [Pods -> Mem] /\ pc' \in [Pods -> Steps] /\ pc'[p] = "check"
          /\ \A q \in Pods \ {p} : mem'[q] = mem[q] /\ pc'[q] = pc[q]
      BY <2>3, <3>2 DEF Goto, Steps
    <3> QED
      BY <1>5, <2>1, <3>1, <3>2, <3>3 DEF FindSession, channel, outside, LoopOK, LoopSteps, AssignSteps
  <2> QED
    BY <1>5, <2>2, <2>3 DEF FindSession
<1>6. CASE CheckSales(p)
  <2>1. mem[p].coupon \in Coupons /\ mem[p].session \in Sessions
    BY <1>6 DEF CheckSales, LoopOK, LoopSteps, AssignSteps
  <2>2. Goto(p, "refund") \/ Goto(p, "recheck")
    BY <1>6 DEF CheckSales
  <2> QED
    BY <1>6, <2>1, <2>2, GotoType DEF CheckSales, channel, outside, Steps, LoopSteps, AssignSteps
<1>7. CASE RecheckSales(p)
  <2>1. mem[p].coupon \in Coupons /\ mem[p].session \in Sessions
    BY <1>7 DEF RecheckSales, LoopOK, LoopSteps, AssignSteps
  <2>2. NextCoupon(p) \/ (Goto(p, "assign") /\ UNCHANGED mem)
    BY <1>7 DEF RecheckSales
  <2> QED
    BY <1>7, <2>1, <2>2, GotoType, NextCouponType
    DEF RecheckSales, channel, outside, Steps, LoopSteps, AssignSteps
<1>8. CASE Assign(p)
  <2>1. mem[p].coupon \in Coupons /\ mem[p].session \in Sessions
    BY <1>8 DEF Assign, LoopOK, LoopSteps, AssignSteps
  <2>2. coupon' \in [Coupons -> [session: 0..MaxSession, valid: BOOLEAN]]
    BY <1>8, <2>1, RowUpdateType DEF Assign, Current
  <2> QED
    BY <1>8, <2>1, <2>2, GotoType DEF Assign, channel, outside, Steps, LoopSteps, AssignSteps
<1>9. CASE CountSale(p)
  <2>1. mem[p].coupon \in Coupons /\ mem[p].session \in Sessions
    BY <1>9 DEF CountSale, LoopOK, LoopSteps, AssignSteps
  <2>2. Count(mem[p].session) + 1 \in Nat \ {0}
    BY <2>1, CountType
  <2>3. /\ mem'[p] \in Mem /\ mem'[p].session = mem[p].session
        /\ mem'[p].coupon = mem[p].coupon /\ mem'[p].count # 0
    BY <1>9, <2>2 DEF CountSale, Mem
  <2>4. /\ mem' \in [Pods -> Mem] /\ pc' \in [Pods -> Steps] /\ pc'[p] = "publish"
        /\ \A q \in Pods \ {p} : mem'[q] = mem[q] /\ pc'[q] = pc[q]
    BY <1>9, <2>3 DEF CountSale, Goto, Steps
  <2>5. LoopOK'
    BY <2>1, <2>3, <2>4 DEF LoopOK, LoopSteps, AssignSteps
  <2>6. sales' \in [Sessions -> {NoKey} \cup Nat] /\ counted' \in [Sessions -> Nat]
    BY <1>9, <2>1, IncrType DEF CountSale
  <2> QED
    BY <1>9, <2>4, <2>5, <2>6 DEF CountSale, outside
<1>10. CASE PublishSale(p)
  <2>1. mem[p].session \in Sessions /\ mem[p].count \in Nat /\ mem[p].count # 0
    BY <1>10 DEF PublishSale, LoopOK, LoopSteps, AssignSteps, Mem
  <2>2. chan' \in [Pods -> Seq(Message)]
    BY <1>10, <2>1, PublishType DEF PublishSale
  <2> QED
    BY <1>10, <2>2, NextCouponType DEF PublishSale, outside
<1>11. CASE RequestRefund(p)
  <2>1. mem[p].coupon \in Coupons
    BY <1>11 DEF RequestRefund, LoopOK, LoopSteps
  <2>2. CASE NextCoupon(p) /\ UNCHANGED refunded
    BY <1>11, <2>2, NextCouponType DEF RequestRefund, channel, outside
  <2>3. CASE /\ OrderOf[mem[p].coupon] \in Payable
             /\ refunded' = refunded \cup {OrderOf[mem[p].coupon]}
             /\ Goto(p, "mark") /\ UNCHANGED mem
    <3>1. refunded' \subseteq Orders
      BY <2>3, ConstantsAssumption DEF ConstantsAssumption
    <3> QED
      BY <1>11, <2>1, <2>3, <3>1, GotoType
      DEF RequestRefund, channel, outside, Steps, LoopSteps, AssignSteps
  <2> QED
    BY <1>11, <2>2, <2>3 DEF RequestRefund, Refundable, Current
<1>12. CASE MarkInvalid(p)
  <2>1. mem[p].coupon \in Coupons
    BY <1>12 DEF MarkInvalid, LoopOK, LoopSteps
  <2>2. coupon' \in [Coupons -> [session: 0..MaxSession, valid: BOOLEAN]]
    BY <1>12, <2>1 DEF MarkInvalid, Current
  <2> QED
    BY <1>12, <2>2, NextCouponType DEF MarkInvalid, channel, outside
<1> QED
  BY <1>1, <1>2, <1>3, <1>4, <1>5, <1>6, <1>7, <1>8, <1>9, <1>10, <1>11, <1>12 DEF Treat

(***************************************************************************)
(* Every other step.                                                       *)
(***************************************************************************)
LEMMA StepTypes == TypeInv /\ [Next]_vars => TypeInv'
<1> SUFFICES ASSUME TypeInv, [Next]_vars PROVE TypeInv'
  OBVIOUS
<1> USE DEF TypeInv, TypeOK
<1>1. CASE UNCHANGED vars
  BY <1>1 DEF vars, channel, outside, worker, LoopOK, SalesOK
<1>2. CASE \E p \in Pods : Start(p) \/ Treat(p)
  BY <1>2, TreatTypes
<1>3. ASSUME NEW p \in Pods, Store(p) PROVE TypeInv'
  BY <1>3, StoreType DEF Store, outside, worker, LoopOK
<1>4. ASSUME NEW p \in Pods, Fail(p) PROVE TypeInv'
  <2>1. Fail(p) => faults' \in 0..MaxFaults
    BY <1>4, ConstantsAssumption
    DEF Fail, DbFails, RedisFails, SubscriberFails, GatewayFails, Crash, Fault, ConstantsAssumption
  <2>2. CASE DbFails(p)
    <3>1. CASE Goto(p, "idle") /\ mem' = [mem EXCEPT ![p] = Fresh]
      BY <1>4, <2>1, <2>2, <3>1, ForgetType DEF DbFails, channel, outside, SalesOK
    <3>2. CASE pc[p] = "find" /\ Goto(p, "refund") /\ UNCHANGED mem
      <4>1. mem[p].coupon \in Coupons
        BY <3>2 DEF LoopOK, LoopSteps
      <4> QED
        BY <1>4, <2>1, <2>2, <3>2, <4>1, GotoType
        DEF DbFails, channel, outside, SalesOK, Steps, LoopSteps, AssignSteps
    <3>3. CASE NextCoupon(p)
      BY <1>4, <2>1, <2>2, <3>3, NextCouponType DEF DbFails, channel, outside, SalesOK
    <3> QED
      BY <2>2, <3>1, <3>2, <3>3 DEF DbFails
  <2>3. CASE RedisFails(p)
    BY <1>4, <2>1, <2>3, NextCouponType DEF RedisFails, channel, outside, SalesOK
  <2>4. CASE SubscriberFails(p)
    BY <1>4, <2>1, <2>4, StoreType DEF SubscriberFails, outside, worker, LoopOK
  <2>5. CASE GatewayFails(p)
    <3>1. refunded' \subseteq Orders
      BY <2>5, ConstantsAssumption DEF GatewayFails, Refundable, ConstantsAssumption
    <3> QED
      BY <1>4, <2>1, <2>5, <3>1, NextCouponType DEF GatewayFails, channel, outside, SalesOK
  <2>6. CASE Crash(p)
    <3>1. SalesOK'
      BY <2>6, EmptySeq DEF Crash, SalesOK
    <3> QED
      BY <1>4, <2>1, <2>6, <3>1, ForgetType DEF Crash, outside
  <2> QED
    BY <1>4, <2>2, <2>3, <2>4, <2>5, <2>6 DEF Fail
<1>5. ASSUME NEW s \in Sessions, Sell(s) \/ Announce(s) \/ Open(s) PROVE TypeInv'
  <2>1. CASE Sell(s)
    <3>1. Count(s) + 1 \in Nat /\ Count(s) + 1 # 0
      BY CountType
    <3>2. SalesOK'
      BY <2>1, <3>1, IncrType, PublishType DEF Sell, SalesOK
    <3>3. sold' \in 0..MaxSold
      BY <2>1, ConstantsAssumption DEF Sell, ConstantsAssumption
    <3> QED
      BY <2>1, <3>2, <3>3 DEF Sell, worker, LoopOK
  <2>2. CASE Announce(s) \/ Open(s)
    BY <2>2 DEF Announce, Open, channel, worker, LoopOK, SalesOK
  <2> QED
    BY <1>5, <2>1, <2>2
<1>6. ASSUME NEW c \in Coupons, Buy(c) PROVE TypeInv'
  BY <1>6 DEF Buy, channel, worker, LoopOK, SalesOK
<1> QED
  BY <1>1, <1>2, <1>3, <1>4, <1>5, <1>6 DEF Next

LEMMA AlwaysTyped == Spec => []TypeInv
BY InitTypes, StepTypes, PTL DEF Spec

\* Every variable keeps its type, whatever fails and however runs overlap.
THEOREM TypeCorrect == Spec => []TypeOK
<1>1. TypeInv => TypeOK
  BY DEF TypeInv
<1> QED
  BY <1>1, AlwaysTyped, PTL

(***************************************************************************)
(* What one step of a pod can do to what the invariants speak of.          *)
(***************************************************************************)
Only(p) == \A q \in Pods \ {p} : pc'[q] = pc[q] /\ mem'[q] = mem[q]

RowsMove(p) ==
  /\ made' = made /\ refunded \subseteq refunded'
  /\ \A c \in Coupons : /\ coupon'[c].session = 0 => coupon[c].session = 0
                        /\ coupon'[c].valid => coupon[c].valid
                        /\ ~coupon'[c].valid => \/ ~coupon[c].valid
                                                \/ pc[p] = "mark" /\ c = mem[p].coupon

\* How a pod gets to "mark".
Arrives(p) ==
  pc'[p] = "mark" => \/ OrderOf[mem'[p].coupon] \in refunded'
                     \/ pc[p] = "mark" /\ mem'[p] = mem[p]

LEMMA NextCouponMoves ==
  ASSUME TypeInv, NEW p \in Pods, NextCoupon(p)
  PROVE  Only(p) /\ pc'[p] = "next"
BY DEF TypeInv, TypeOK, NextCoupon, Goto, Only

LEMMA ForgetMoves ==
  ASSUME TypeInv, NEW p \in Pods, NEW step \in Steps, Goto(p, step), mem' = [mem EXCEPT ![p] = Fresh]
  PROVE  Only(p) /\ pc'[p] = step /\ mem'[p] = Fresh
BY DEF TypeInv, TypeOK, Goto, Only

LEMMA GotoMoves ==
  ASSUME TypeInv, NEW p \in Pods, NEW step \in Steps, Goto(p, step), UNCHANGED mem
  PROVE  Only(p) /\ pc'[p] = step /\ mem'[p] = mem[p]
BY DEF TypeInv, TypeOK, Goto, Only

LEMMA TreatEffects ==
  ASSUME TypeInv, NEW p \in Pods, Start(p) \/ Treat(p)
  PROVE  Only(p) /\ RowsMove(p) /\ Arrives(p)
<1>1. CASE Start(p)
  BY <1>1, GotoMoves DEF Start, outside, RowsMove, Arrives, Steps
<1>2. CASE ListPage(p)
  BY <1>2 DEF ListPage, outside, RowsMove, Arrives, Only, Goto, TypeInv, TypeOK
<1>3. CASE NextListed(p)
  <2>1. CASE mem[p].todo = <<>>
    BY <1>3, <2>1, ForgetMoves DEF NextListed, outside, RowsMove, Arrives, Steps
  <2>2. CASE mem[p].todo # <<>>
    BY <1>3, <2>2 DEF NextListed, outside, RowsMove, Arrives, Only, Goto, TypeInv, TypeOK
  <2> QED
    BY <2>1, <2>2
<1>4. CASE SkipTermless(p)
  BY <1>4, NextCouponMoves DEF SkipTermless, outside, RowsMove, Arrives
<1>5. CASE FindSession(p)
  BY <1>5 DEF FindSession, outside, RowsMove, Arrives, Only, Goto, TypeInv, TypeOK
<1>6. CASE CheckSales(p)
  BY <1>6 DEF CheckSales, outside, RowsMove, Arrives, Only, Goto, TypeInv, TypeOK
<1>7. CASE RecheckSales(p)
  <2>1. Only(p) /\ pc'[p] \in {"next", "assign"}
    BY <1>7, NextCouponMoves, GotoMoves DEF RecheckSales, Steps
  <2> QED
    BY <1>7, <2>1 DEF RecheckSales, outside, RowsMove, Arrives
<1>8. CASE Assign(p)
  <2>1. Only(p) /\ pc'[p] = "incr"
    BY <1>8, GotoMoves DEF Assign, Steps
  <2>2. mem[p].coupon \in Coupons /\ mem[p].session # 0
    BY <1>8 DEF Assign, TypeInv, LoopOK, LoopSteps, AssignSteps, Sessions
  <2>3. coupon' = [coupon EXCEPT ![mem[p].coupon].session = mem[p].session]
    BY <1>8 DEF Assign, Current
  <2>4. RowsMove(p)
    BY <1>8, <2>2, <2>3 DEF Assign, outside, RowsMove, TypeInv, TypeOK
  <2> QED
    BY <2>1, <2>4 DEF Arrives
<1>9. CASE CountSale(p)
  BY <1>9 DEF CountSale, outside, RowsMove, Arrives, Only, Goto, TypeInv, TypeOK
<1>10. CASE PublishSale(p)
  BY <1>10, NextCouponMoves DEF PublishSale, outside, RowsMove, Arrives
<1>11. CASE RequestRefund(p)
  <2>1. CASE NextCoupon(p) /\ UNCHANGED refunded
    BY <1>11, <2>1, NextCouponMoves DEF RequestRefund, outside, RowsMove, Arrives
  <2>2. CASE refunded' = refunded \cup {OrderOf[mem[p].coupon]} /\ Goto(p, "mark") /\ UNCHANGED mem
    <3>1. Only(p) /\ mem'[p] = mem[p]
      BY <2>2, GotoMoves DEF Steps
    <3>2. RowsMove(p) /\ OrderOf[mem[p].coupon] \in refunded'
      BY <1>11, <2>2 DEF RequestRefund, outside, RowsMove
    <3> QED
      BY <1>11, <2>2, <3>1, <3>2 DEF RequestRefund, Arrives, Goto, TypeInv, TypeOK
  <2> QED
    BY <1>11, <2>1, <2>2 DEF RequestRefund, Current
<1>12. CASE MarkInvalid(p)
  <2>1. Only(p) /\ pc'[p] = "next"
    BY <1>12, NextCouponMoves DEF MarkInvalid
  <2>2. RowsMove(p)
    BY <1>12 DEF MarkInvalid, Current, outside, RowsMove, TypeInv, TypeOK, LoopOK, LoopSteps
  <2> QED
    BY <2>1, <2>2 DEF Arrives
<1> QED
  BY <1>1, <1>2, <1>3, <1>4, <1>5, <1>6, <1>7, <1>8, <1>9, <1>10, <1>11, <1>12 DEF Treat

LEMMA FailEffects ==
  ASSUME TypeInv, NEW p \in Pods, Store(p) \/ Fail(p)
  PROVE  Only(p) /\ RowsMove(p) /\ Arrives(p)
<1>1. CASE Store(p)
  BY <1>1 DEF Store, outside, worker, RowsMove, Arrives, Only
<1>2. CASE DbFails(p)
  <2>1. RowsMove(p)
    BY <1>2 DEF DbFails, outside, RowsMove
  <2>2. CASE Goto(p, "idle") /\ mem' = [mem EXCEPT ![p] = Fresh]
    BY <2>1, <2>2, ForgetMoves DEF Arrives, Steps
  <2>3. CASE Goto(p, "refund") /\ UNCHANGED mem
    BY <2>1, <2>3, GotoMoves DEF Arrives, Steps
  <2>4. CASE NextCoupon(p)
    BY <2>1, <2>4, NextCouponMoves DEF Arrives
  <2> QED
    BY <1>2, <2>2, <2>3, <2>4 DEF DbFails
<1>3. CASE RedisFails(p)
  BY <1>3, NextCouponMoves DEF RedisFails, outside, RowsMove, Arrives
<1>4. CASE SubscriberFails(p)
  BY <1>4 DEF SubscriberFails, outside, worker, RowsMove, Arrives, Only
<1>5. CASE GatewayFails(p)
  BY <1>5, NextCouponMoves DEF GatewayFails, outside, RowsMove, Arrives
<1>6. CASE Crash(p)
  BY <1>6, ForgetMoves DEF Crash, outside, RowsMove, Arrives, Steps
<1> QED
  BY <1>1, <1>2, <1>3, <1>4, <1>5, <1>6 DEF Fail

LEMMA OutsideEffects ==
  ASSUME TypeInv, (\E c \in Coupons : Buy(c)) \/ (\E s \in Sessions : Sell(s) \/ Announce(s) \/ Open(s)) \/ UNCHANGED vars
  PROVE  /\ UNCHANGED <<pc, mem, coupon, refunded, counted, faults>>
         /\ made \subseteq made'
BY DEF Buy, Sell, Announce, Open, vars, outside, worker, TypeInv, TypeOK

(***************************************************************************)
(* No coupon is declared invalid without its money.                        *)
(***************************************************************************)
RefundInv ==
  /\ InvalidMeansRefunded
  /\ \A p \in Pods : pc[p] = "mark" => OrderOf[mem[p].coupon] \in refunded

LEMMA StepRefund == TypeInv /\ RefundInv /\ [Next]_vars => RefundInv'
<1> SUFFICES ASSUME TypeInv, RefundInv, [Next]_vars PROVE RefundInv'
  OBVIOUS
<1>1. ASSUME NEW p \in Pods, Start(p) \/ Treat(p) \/ Store(p) \/ Fail(p) PROVE RefundInv'
  <2>1. Only(p) /\ RowsMove(p) /\ Arrives(p)
    BY <1>1, TreatEffects, FailEffects
  <2> QED
    BY <2>1 DEF RefundInv, InvalidMeansRefunded, Only, RowsMove, Arrives
<1>2. CASE (\E c \in Coupons : Buy(c)) \/ (\E s \in Sessions : Sell(s) \/ Announce(s) \/ Open(s)) \/ UNCHANGED vars
  BY <1>2, OutsideEffects DEF RefundInv, InvalidMeansRefunded
<1> QED
  BY <1>1, <1>2 DEF Next

\* Whatever fails and however runs overlap, a coupon is declared invalid by this job only
\* when its payment has been returned.
THEOREM NoneLosesMoney == Spec => []InvalidMeansRefunded
<1>1. Init => RefundInv
  BY DEF Init, RefundInv, InvalidMeansRefunded
<1>2. RefundInv => InvalidMeansRefunded
  BY DEF RefundInv
<1> QED
  BY <1>1, <1>2, StepRefund, AlwaysTyped, PTL DEF Spec

(***************************************************************************)
(* The listing, and how a step moves it: it leaves it and the coupon in    *)
(* hand alone, takes the next coupon, forgets it, or adds a page.          *)
(***************************************************************************)
Busy == {"find", "check", "recheck", "assign", "refund", "mark"}

Keeps(p) ==
  /\ mem'[p].todo = mem[p].todo /\ mem'[p].skip = mem[p].skip
  /\ pc'[p] \in Busy => pc[p] \in Busy /\ mem'[p].coupon = mem[p].coupon
  /\ pc'[p] = "page" => pc[p] \in {"idle", "page"}
  /\ pc'[p] = "idle" => pc[p] = "idle"

Takes(p) ==
  /\ mem[p].todo # <<>> /\ mem'[p].todo = Tail(mem[p].todo)
  /\ mem'[p].coupon = Head(mem[p].todo) /\ pc'[p] = "find"

Forgets(p) == mem'[p] = Fresh /\ pc'[p] = "idle"

Adds(p) ==
  /\ pc[p] = "page" /\ pc'[p] = "page" /\ mem'[p].skip = mem[p].skip + BatchSize
  /\ \E q \in Answers : /\ Page(q, mem[p].skip) # <<>>
                        /\ mem'[p].todo = mem[p].todo \o Page(q, mem[p].skip)

LEMMA NextCouponLists ==
  ASSUME TypeInv, NEW p \in Pods, NextCoupon(p)
  PROVE  Keeps(p) /\ pc'[p] = "next"
<1>1. /\ pc'[p] = "next" /\ mem[p] \in Mem
      /\ mem'[p] = [mem[p] EXCEPT !.coupon = 0, !.session = 0, !.count = 0]
  BY DEF NextCoupon, Goto, TypeInv, TypeOK
<1>2. mem'[p].todo = mem[p].todo /\ mem'[p].skip = mem[p].skip
  BY ONLY <1>1 DEF Mem
<1> QED
  BY <1>1, <1>2 DEF Keeps, Busy

LEMMA GotoLists ==
  ASSUME TypeInv, NEW p \in Pods, NEW step \in Steps, Goto(p, step), UNCHANGED mem,
         step \in Busy => pc[p] \in Busy, step = "page" => pc[p] = "idle", step # "idle"
  PROVE  Keeps(p)
BY DEF Keeps, Goto, TypeInv, TypeOK

LEMMA ForgetLists ==
  ASSUME TypeInv, NEW p \in Pods, Goto(p, "idle"), mem' = [mem EXCEPT ![p] = Fresh]
  PROVE  Forgets(p)
BY DEF Forgets, Goto, TypeInv, TypeOK

LEMMA RunLists ==
  ASSUME TypeInv, NEW p \in Pods, Start(p) \/ Treat(p) \/ Store(p) \/ Fail(p)
  PROVE  Keeps(p) \/ Takes(p) \/ Forgets(p) \/ Adds(p)
<1>0. mem[p] \in Mem
  BY DEF TypeInv, TypeOK
<1>1. CASE Start(p)
  BY <1>1, GotoLists DEF Start, Steps, Busy
<1>2. CASE ListPage(p)
  <2>1. CASE Goto(p, "next") /\ UNCHANGED mem
    BY <1>2, <2>1, GotoLists DEF ListPage, Steps, Busy
  <2>2. ASSUME NEW q \in Answers, UNCHANGED pc, Page(q, mem[p].skip) # <<>>,
               mem' = [mem EXCEPT ![p].todo = @ \o Page(q, mem[p].skip), ![p].skip = @ + BatchSize]
        PROVE  Adds(p)
    <3> DEFINE t == mem[p].todo \o Page(q, mem[p].skip)
               k == mem[p].skip + BatchSize
    <3>1. mem'[p] = [mem[p] EXCEPT !.todo = t, !.skip = k]
      BY <2>2 DEF TypeInv, TypeOK
    <3> HIDE DEF t, k
    <3>2. mem'[p].todo = t /\ mem'[p].skip = k
      BY ONLY <1>0, <3>1 DEF Mem
    <3> QED
      BY <1>2, <2>2, <3>2 DEF ListPage, Adds, t, k
  <2> QED
    BY <1>2, <2>1, <2>2 DEF ListPage
<1>3. CASE NextListed(p)
  <2>1. CASE mem[p].todo = <<>>
    BY <1>3, <2>1, ForgetLists DEF NextListed
  <2>2. CASE mem[p].todo # <<>>
    <3> DEFINE t == Tail(mem[p].todo)
               c == Head(mem[p].todo)
    <3>1. mem'[p] = [mem[p] EXCEPT !.todo = t, !.coupon = c] /\ pc'[p] = "find"
      BY <1>3, <2>2 DEF NextListed, Goto, TypeInv, TypeOK
    <3> HIDE DEF t, c
    <3>2. mem'[p].todo = t /\ mem'[p].coupon = c
      BY ONLY <1>0, <3>1 DEF Mem
    <3> QED
      BY <2>2, <3>1, <3>2 DEF Takes, t, c
  <2> QED
    BY <2>1, <2>2
<1>4. CASE NextCoupon(p)
  BY <1>4, NextCouponLists
<1>5. CASE FindSession(p)
  <2>1. CASE Goto(p, "refund") /\ UNCHANGED mem
    BY <1>5, <2>1, GotoLists DEF FindSession, Steps, Busy
  <2>2. ASSUME NEW s, Goto(p, "check"), mem' = [mem EXCEPT ![p].session = s] PROVE Keeps(p)
    <3>1. mem'[p] = [mem[p] EXCEPT !.session = s] /\ pc'[p] = "check"
      BY <2>2 DEF Goto, TypeInv, TypeOK
    <3>2. /\ mem'[p].todo = mem[p].todo /\ mem'[p].skip = mem[p].skip
          /\ mem'[p].coupon = mem[p].coupon
      BY ONLY <1>0, <3>1 DEF Mem
    <3> QED
      BY <1>5, <3>1, <3>2 DEF FindSession, Keeps, Busy
  <2> QED
    BY <1>5, <2>1, <2>2 DEF FindSession
<1>6. CASE CheckSales(p)
  BY <1>6, GotoLists DEF CheckSales, Steps, Busy
<1>7. CASE RecheckSales(p)
  BY <1>7, <1>4, GotoLists DEF RecheckSales, Steps, Busy
<1>8. CASE Assign(p)
  BY <1>8, GotoLists DEF Assign, Steps, Busy
<1>9. CASE CountSale(p)
  <2>1. pc'[p] = "publish" /\ \E n : mem'[p] = [mem[p] EXCEPT !.count = n]
    BY <1>9 DEF CountSale, Goto, TypeInv, TypeOK
  <2>2. mem'[p].todo = mem[p].todo /\ mem'[p].skip = mem[p].skip
    BY ONLY <1>0, <2>1 DEF Mem
  <2> QED
    BY <2>1, <2>2 DEF Keeps, Busy
<1>10. CASE RequestRefund(p)
  BY <1>10, <1>4, GotoLists DEF RequestRefund, Steps, Busy
<1>11. CASE UNCHANGED worker
  BY <1>11 DEF Keeps, worker
<1>12. CASE DbFails(p)
  BY <1>4, <1>12, ForgetLists, GotoLists DEF DbFails, Steps, Busy
<1>13. CASE Crash(p)
  BY <1>13, ForgetLists DEF Crash
<1> QED
  BY <1>1, <1>2, <1>3, <1>4, <1>5, <1>6, <1>7, <1>8, <1>9, <1>10, <1>11, <1>12, <1>13
     DEF Treat, Fail, SkipTermless, PublishSale, MarkInvalid, Store, RedisFails, SubscriberFails, GatewayFails

LEMMA TailKeepsOnce ==
  ASSUME NEW s \in Seq(Coupons), s # <<>>
  PROVE  /\ Head(s) \in Elements(s) /\ Elements(Tail(s)) \subseteq Elements(s)
         /\ Once(s) => Once(Tail(s)) /\ Head(s) \notin Elements(Tail(s))
<1>1. /\ Tail(s) \in Seq(Coupons) /\ Len(Tail(s)) = Len(s) - 1
      /\ \A i \in 1..Len(Tail(s)) : Tail(s)[i] = s[i + 1]
  BY HeadTailProperties
<1>2. Len(s) \in Nat \ {0} /\ Head(s) = s[1]
  BY EmptySeq
<1>3. Head(s) \in Elements(s) /\ Elements(Tail(s)) \subseteq Elements(s)
  BY <1>1, <1>2 DEF Elements
<1>4. ASSUME Once(s) PROVE Once(Tail(s)) /\ Head(s) \notin Elements(Tail(s))
  <2>1. \A i, j \in 1..(Len(s) - 1) : s[i + 1] = s[j + 1] => i = j
    BY <1>2, <1>4 DEF Once
  <2>2. \A i \in 1..(Len(s) - 1) : s[i + 1] # s[1]
    BY <1>2, <1>4 DEF Once
  <2> QED
    BY <1>1, <1>2, <2>1, <2>2 DEF Once, Elements
<1> QED
  BY <1>3, <1>4

LEMMA ConcatElements ==
  ASSUME NEW s \in Seq(Coupons), NEW t \in Seq(Coupons)
  PROVE  Elements(s \o t) \subseteq Elements(s) \cup Elements(t)
<1>1. /\ Len(s \o t) = Len(s) + Len(t) /\ Len(s) \in Nat /\ Len(t) \in Nat
      /\ \A i \in 1..(Len(s) + Len(t)) : (s \o t)[i] = IF i <= Len(s) THEN s[i] ELSE t[i - Len(s)]
  BY ConcatProperties, LenProperties
<1>2. ASSUME NEW i \in 1..(Len(s) + Len(t))
      PROVE  (s \o t)[i] \in Elements(s) \cup Elements(t)
  <2>1. CASE i <= Len(s)
    BY <1>1, <2>1 DEF Elements
  <2>2. CASE i > Len(s)
    <3>1. i - Len(s) \in 1..Len(t)
      BY <1>1, <2>2
    <3> QED
      BY <1>1, <2>2, <3>1 DEF Elements
  <2> QED
    BY <1>1, <2>1, <2>2
<1> QED
  BY <1>1, <1>2 DEF Elements

(***************************************************************************)
(* No listing repeats a coupon when it takes one page only: the next query *)
(* asks for what is behind all of them.  The second page of a longer one   *)
(* may repeat a coupon of the first.                                       *)
(***************************************************************************)
OnePage == MaxCoupon <= BatchSize

NoRepeats == \A p \in Pods : Once(mem[p].todo)

PageInv ==
  \A p \in Pods : /\ Once(mem[p].todo)
                  /\ pc[p] = "idle" => mem[p].todo = <<>> /\ mem[p].skip = 0
                  /\ pc[p] = "page" => (mem[p].todo = <<>> /\ mem[p].skip = 0) \/ mem[p].skip >= BatchSize

LEMMA EmptyOnce == Once(<<>>) /\ Elements(<<>>) = {} /\ \A t \in Seq(Coupons) : <<>> \o t = t
BY EmptySeq, ConcatEmptySeq DEF Once, Elements

LEMMA StepPage ==
  ASSUME OnePage
  PROVE  TypeInv /\ PageInv /\ [Next]_vars => PageInv'
<1> SUFFICES ASSUME TypeInv, PageInv, [Next]_vars PROVE PageInv'
  OBVIOUS
<1>1. ASSUME NEW p \in Pods, Start(p) \/ Treat(p) \/ Store(p) \/ Fail(p) PROVE PageInv'
  <2>1. Only(p)
    BY <1>1, TreatEffects, FailEffects
  <2>2. /\ Once(mem[p].todo) /\ mem[p].todo \in Seq(Coupons) /\ mem[p].skip \in Nat
        /\ BatchSize \in Nat /\ MaxCoupon \in Nat
    BY ConstantsAssumption DEF PageInv, TypeInv, TypeOK, Mem, ConstantsAssumption
  <2>3. CASE Keeps(p)
    BY <2>1, <2>3 DEF Only, Keeps, PageInv
  <2>4. CASE Takes(p)
    BY <2>1, <2>2, <2>4, TailKeepsOnce DEF Only, Takes, PageInv
  <2>5. CASE Forgets(p)
    <3>1. mem'[p].todo = <<>> /\ mem'[p].skip = 0 /\ pc'[p] = "idle"
      BY <2>5 DEF Forgets, Fresh
    <3> QED
      BY <2>1, <3>1, EmptyOnce DEF Only, PageInv
  <2>6. CASE Adds(p)
    <3>1. PICK q \in Answers : /\ Page(q, mem[p].skip) # <<>>
                               /\ mem'[p].todo = mem[p].todo \o Page(q, mem[p].skip)
      BY <2>6 DEF Adds
    <3>2. mem[p].skip < MaxCoupon
      BY <2>2, <3>1, PageType
    <3>3. mem[p].todo = <<>> /\ mem[p].skip = 0
      BY <2>2, <2>6, <3>2 DEF PageInv, Adds, OnePage
    <3>4. mem'[p].todo = Page(q, mem[p].skip) /\ Once(mem'[p].todo)
      BY <2>2, <3>1, <3>3, EmptyOnce, PageType
    <3>5. pc'[p] = "page" /\ mem'[p].skip >= BatchSize
      BY <2>2, <2>6 DEF Adds
    <3> QED
      BY <2>1, <3>4, <3>5 DEF Only, PageInv
  <2> QED
    BY <1>1, <2>3, <2>4, <2>5, <2>6, RunLists
<1>2. CASE (\E c \in Coupons : Buy(c)) \/ (\E s \in Sessions : Sell(s) \/ Announce(s) \/ Open(s)) \/ UNCHANGED vars
  BY <1>2, OutsideEffects DEF PageInv
<1> QED
  BY <1>1, <1>2 DEF Next

LEMMA OnePageRepeatsNone ==
  ASSUME OnePage
  PROVE  Spec => []NoRepeats
<1>1. Init => PageInv
  <2> SUFFICES ASSUME Init, NEW p \in Pods PROVE mem[p].todo = <<>> /\ mem[p].skip = 0 /\ Once(mem[p].todo)
    BY DEF PageInv
  <2> QED
    BY EmptyOnce DEF Init, Fresh
<1>2. TypeInv /\ PageInv /\ [Next]_vars => PageInv'
  BY StepPage
<1>3. PageInv => NoRepeats
  BY DEF PageInv, NoRepeats
<1> QED
  BY <1>1, <1>2, <1>3, AlwaysTyped, PTL DEF Spec

(***************************************************************************)
(* One pod, and listings that repeat no coupon.  What it has listed, and   *)
(* the coupon it is at, are orphans until it has assigned them or declared *)
(* them invalid itself.                                                    *)
(***************************************************************************)
OnePod == \A p, q \in Pods : p = q

OrphanInv ==
  \A p \in Pods : /\ Elements(mem[p].todo) \subseteq Orphans
                  /\ pc[p] \in Busy => mem[p].coupon \in Orphans \ Elements(mem[p].todo)

\* Only two steps write a coupon's row, and only the row in hand.
Writes(p) == Assign(p) \/ MarkInvalid(p)

LEMMA RunRows ==
  ASSUME TypeInv, NEW p \in Pods, Start(p) \/ Treat(p) \/ Store(p) \/ Fail(p)
  PROVE  /\ ~Writes(p) => coupon' = coupon
         /\ Writes(p) => /\ pc[p] \in Busy /\ pc'[p] \notin Busy /\ mem'[p].todo = mem[p].todo
                         /\ \A c \in Coupons : c # mem[p].coupon => coupon'[c] = coupon[c]
<1>1. ASSUME ~Writes(p) PROVE coupon' = coupon
  BY <1>1 DEF Writes, Start, Treat, ListPage, NextListed, SkipTermless, FindSession, CheckSales,
     RecheckSales, CountSale, PublishSale, RequestRefund, Store, Fail, DbFails, RedisFails,
     SubscriberFails, GatewayFails, Crash
<1>2. CASE Assign(p)
  <2>1. pc[p] \in Busy /\ pc'[p] \notin Busy /\ mem'[p].todo = mem[p].todo
    BY <1>2, GotoMoves DEF Assign, Busy, Steps
  <2>2. coupon' = [coupon EXCEPT ![mem[p].coupon].session = mem[p].session]
    BY <1>2 DEF Assign, Current
  <2> QED
    BY <1>2, <2>1, <2>2 DEF Writes, TypeInv, TypeOK
<1>3. CASE MarkInvalid(p)
  <2>1. pc[p] \in Busy /\ pc'[p] \notin Busy /\ mem'[p].todo = mem[p].todo
    BY <1>3, NextCouponLists DEF MarkInvalid, Keeps, Busy
  <2>2. coupon' = [coupon EXCEPT ![mem[p].coupon].valid = FALSE]
    BY <1>3 DEF MarkInvalid, Current
  <2> QED
    BY <1>3, <2>1, <2>2 DEF Writes, TypeInv, TypeOK
<1> QED
  BY <1>1, <1>2, <1>3 DEF Writes

LEMMA StepOrphan ==
  ASSUME OnePod
  PROVE  TypeInv /\ NoRepeats /\ OrphanInv /\ [Next]_vars => OrphanInv'
<1> SUFFICES ASSUME TypeInv, NoRepeats, OrphanInv, [Next]_vars PROVE OrphanInv'
  OBVIOUS
<1>1. ASSUME NEW p \in Pods, Start(p) \/ Treat(p) \/ Store(p) \/ Fail(p) PROVE OrphanInv'
  <2>1. /\ made' = made /\ Pods = {p} /\ Once(mem[p].todo) /\ mem[p].todo \in Seq(Coupons)
        /\ mem[p].skip \in Nat
    BY <1>1, TreatEffects, FailEffects DEF RowsMove, OnePod, NoRepeats, TypeInv, TypeOK, Mem
  <2>2. CASE ~Writes(p)
    <3>1. Orphans' = Orphans
      BY <1>1, <2>1, <2>2, RunRows DEF Orphans, Orphan
    <3>2. Keeps(p) => OrphanInv'
      BY <2>1, <3>1 DEF OrphanInv, Keeps
    <3>3. Takes(p) => OrphanInv'
      <4>1. SUFFICES ASSUME Takes(p) PROVE OrphanInv'
        OBVIOUS
      <4>2. /\ mem'[p].coupon \in Elements(mem[p].todo) \ Elements(mem'[p].todo)
            /\ Elements(mem'[p].todo) \subseteq Elements(mem[p].todo)
        BY <2>1, <4>1, TailKeepsOnce DEF Takes
      <4> QED
        BY <2>1, <3>1, <4>2 DEF OrphanInv
    <3>4. Forgets(p) => OrphanInv'
      <4>1. Forgets(p) => mem'[p].todo = <<>> /\ pc'[p] \notin Busy
        BY DEF Forgets, Fresh, Busy
      <4> QED
        BY <2>1, <4>1, EmptyOnce DEF OrphanInv
    <3>5. Adds(p) => OrphanInv'
      <4>1. SUFFICES ASSUME Adds(p) PROVE OrphanInv'
        OBVIOUS
      <4>2. PICK q \in Answers : mem'[p].todo = mem[p].todo \o Page(q, mem[p].skip)
        BY <4>1 DEF Adds
      <4>3. Elements(mem'[p].todo) \subseteq Elements(mem[p].todo) \cup Orphans
        BY <2>1, <4>2, PageType, ConcatElements
      <4> QED
        BY <2>1, <3>1, <4>1, <4>3 DEF OrphanInv, Adds, Busy
    <3> QED
      BY <1>1, <3>2, <3>3, <3>4, <3>5, RunLists
  <2>3. CASE Writes(p)
    <3>1. /\ pc[p] \in Busy /\ pc'[p] \notin Busy /\ mem'[p].todo = mem[p].todo
          /\ \A c \in Coupons : c # mem[p].coupon => coupon'[c] = coupon[c]
      BY <1>1, <2>3, RunRows
    <3>2. Orphans \ {mem[p].coupon} \subseteq Orphans'
      BY <2>1, <3>1 DEF Orphans, Orphan
    <3> QED
      BY <2>1, <3>1, <3>2 DEF OrphanInv
  <2> QED
    BY <2>2, <2>3
<1>2. CASE (\E c \in Coupons : Buy(c)) \/ (\E s \in Sessions : Sell(s) \/ Announce(s) \/ Open(s)) \/ UNCHANGED vars
  <2>1. UNCHANGED <<pc, mem, coupon>> /\ made \subseteq made'
    BY <1>2, OutsideEffects
  <2>2. Orphans \subseteq Orphans'
    BY <2>1 DEF Orphans, Orphan
  <2> QED
    BY <2>1, <2>2 DEF OrphanInv
<1> QED
  BY <1>1, <1>2 DEF Next

LEMMA InitOrphan == Init => OrphanInv
<1> SUFFICES ASSUME Init, NEW p \in Pods PROVE mem[p].todo = <<>> /\ pc[p] = "idle"
  BY EmptyOnce DEF OrphanInv, Busy
<1> QED
  BY DEF Init, Fresh

LEMMA AlwaysOrphan ==
  ASSUME OnePod
  PROVE  Spec /\ []NoRepeats => [](TypeInv /\ OrphanInv)
<1>1. TypeInv /\ NoRepeats /\ OrphanInv /\ [Next]_vars => OrphanInv'
  BY StepOrphan
<1> QED
  BY <1>1, InitOrphan, InitTypes, StepTypes, PTL DEF Spec

(***************************************************************************)
(* The assignments, and the runs that are about to count one.              *)
(***************************************************************************)
LEMMA AssignedFinite ==
  ASSUME NEW s
  PROVE  IsFiniteSet(AssignedTo(s)) /\ Cardinality(AssignedTo(s)) \in Nat
<1>1. IsFiniteSet(Coupons) /\ AssignedTo(s) \in SUBSET Coupons
  BY FS_Interval, ConstantsAssumption DEF Coupons, AssignedTo, ConstantsAssumption
<1> QED
  BY <1>1, FS_Subset, FS_CardinalityType

LEMMA AtMostOneMore ==
  ASSUME NEW S, NEW x, IsFiniteSet(S)
  PROVE  /\ IsFiniteSet(S \cup {x}) /\ Cardinality(S \cup {x}) \in Nat
         /\ Cardinality(S \cup {x}) <= Cardinality(S) + 1
<1>1. /\ IsFiniteSet(S \cup {x}) /\ Cardinality(S) \in Nat
      /\ Cardinality(S \cup {x}) = IF x \in S THEN Cardinality(S) ELSE Cardinality(S) + 1
  BY FS_AddElement, FS_CardinalityType
<1> QED
  BY <1>1

\* An assignment adds its run to those that count.
LEMMA AssignCounts ==
  ASSUME TypeInv, NEW p \in Pods, Assign(p), NEW s \in Sessions, IsFiniteSet(Counting(s))
  PROVE  LET c == mem[p].coupon IN
         /\ c \in Coupons /\ counted' = counted /\ faults' = faults /\ IsFiniteSet(Counting(s)')
         /\ \A d \in Coupons \ {c} : coupon'[d] = coupon[d]
         /\ coupon'[c].session = mem[p].session
         /\ Cardinality(Counting(s)') = Cardinality(Counting(s)) + (IF s = mem[p].session THEN 1 ELSE 0)
<1> DEFINE c == mem[p].coupon
           x == mem[p].session
<1>1. /\ counted' = counted /\ faults' = faults /\ mem' = mem /\ pc[p] = "assign" /\ pc'[p] = "incr"
      /\ \A q \in Pods \ {p} : pc'[q] = pc[q]
      /\ coupon' = [coupon EXCEPT ![c].session = x] /\ c \in Coupons
  BY DEF Assign, Current, Goto, TypeInv, TypeOK, LoopOK, LoopSteps
<1>2. (\A d \in Coupons \ {c} : coupon'[d] = coupon[d]) /\ coupon'[c].session = x
  BY <1>1 DEF TypeInv, TypeOK
<1>3. Counting(s)' = (IF s = x THEN Counting(s) \cup {p} ELSE Counting(s)) /\ p \notin Counting(s)
  BY <1>1 DEF Counting
<1>4. /\ IsFiniteSet(Counting(s) \cup {p})
      /\ p \notin Counting(s) => Cardinality(Counting(s) \cup {p}) = Cardinality(Counting(s)) + 1
  BY FS_AddElement
<1>5. Cardinality(Counting(s)) \in Nat
  BY FS_CardinalityType
<1> QED
  BY <1>1, <1>2, <1>3, <1>4, <1>5

\* An increment takes it away again.
LEMMA IncrementCounts ==
  ASSUME TypeInv, NEW p \in Pods, CountSale(p), NEW s \in Sessions, IsFiniteSet(Counting(s))
  PROVE  /\ coupon' = coupon /\ faults' = faults /\ IsFiniteSet(Counting(s)')
         /\ counted'[s] + Cardinality(Counting(s)') = counted[s] + Cardinality(Counting(s))
<1> DEFINE x == mem[p].session
<1>1. /\ coupon' = coupon /\ faults' = faults /\ pc[p] = "incr" /\ pc'[p] = "publish"
      /\ counted' = [counted EXCEPT ![x] = @ + 1] /\ counted[s] \in Nat
      /\ \A q \in Pods \ {p} : pc'[q] = pc[q] /\ mem'[q] = mem[q]
  BY DEF CountSale, Goto, TypeInv, TypeOK
<1>2. counted'[s] = IF s = x THEN counted[s] + 1 ELSE counted[s]
  BY <1>1 DEF TypeInv, TypeOK
<1>3. Counting(s)' = (IF s = x THEN Counting(s) \ {p} ELSE Counting(s)) /\ (s = x => p \in Counting(s))
  BY <1>1 DEF Counting
<1>4. /\ IsFiniteSet(Counting(s) \ {p})
      /\ p \in Counting(s) => Cardinality(Counting(s) \ {p}) = Cardinality(Counting(s)) - 1
  BY FS_RemoveElement
<1>5. Cardinality(Counting(s)) \in Nat
  BY FS_CardinalityType
<1> QED
  BY <1>1, <1>2, <1>3, <1>4, <1>5

\* The steps that neither assign nor count.
LEMMA OthersCount ==
  ASSUME TypeInv, NEW p \in Pods, Start(p) \/ Treat(p) \/ Store(p), ~Assign(p), ~CountSale(p)
  PROVE  /\ UNCHANGED <<counted, faults>> /\ \A c \in Coupons : coupon'[c].session = coupon[c].session
         /\ (pc[p] # "incr" /\ pc'[p] # "incr") \/ UNCHANGED worker
<1>1. ASSUME NextCoupon(p) PROVE pc'[p] = "next"
  BY <1>1, NextCouponMoves
<1>2. CASE MarkInvalid(p)
  BY <1>1, <1>2 DEF MarkInvalid, TypeInv, TypeOK
<1>3. CASE ~MarkInvalid(p)
  <2>1. UNCHANGED <<coupon, counted, faults>>
    BY <1>3 DEF Start, Treat, ListPage, NextListed, SkipTermless, FindSession, CheckSales,
                RecheckSales, PublishSale, RequestRefund, Store
  <2>2. CASE Store(p)
    BY <2>1, <2>2 DEF Store
  <2>3. CASE ~Store(p)
    <3>1. pc[p] # "incr"
      BY <1>3, <2>3 DEF Start, Treat, ListPage, NextListed, SkipTermless, FindSession, CheckSales,
                        RecheckSales, PublishSale, RequestRefund
    <3>2. pc' = pc \/ NextCoupon(p)
          \/ \E step \in {"page", "next", "idle", "find", "refund", "check", "recheck", "assign", "mark"} :
               Goto(p, step)
      BY <1>3, <2>3 DEF Start, Treat, ListPage, NextListed, SkipTermless, FindSession, CheckSales,
                        RecheckSales, PublishSale, RequestRefund
    <3> QED
      BY <1>1, <2>1, <3>1, <3>2 DEF Goto, TypeInv, TypeOK
  <2> QED
    BY <2>2, <2>3
<1> QED
  BY <1>2, <1>3

LEMMA OthersKeepCounting ==
  ASSUME TypeInv, NEW s,
         \/ \E p \in Pods : (Start(p) \/ Treat(p) \/ Store(p)) /\ ~Assign(p) /\ ~CountSale(p)
         \/ \E c \in Coupons : Buy(c)
         \/ \E x \in Sessions : Sell(x) \/ Announce(x) \/ Open(x)
         \/ UNCHANGED vars
  PROVE  UNCHANGED <<counted, faults>> /\ Counting(s)' = Counting(s) /\ AssignedTo(s)' = AssignedTo(s)
<1>1. ASSUME NEW p \in Pods, Start(p) \/ Treat(p) \/ Store(p), ~Assign(p), ~CountSale(p)
      PROVE  UNCHANGED <<counted, faults>> /\ Counting(s)' = Counting(s) /\ AssignedTo(s)' = AssignedTo(s)
  <2>1. Only(p)
    BY <1>1, TreatEffects, FailEffects
  <2> QED
    BY <1>1, <2>1, OthersCount DEF Counting, AssignedTo, Only, worker
<1>2. CASE \/ \E c \in Coupons : Buy(c)
           \/ \E x \in Sessions : Sell(x) \/ Announce(x) \/ Open(x)
           \/ UNCHANGED vars
  BY <1>2, OutsideEffects DEF Counting, AssignedTo
<1> QED
  BY <1>1, <1>2

LEMMA FailCounts ==
  ASSUME TypeInv, NEW p \in Pods, Fail(p)
  PROVE  faults' # 0
BY DEF Fail, DbFails, RedisFails, SubscriberFails, GatewayFails, Crash, Fault, TypeInv, TypeOK

(***************************************************************************)
(* No assignment stays uncounted, with any number of pods and any listing: *)
(* a run gives its session at most one coupon more, and counts one.        *)
(***************************************************************************)
UncountedInv ==
  faults = 0 => \A s \in Sessions :
    /\ IsFiniteSet(Counting(s))
    /\ Cardinality(AssignedTo(s)) <= counted[s] + Cardinality(Counting(s))

LEMMA StepUncounted == TypeInv /\ UncountedInv /\ [Next]_vars => UncountedInv'
<1> SUFFICES ASSUME TypeInv, UncountedInv, [Next]_vars, faults' = 0, NEW s \in Sessions
             PROVE  /\ IsFiniteSet(Counting(s)')
                    /\ Cardinality(AssignedTo(s)') <= counted'[s] + Cardinality(Counting(s)')
  BY DEF UncountedInv
<1>0. faults = 0 => /\ IsFiniteSet(Counting(s)) /\ Cardinality(Counting(s)) \in Nat
                    /\ Cardinality(AssignedTo(s)) <= counted[s] + Cardinality(Counting(s))
                    /\ Cardinality(AssignedTo(s)) \in Nat /\ counted[s] \in Nat
  BY FS_CardinalityType, AssignedFinite DEF UncountedInv, TypeInv, TypeOK
<1>1. ASSUME NEW p \in Pods, Assign(p)
      PROVE  /\ IsFiniteSet(Counting(s)')
             /\ Cardinality(AssignedTo(s)') <= counted'[s] + Cardinality(Counting(s)')
  <2> DEFINE c == mem[p].coupon
             x == mem[p].session
  <2>1. faults = 0
    BY <1>1 DEF Assign
  <2>2. /\ c \in Coupons /\ counted' = counted /\ IsFiniteSet(Counting(s)')
        /\ \A d \in Coupons \ {c} : coupon'[d] = coupon[d]
        /\ coupon'[c].session = x
        /\ Cardinality(Counting(s)') = Cardinality(Counting(s)) + (IF s = x THEN 1 ELSE 0)
    BY <1>0, <1>1, <2>1, AssignCounts
  <2>3. AssignedTo(s)' \in SUBSET (IF s = x THEN AssignedTo(s) \cup {c} ELSE AssignedTo(s))
    BY <2>2 DEF AssignedTo
  <2>4. /\ IsFiniteSet(AssignedTo(s)) /\ IsFiniteSet(AssignedTo(s) \cup {c})
        /\ Cardinality(AssignedTo(s) \cup {c}) <= Cardinality(AssignedTo(s)) + 1
    <3>1. IsFiniteSet(AssignedTo(s))
      BY AssignedFinite
    <3> QED
      BY <3>1, AtMostOneMore
  <2>5. Cardinality(AssignedTo(s)') \in Nat /\ Cardinality(AssignedTo(s) \cup {c}) \in Nat
    <3>1. IsFiniteSet(AssignedTo(s)')
      BY <2>3, <2>4, FS_Subset
    <3> QED
      BY <2>4, <3>1, FS_CardinalityType
  <2>6. Cardinality(AssignedTo(s)') <= Cardinality(AssignedTo(s)) + (IF s = x THEN 1 ELSE 0)
    <3>1. CASE s = x
      <4>1. Cardinality(AssignedTo(s)') <= Cardinality(AssignedTo(s) \cup {c})
        BY <2>3, <2>4, <3>1, FS_Subset
      <4> QED
        BY <1>0, <2>1, <2>4, <2>5, <3>1, <4>1
    <3>2. CASE s # x
      <4>1. Cardinality(AssignedTo(s)') <= Cardinality(AssignedTo(s))
        BY <2>3, <2>4, <3>2, FS_Subset
      <4> QED
        BY <1>0, <2>1, <2>5, <3>2, <4>1
    <3> QED
      BY <3>1, <3>2
  <2> QED
    BY <1>0, <2>1, <2>2, <2>5, <2>6
<1>2. ASSUME NEW p \in Pods, CountSale(p)
      PROVE  /\ IsFiniteSet(Counting(s)')
             /\ Cardinality(AssignedTo(s)') <= counted'[s] + Cardinality(Counting(s)')
  <2>1. faults = 0
    BY <1>2 DEF CountSale
  <2>2. /\ coupon' = coupon /\ IsFiniteSet(Counting(s)')
        /\ counted'[s] + Cardinality(Counting(s)') = counted[s] + Cardinality(Counting(s))
    BY <1>0, <1>2, <2>1, IncrementCounts
  <2>3. AssignedTo(s)' = AssignedTo(s)
    BY <2>2 DEF AssignedTo
  <2> QED
    BY <1>0, <2>1, <2>2, <2>3
<1>3. CASE \/ \E p \in Pods : (Start(p) \/ Treat(p) \/ Store(p)) /\ ~Assign(p) /\ ~CountSale(p)
           \/ \E c \in Coupons : Buy(c)
           \/ \E x \in Sessions : Sell(x) \/ Announce(x) \/ Open(x)
           \/ UNCHANGED vars
  BY <1>0, <1>3, OthersKeepCounting
<1>4. ASSUME NEW p \in Pods, Fail(p) PROVE FALSE
  BY <1>4, FailCounts
<1> QED
  BY <1>1, <1>2, <1>3, <1>4 DEF Next

LEMMA NoneCounting ==
  ASSUME Init, NEW s \in Sessions
  PROVE  /\ IsFiniteSet(Counting(s)) /\ Cardinality(Counting(s)) = 0
         /\ Cardinality(AssignedTo(s)) = 0 /\ counted[s] = 0
<1>1. AssignedTo(s) = {} /\ Counting(s) = {} /\ counted[s] = 0
  BY DEF Init, AssignedTo, Counting, Sessions
<1> QED
  BY <1>1, FS_EmptySet

\* However many pods treat the same coupon and however often a listing shows it, without
\* faults the sales of a session are never behind the coupons this job gave it.
THEOREM NoneUncounted == Spec => []NoAssignmentUncounted
<1>1. Init => UncountedInv
  BY NoneCounting DEF UncountedInv
<1>2. UncountedInv => NoAssignmentUncounted
  BY DEF UncountedInv, NoAssignmentUncounted
<1> QED
  BY <1>1, <1>2, StepUncounted, AlwaysTyped, PTL DEF Spec

(***************************************************************************)
(* With one pod and no repeats each is counted once: the coupon in hand    *)
(* has no session yet.                                                     *)
(***************************************************************************)
LEMMA StepCounted ==
  ASSUME OnePod
  PROVE  TypeInv /\ OrphanInv /\ UncountedInv /\ CountsEveryAssignment /\ [Next]_vars => CountsEveryAssignment'
<1> SUFFICES ASSUME TypeInv, OrphanInv, UncountedInv, CountsEveryAssignment, [Next]_vars,
                    faults' = 0, NEW s \in Sessions
             PROVE  Cardinality(AssignedTo(s)') = counted'[s] + Cardinality(Counting(s)')
  BY DEF CountsEveryAssignment
<1>0. faults = 0 => /\ IsFiniteSet(Counting(s)) /\ Cardinality(Counting(s)) \in Nat
                    /\ Cardinality(AssignedTo(s)) = counted[s] + Cardinality(Counting(s))
                    /\ Cardinality(AssignedTo(s)) \in Nat /\ counted[s] \in Nat
  BY FS_CardinalityType, AssignedFinite DEF UncountedInv, CountsEveryAssignment, TypeInv, TypeOK
<1>1. ASSUME NEW p \in Pods, Assign(p)
      PROVE  Cardinality(AssignedTo(s)') = counted'[s] + Cardinality(Counting(s)')
  <2> DEFINE c == mem[p].coupon
             x == mem[p].session
  <2>1. faults = 0 /\ pc[p] = "assign"
    BY <1>1 DEF Assign
  <2>2. /\ c \in Coupons /\ counted' = counted
        /\ \A d \in Coupons \ {c} : coupon'[d] = coupon[d]
        /\ coupon'[c].session = x
        /\ Cardinality(Counting(s)') = Cardinality(Counting(s)) + (IF s = x THEN 1 ELSE 0)
    BY <1>0, <1>1, <2>1, AssignCounts
  <2>3. s # 0 /\ c \notin AssignedTo(s)
    BY <2>1 DEF OrphanInv, Busy, Orphans, Orphan, AssignedTo, Sessions
  <2>4. AssignedTo(s)' = IF s = x THEN AssignedTo(s) \cup {c} ELSE AssignedTo(s)
    BY <2>2, <2>3 DEF AssignedTo
  <2>5. Cardinality(AssignedTo(s) \cup {c}) = Cardinality(AssignedTo(s)) + 1
    BY <2>3, AssignedFinite, FS_AddElement
  <2> QED
    BY <1>0, <2>1, <2>2, <2>4, <2>5
<1>2. ASSUME NEW p \in Pods, CountSale(p)
      PROVE  Cardinality(AssignedTo(s)') = counted'[s] + Cardinality(Counting(s)')
  <2>1. faults = 0
    BY <1>2 DEF CountSale
  <2>2. /\ coupon' = coupon
        /\ counted'[s] + Cardinality(Counting(s)') = counted[s] + Cardinality(Counting(s))
    BY <1>0, <1>2, <2>1, IncrementCounts
  <2>3. AssignedTo(s)' = AssignedTo(s)
    BY <2>2 DEF AssignedTo
  <2> QED
    BY <1>0, <2>1, <2>2, <2>3
<1>3. CASE \/ \E p \in Pods : (Start(p) \/ Treat(p) \/ Store(p)) /\ ~Assign(p) /\ ~CountSale(p)
           \/ \E c \in Coupons : Buy(c)
           \/ \E x \in Sessions : Sell(x) \/ Announce(x) \/ Open(x)
           \/ UNCHANGED vars
  BY <1>0, <1>3, OthersKeepCounting
<1>4. ASSUME NEW p \in Pods, Fail(p) PROVE FALSE
  BY <1>4, FailCounts
<1> QED
  BY <1>1, <1>2, <1>3, <1>4 DEF Next

LEMMA CountedUnlessRepeated ==
  ASSUME OnePod
  PROVE  Spec /\ []NoRepeats => []CountsEveryAssignment
<1>1. Init => UncountedInv /\ CountsEveryAssignment
  BY NoneCounting DEF UncountedInv, CountsEveryAssignment
<1>2. TypeInv /\ OrphanInv /\ UncountedInv /\ CountsEveryAssignment /\ [Next]_vars => CountsEveryAssignment'
  BY StepCounted
<1> QED
  BY <1>1, <1>2, StepUncounted, AlwaysOrphan, PTL DEF Spec

\* With one pod, and no listing that takes more than one page, every coupon assigned is
\* counted as a sale of its session exactly once, as long as nothing fails.
THEOREM AssignmentsCounted ==
  ASSUME OnePod, OnePage
  PROVE  Spec => []CountsEveryAssignment
<1>1. Spec => []NoRepeats
  BY OnePageRepeatsNone
<1>2. Spec /\ []NoRepeats => []CountsEveryAssignment
  BY CountedUnlessRepeated
<1> QED
  BY <1>1, <1>2, PTL

(***************************************************************************)
(* The outcome of a coupon is final.  With one pod whose queries succeed a *)
(* coupon whose order has been paid back has no session and is invalid, or *)
(* about to be: the run does nothing else before it has marked it.         *)
(***************************************************************************)
RedisOnly == Faults \subseteq {"redis"}

OneCouponPerOrder ==
  \A c, d \in Coupons : OrderOf[c] \in Orders /\ OrderOf[c] = OrderOf[d] => c = d

Marking(c) == \E p \in Pods : pc[p] = "mark" /\ mem[p].coupon = c

FateInv ==
  \A c \in Coupons : OrderOf[c] \in refunded => coupon[c].session = 0 /\ (~coupon[c].valid \/ Marking(c))

Accepted(p) == RequestRefund(p) /\ Goto(p, "mark")

SameFates ==
  refunded' = refunded /\ \A c \in Coupons : coupon'[c].session = coupon[c].session

\* Every step but the two that settle a coupon.
LEMMA OthersSettleNothing ==
  ASSUME RedisOnly, TypeInv, NEW p \in Pods, Start(p) \/ Treat(p) \/ Store(p) \/ Fail(p),
         ~Assign(p), ~Accepted(p)
  PROVE  SameFates
<1>1. CASE CountSale(p)
  BY <1>1 DEF CountSale, SameFates
<1>2. CASE (Start(p) \/ Treat(p) \/ Store(p)) /\ ~CountSale(p)
  <2>1. refunded' = refunded
    BY <1>2 DEF Start, Treat, ListPage, NextListed, SkipTermless, FindSession, CheckSales,
                RecheckSales, PublishSale, RequestRefund, MarkInvalid, Store, Accepted
  <2> QED
    BY <1>2, <2>1, OthersCount DEF SameFates
<1>3. CASE Fail(p)
  BY <1>3 DEF RedisOnly, Fail, DbFails, RedisFails, SubscriberFails, GatewayFails, Crash, Fault, SameFates
<1> QED
  BY <1>1, <1>2, <1>3

\* A run that is about to mark a coupon marks it.
LEMMA MarkingGoesOn ==
  ASSUME RedisOnly, TypeInv, NEW p \in Pods, Start(p) \/ Treat(p) \/ Store(p) \/ Fail(p),
         pc[p] = "mark"
  PROVE  MarkInvalid(p) \/ UNCHANGED <<worker, coupon>>
BY DEF RedisOnly, Start, Treat, ListPage, NextListed, SkipTermless, FindSession, CheckSales,
       RecheckSales, Assign, CountSale, PublishSale, RequestRefund, Store, Fail, DbFails, RedisFails,
       SubscriberFails, GatewayFails, Crash, Fault

\* What assigning a coupon and paying it back find and leave.
LEMMA AssignFinds ==
  ASSUME OnePod, TypeInv, OrphanInv, FateInv, NEW p \in Pods, Assign(p)
  PROVE  LET c == mem[p].coupon IN
         /\ c \in Coupons /\ mem[p].session \in Sessions /\ Pods = {p}
         /\ coupon[c].session = 0 /\ OrderOf[c] \notin refunded /\ refunded' = refunded
         /\ coupon'[c].session = mem[p].session /\ \A d \in Coupons \ {c} : coupon'[d] = coupon[d]
         /\ pc[p] = "assign"
<1>1. pc[p] = "assign" /\ Pods = {p} /\ mem[p].coupon \in Orphans /\ mem[p].session \in Sessions
  BY DEF Assign, OnePod, OrphanInv, Busy, TypeInv, LoopOK, AssignSteps
<1>2. mem[p].coupon \in Coupons /\ coupon[mem[p].coupon].session = 0 /\ coupon[mem[p].coupon].valid
  BY <1>1 DEF Orphans, Orphan
<1>3. OrderOf[mem[p].coupon] \notin refunded
  BY <1>1, <1>2 DEF FateInv, Marking
<1>4. /\ refunded' = refunded /\ coupon' = [coupon EXCEPT ![mem[p].coupon].session = mem[p].session]
      /\ coupon \in [Coupons -> [session: 0..MaxSession, valid: BOOLEAN]]
  BY DEF Assign, Current, TypeInv, TypeOK
<1>5. /\ coupon'[mem[p].coupon].session = mem[p].session
      /\ \A d \in Coupons \ {mem[p].coupon} : coupon'[d] = coupon[d]
  BY ONLY <1>2, <1>4
<1> QED
  BY <1>1, <1>2, <1>3, <1>4, <1>5

LEMMA RefundFinds ==
  ASSUME OnePod, OneCouponPerOrder, TypeInv, OrphanInv, NEW p \in Pods, Accepted(p)
  PROVE  LET c == mem[p].coupon IN
         /\ c \in Coupons /\ coupon' = coupon /\ coupon[c].session = 0
         /\ OrderOf[c] \notin refunded /\ refunded' = refunded \cup {OrderOf[c]}
         /\ \A d \in Coupons : OrderOf[d] = OrderOf[c] => d = c
         /\ pc'[p] = "mark" /\ mem' = mem /\ Pods = {p} /\ pc[p] = "refund"
<1>1. pc[p] = "refund" /\ pc'[p] = "mark" /\ Pods = {p} /\ mem[p].coupon \in Orphans
  BY DEF Accepted, RequestRefund, Goto, OnePod, OrphanInv, Busy, TypeInv, TypeOK
<1>2. mem[p].coupon \in Coupons /\ coupon[mem[p].coupon].session = 0
  BY <1>1 DEF Orphans, Orphan
<1>3. /\ Refundable(mem[p].coupon) /\ Accepts(OrderOf[mem[p].coupon])
      /\ refunded' = refunded \cup {OrderOf[mem[p].coupon]} /\ mem' = mem /\ coupon' = coupon
  BY <1>1, NextCouponMoves DEF Accepted, RequestRefund, Current
<1>4. OrderOf[mem[p].coupon] \in Orders
  BY <1>3, ConstantsAssumption DEF Refundable, ConstantsAssumption
<1> QED
  BY <1>1, <1>2, <1>3, <1>4 DEF Accepts, OneCouponPerOrder

LEMMA StepFate ==
  ASSUME OnePod, RedisOnly, OneCouponPerOrder
  PROVE  TypeInv /\ OrphanInv /\ FateInv /\ [Next]_vars => FateInv'
<1> SUFFICES ASSUME TypeInv, OrphanInv, FateInv, [Next]_vars,
                    NEW c \in Coupons, OrderOf[c] \in refunded'
             PROVE  coupon'[c].session = 0 /\ (~coupon'[c].valid \/ Marking(c)')
  BY DEF FateInv
<1>1. ASSUME NEW p \in Pods, Assign(p)
      PROVE  coupon'[c].session = 0 /\ (~coupon'[c].valid \/ Marking(c)')
  <2>1. OrderOf[c] \in refunded /\ c # mem[p].coupon /\ ~Marking(c)
    BY <1>1, AssignFinds DEF Marking
  <2>2. coupon'[c] = coupon[c]
    BY <1>1, <2>1, AssignFinds
  <2> QED
    BY <2>1, <2>2 DEF FateInv
<1>2. ASSUME NEW p \in Pods, Accepted(p)
      PROVE  coupon'[c].session = 0 /\ (~coupon'[c].valid \/ Marking(c)')
  <2>1. CASE OrderOf[c] \in refunded
    <3>1. ~Marking(c)
      BY <1>2, RefundFinds DEF Marking
    <3> QED
      BY <1>2, <2>1, <3>1, RefundFinds DEF FateInv
  <2>2. CASE OrderOf[c] \notin refunded
    BY <1>2, <2>2, RefundFinds DEF Marking
  <2> QED
    BY <2>1, <2>2
<1>3. ASSUME NEW p \in Pods, Start(p) \/ Treat(p) \/ Store(p) \/ Fail(p), ~Assign(p), ~Accepted(p)
      PROVE  coupon'[c].session = 0 /\ (~coupon'[c].valid \/ Marking(c)')
  <2>1. OrderOf[c] \in refunded /\ coupon'[c].session = 0 /\ Pods = {p}
    BY <1>3, OthersSettleNothing DEF SameFates, FateInv, OnePod
  <2>2. CASE ~coupon[c].valid
    BY <1>3, <2>1, <2>2, TreatEffects, FailEffects DEF RowsMove
  <2>3. CASE pc[p] = "mark" /\ mem[p].coupon = c
    <3>1. MarkInvalid(p) => coupon' = [coupon EXCEPT ![c].valid = FALSE]
      BY <2>3 DEF MarkInvalid, Current
    <3>2. MarkInvalid(p) => ~coupon'[c].valid
      BY <3>1 DEF TypeInv, TypeOK
    <3> QED
      BY <1>3, <2>1, <2>3, <3>2, MarkingGoesOn DEF Marking, worker
  <2> QED
    BY <2>1, <2>2, <2>3 DEF FateInv, Marking
<1>4. CASE (\E d \in Coupons : Buy(d)) \/ (\E s \in Sessions : Sell(s) \/ Announce(s) \/ Open(s)) \/ UNCHANGED vars
  BY <1>4, OutsideEffects DEF FateInv, Marking
<1> QED
  BY <1>1, <1>2, <1>3, <1>4 DEF Next

Fates == [c \in Coupons |-> Fate(c)]

\* A step settles one coupon, or none.
LEMMA FateStep ==
  ASSUME OnePod, RedisOnly, OneCouponPerOrder, TypeInv, OrphanInv, FateInv, [Next]_vars
  PROVE  (\E c \in Coupons : Settlement!Settle(c)) \/ UNCHANGED Fates
<1>1. ASSUME NEW p \in Pods, Assign(p) PROVE \E c \in Coupons : Settlement!Settle(c)
  <2>0. PICK c \in Coupons, s \in Sessions : c = mem[p].coupon /\ s = mem[p].session
    BY <1>1, AssignFinds
  <2>1. Fate(c) = Settlement!Open
    BY <1>1, <2>0, AssignFinds DEF Fate, Settlement!Open
  <2>2. Fate(c)' = Settlement!Assigned(s)
    <3>1. s # 0 /\ coupon'[c].session = s /\ OrderOf[c] \notin refunded'
      BY <1>1, <2>0, AssignFinds DEF Sessions
    <3> QED
      BY <3>1 DEF Fate, Settlement!Assigned
  <2>3. \A d \in Coupons \ {c} : Fate(d)' = Fate(d)
    BY <1>1, <2>0, AssignFinds DEF Fate
  <2>4. Fates' = [Fates EXCEPT ![c] = Settlement!Assigned(s)]
    BY <2>1, <2>2, <2>3 DEF Fates
  <2>5. Settlement!Settle(c)
    BY <2>1, <2>4 DEF Settlement!Settle, Fates
  <2> QED
    BY <2>5
<1>2. ASSUME NEW p \in Pods, Accepted(p) PROVE \E c \in Coupons : Settlement!Settle(c)
  <2>0. PICK c \in Coupons : c = mem[p].coupon
    BY <1>2, RefundFinds
  <2>1. Fate(c) = Settlement!Open
    BY <1>2, <2>0, RefundFinds DEF Fate, Settlement!Open
  <2>2. Fate(c)' = Settlement!Refunded
    BY <1>2, <2>0, RefundFinds DEF Fate, Settlement!Refunded
  <2>3. \A d \in Coupons \ {c} : Fate(d)' = Fate(d)
    BY <1>2, <2>0, RefundFinds DEF Fate
  <2>4. Fates' = [Fates EXCEPT ![c] = Settlement!Refunded]
    BY <2>1, <2>2, <2>3 DEF Fates
  <2>5. Settlement!Settle(c)
    BY <2>1, <2>4 DEF Settlement!Settle, Fates
  <2> QED
    BY <2>5
<1>3. SameFates => UNCHANGED Fates
  BY DEF SameFates, Fates, Fate
<1>4. ASSUME NEW p \in Pods, Start(p) \/ Treat(p) \/ Store(p) \/ Fail(p), ~Assign(p), ~Accepted(p)
      PROVE  UNCHANGED Fates
  BY <1>3, <1>4, OthersSettleNothing
<1>5. CASE (\E c \in Coupons : Buy(c)) \/ (\E s \in Sessions : Sell(s) \/ Announce(s) \/ Open(s)) \/ UNCHANGED vars
  BY <1>3, <1>5, OutsideEffects DEF SameFates
<1> QED
  BY <1>1, <1>2, <1>4, <1>5 DEF Next

LEMMA FateUnlessRepeated ==
  ASSUME OnePod, RedisOnly, OneCouponPerOrder
  PROVE  Spec /\ []NoRepeats => FateSpec
<1>1. Init => FateInv /\ Fates = [c \in Coupons |-> Settlement!Open]
  BY DEF Init, FateInv, Fates, Fate, Settlement!Open
<1>2. TypeInv /\ OrphanInv /\ FateInv /\ [Next]_vars => FateInv'
  BY StepFate
<1>3. TypeInv /\ OrphanInv /\ FateInv /\ [Next]_vars => [\E c \in Coupons : Settlement!Settle(c)]_Fates
  BY FateStep
<1> QED
  BY <1>1, <1>2, <1>3, AlwaysOrphan, PTL DEF Spec, FateSpec, Settlement!Spec, Fates

\* With one pod whose queries succeed, one coupon in an order and no listing that takes more
\* than one page, the job implements what the buyer is promised: one session for good, or
\* the money back, never both.
THEOREM ImplementsFate ==
  ASSUME OnePod, RedisOnly, OneCouponPerOrder, OnePage
  PROVE  Spec => FateSpec
<1>1. Spec => []NoRepeats
  BY OnePageRepeatsNone
<1>2. Spec /\ []NoRepeats => FateSpec
  BY FateUnlessRepeated
<1> QED
  BY <1>1, <1>2, PTL
=============================================================================
