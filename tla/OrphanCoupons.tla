--------------------------- MODULE OrphanCoupons ---------------------------
(***************************************************************************)
(* The job process-orphan-coupons: coupons that were bought while their    *)
(* term had no session are assigned to the next UPCOMING session, or       *)
(* refunded when there is none or its sales have reached the trigger.      *)
(*                                                                         *)
(*   page* -> find -> check -> recheck -> assign -> incr -> publish -> find*)
(*                 \-------\-> refund -> mark ----------------------> find *)
(*                                                                         *)
(* Each await that reads or writes what others can change is one step.     *)
(* The job repeats every 5 minutes, and once more when a pod starts; any   *)
(* pod may take any of its runs, so runs overlap.                          *)
(***************************************************************************)
EXTENDS SalesChannel, FiniteSets

CONSTANTS
  MaxCoupon,   \* the coupons are 1..MaxCoupon
  CreatedAt,   \* CreatedAt[c]: created_at of its row, which coupons may share
  WithTerm,    \* the coupons with a term_id
  Orders,
  OrderOf,     \* OrderOf[c]: the order_id of coupon c, or None
  None,
  Payable,     \* the orders with a payment at a supported, configured gateway
  Trigger,     \* sales_trigger_count; null is a trigger that is never reached
  BatchSize,   \* page size of findOrphanCoupons, 50
  MaxSold,     \* bound: how many coupons the shop sells with a session
  Faults,      \* the faults of this instance: "crash", "db", "redis", "gateway"
  MaxFaults    \* bound: how many faults happen in a behaviour

Coupons == 1..MaxCoupon

ASSUME ConstantsAssumption ==
  /\ MaxSession \in Nat /\ MaxCoupon \in Nat /\ MaxSold \in Nat
  /\ WithTerm \subseteq Coupons /\ CreatedAt \in [Coupons -> Nat]
  /\ None \notin Orders /\ OrderOf \in [Coupons -> Orders \cup {None}]
  /\ Payable \subseteq Orders
  /\ Trigger \in Nat /\ BatchSize \in Nat \ {0}
  /\ Faults \subseteq {"crash", "db", "redis", "gateway"} /\ MaxFaults \in Nat

VARIABLES
  made,      \* the coupons whose rows are there
  coupon,    \* coupon[c]: session_id (0 for null) and is_valid of its row
  status,    \* status[s]: of the session's row, "none" before it is created
  refunded,  \* the orders whose payment has been returned
  counted,   \* history: counted[s] sales this job has added to session s
  sold,      \* how many coupons the shop has sold with a session
  pc,        \* pc[p]: the next step of the run on pod p
  mem,       \* mem[p]: what that run has read
  faults

channel == <<sales, chan>>
worker  == <<pc, mem>>
outside == <<made, status, sold>>
vars    == <<channel, outside, coupon, refunded, counted, worker, faults>>

\* todo: the listing, from the next coupon on; skip: the offset of the next page;
\* coupon: the one under way; session: the one found for it; count: the one to publish.
Mem   == [todo: Seq(Coupons), skip: Nat, coupon: 0..MaxCoupon, session: 0..MaxSession,
          count: Nat]
Fresh == [todo |-> <<>>, skip |-> 0, coupon |-> 0, session |-> 0, count |-> 0]
Steps == {"idle", "page", "next", "find", "check", "recheck", "assign", "incr", "publish",
          "refund", "mark"}

TypeOK ==
  /\ SalesOK
  /\ made \subseteq Coupons
  /\ coupon \in [Coupons -> [session: 0..MaxSession, valid: BOOLEAN]]
  /\ status \in [Sessions -> {"none", "upcoming", "opened"}]
  /\ refunded \subseteq Orders
  /\ counted \in [Sessions -> Nat] /\ sold \in 0..MaxSold
  /\ pc \in [Pods -> Steps] /\ mem \in [Pods -> Mem]
  /\ faults \in 0..MaxFaults

Upcoming == {s \in Sessions : status[s] = "upcoming"}
AssignedTo(s) == {c \in Coupons : coupon[c].session = s}

(***************************************************************************)
(* Wrong variants of the definitions below, each the slip a change to the  *)
(* code could make; README.md says which property notices which.           *)
(***************************************************************************)
OrphanIfInvalid(c)  == c \in made /\ coupon[c].session = 0
OrphanIfAssigned(c) == c \in made /\ coupon[c].valid
NextListedStopsEarly(p) ==
  /\ pc[p] = "next"
  /\ IF Len(mem[p].todo) <= 1
       THEN pc' = [pc EXCEPT ![p] = "idle"] /\ mem' = [mem EXCEPT ![p] = Fresh]
       ELSE /\ mem' = [mem EXCEPT ![p].todo = Tail(@), ![p].coupon = Head(mem[p].todo)]
            /\ pc' = [pc EXCEPT ![p] = "find"]
  /\ UNCHANGED <<channel, outside, coupon, refunded, counted, faults>>
GatewayFailsUnheard(p) ==
  /\ "gateway" \in Faults /\ faults < MaxFaults /\ faults' = faults + 1
  /\ pc[p] = "refund" /\ OrderOf[mem[p].coupon] \in Payable
  /\ pc' = [pc EXCEPT ![p] = "mark"]
  /\ UNCHANGED <<channel, outside, coupon, refunded, counted, mem>>
CountSaleIfUpcoming(p) ==
  /\ pc[p] = "incr"
  /\ IF status[mem[p].session] = "upcoming"
       THEN Incr(mem[p].session) /\ counted' = [counted EXCEPT ![mem[p].session] = @ + 1]
       ELSE UNCHANGED <<sales, counted>>
  /\ mem' = [mem EXCEPT ![p].count = Count(mem[p].session) + 1]
  /\ pc' = [pc EXCEPT ![p] = "publish"]
  /\ UNCHANGED <<chan, outside, coupon, refunded, faults>>
CountSalePublishesOld(p) ==
  /\ pc[p] = "incr"
  /\ Incr(mem[p].session)
  /\ counted' = [counted EXCEPT ![mem[p].session] = @ + 1]
  /\ mem' = [mem EXCEPT ![p].count = Count(mem[p].session)]
  /\ pc' = [pc EXCEPT ![p] = "publish"]
  /\ UNCHANGED <<chan, outside, coupon, refunded, faults>>

(***************************************************************************)
(* Decisions of the code                                                   *)
(***************************************************************************)

\* where: { session_id: null, is_valid: true }
Orphan(c) == c \in made /\ coupon[c].session = 0 /\ coupon[c].valid
Orphans   == {c \in Coupons : Orphan(c)}

\* What that query may answer: rows by created_at, in any order where it is the same, and
\* in another one when it is asked again.
Answers ==
  {q \in [1..Cardinality(Orphans) -> Orphans] :
     \A i, j \in DOMAIN q : i < j => q[i] # q[j] /\ CreatedAt[q[i]] <= CreatedAt[q[j]]}

\* take, skip: a page of such an answer.
Page(q, skip) == SubSeq(q, skip + 1, IF skip + BatchSize <= Len(q) THEN skip + BatchSize ELSE Len(q))

\* Of the sessions ordered by priority_position: the first.
First(S) == {x \in S : \A y \in S : x <= y}

Current(p) == mem[p].coupon

TriggerReached(s) == Count(s) >= Trigger

\* processRefund: what makes it ask the gateway.
Refundable(c) == OrderOf[c] \in Payable

\* The gateway gives a payment back once: it refuses a second refund of the full amount.
Accepts(o) == o \notin refunded

Goto(p, step) == pc' = [pc EXCEPT ![p] = step]

\* The next round of the loop.
NextCoupon(p) ==
  /\ Goto(p, "next")
  /\ mem' = [mem EXCEPT ![p].coupon = 0, ![p].session = 0, ![p].count = 0]

(***************************************************************************)
(* The run on pod p                                                        *)
(***************************************************************************)
Init ==
  /\ sales = [s \in Sessions |-> NoKey] /\ chan = [p \in Pods |-> <<>>]
  /\ made = {} /\ coupon = [c \in Coupons |-> [session |-> 0, valid |-> TRUE]]
  /\ status = [s \in Sessions |-> "none"]
  /\ refunded = {} /\ counted = [s \in Sessions |-> 0] /\ sold = 0
  /\ pc = [p \in Pods |-> "idle"] /\ mem = [p \in Pods |-> Fresh]
  /\ faults = 0

\* The worker takes a run of the job; a failed or stalled run is taken again like any other.
Start(p) ==
  /\ pc[p] = "idle"
  /\ Goto(p, "page")
  /\ UNCHANGED <<channel, outside, coupon, refunded, counted, mem, faults>>

\* findOrphanCoupons: page after page, until one is empty.  Each page is a query of its own,
\* and allResults keeps what two pages both show.
ListPage(p) ==
  /\ pc[p] = "page"
  /\ \E q \in Answers :
       LET batch == Page(q, mem[p].skip) IN
       IF batch = <<>>
         THEN Goto(p, "next") /\ UNCHANGED mem
         ELSE /\ mem' = [mem EXCEPT ![p].todo = @ \o batch, ![p].skip = @ + BatchSize]
              /\ UNCHANGED pc
  /\ UNCHANGED <<channel, outside, coupon, refunded, counted, faults>>

\* The loop over the listing; coupons without a term are left alone.
NextListed(p) ==
  /\ pc[p] = "next"
  /\ IF mem[p].todo = <<>>
       THEN Goto(p, "idle") /\ mem' = [mem EXCEPT ![p] = Fresh]
       ELSE /\ mem' = [mem EXCEPT ![p].todo = Tail(@), ![p].coupon = Head(mem[p].todo)]
            /\ Goto(p, "find")
  /\ UNCHANGED <<channel, outside, coupon, refunded, counted, faults>>

SkipTermless(p) ==
  /\ pc[p] = "find" /\ Current(p) \notin WithTerm
  /\ NextCoupon(p)
  /\ UNCHANGED <<channel, outside, coupon, refunded, counted, faults>>

\* findUpcomingSessionsByTermId takes one session; without any the coupon is refunded.
FindSession(p) ==
  /\ pc[p] = "find" /\ Current(p) \in WithTerm
  /\ \/ Upcoming = {} /\ Goto(p, "refund") /\ UNCHANGED mem
     \/ \E s \in First(Upcoming) : Goto(p, "check") /\ mem' = [mem EXCEPT ![p].session = s]
  /\ UNCHANGED <<channel, outside, coupon, refunded, counted, faults>>

\* processOrphanCoupons: refund when the session's sales have reached the trigger.
CheckSales(p) ==
  /\ pc[p] = "check"
  /\ Goto(p, IF TriggerReached(mem[p].session) THEN "refund" ELSE "recheck")
  /\ UNCHANGED <<channel, outside, coupon, refunded, counted, mem, faults>>

\* assignCouponToSession reads the count again, but its shouldRefund is not heard.
RecheckSales(p) ==
  /\ pc[p] = "recheck"
  /\ IF TriggerReached(mem[p].session) THEN NextCoupon(p) ELSE Goto(p, "assign") /\ UNCHANGED mem
  /\ UNCHANGED <<channel, outside, coupon, refunded, counted, faults>>

\* The transaction: by id, whatever the row says by now.
Assign(p) ==
  /\ pc[p] = "assign"
  /\ coupon' = [coupon EXCEPT ![Current(p)].session = mem[p].session]
  /\ Goto(p, "incr")
  /\ UNCHANGED <<channel, outside, refunded, counted, mem, faults>>

CountSale(p) ==
  /\ pc[p] = "incr"
  /\ Incr(mem[p].session)
  /\ counted' = [counted EXCEPT ![mem[p].session] = @ + 1]
  /\ mem' = [mem EXCEPT ![p].count = Count(mem[p].session) + 1]
  /\ Goto(p, "publish")
  /\ UNCHANGED <<chan, outside, coupon, refunded, faults>>

PublishSale(p) ==
  /\ pc[p] = "publish"
  /\ PublishTo(Pods, mem[p].session, mem[p].count)
  /\ NextCoupon(p)
  /\ UNCHANGED <<sales, outside, coupon, refunded, counted, faults>>

\* processRefund, up to the gateway's answer.
RequestRefund(p) ==
  LET c == Current(p) IN
  /\ pc[p] = "refund"
  /\ IF Refundable(c) /\ Accepts(OrderOf[c])
       THEN refunded' = refunded \cup {OrderOf[c]} /\ Goto(p, "mark") /\ UNCHANGED mem
       ELSE NextCoupon(p) /\ UNCHANGED refunded
  /\ UNCHANGED <<channel, outside, coupon, counted, faults>>

\* is_valid = false, by id.
MarkInvalid(p) ==
  /\ pc[p] = "mark"
  /\ coupon' = [coupon EXCEPT ![Current(p)].valid = FALSE]
  /\ NextCoupon(p)
  /\ UNCHANGED <<channel, outside, refunded, counted, faults>>

(***************************************************************************)
(* Faults                                                                  *)
(***************************************************************************)
Fault(kind) == kind \in Faults /\ faults < MaxFaults /\ faults' = faults + 1

\* A failing listing fails the run.  A failing search for sessions is swallowed and taken
\* for "none".  Every other failing query is caught in the loop, the one that marks too.
DbFails(p) ==
  /\ Fault("db")
  /\ \/ pc[p] = "page" /\ Goto(p, "idle") /\ mem' = [mem EXCEPT ![p] = Fresh]
     \/ pc[p] = "find" /\ Current(p) \in WithTerm /\ Goto(p, "refund") /\ UNCHANGED mem
     \/ pc[p] \in {"check", "recheck", "assign", "mark"} /\ NextCoupon(p)
     \/ pc[p] = "refund" /\ OrderOf[Current(p)] # None /\ NextCoupon(p)
  /\ UNCHANGED <<channel, outside, coupon, refunded, counted>>

RedisFails(p) ==
  /\ Fault("redis")
  /\ pc[p] \in {"check", "recheck", "incr", "publish"} /\ NextCoupon(p)
  /\ UNCHANGED <<channel, outside, coupon, refunded, counted>>

\* A subscriber that loses its connection, or whose SET fails, loses messages.
SubscriberFails(p) ==
  /\ Fault("redis")
  /\ Disconnect(p) \/ StoreFails(p)
  /\ UNCHANGED <<outside, coupon, refunded, counted, worker>>

\* The gateway refuses, or its answer is lost after it has paid.
GatewayFails(p) ==
  LET c == Current(p) IN
  /\ Fault("gateway")
  /\ pc[p] = "refund" /\ Refundable(c)
  /\ refunded' \in {refunded, refunded \cup {OrderOf[c]}}
  /\ NextCoupon(p)
  /\ UNCHANGED <<channel, outside, coupon, counted>>

\* The stalled run is taken again like any other.
Crash(p) ==
  /\ Fault("crash") /\ pc[p] # "idle"
  /\ Goto(p, "idle") /\ mem' = [mem EXCEPT ![p] = Fresh]
  /\ chan' = [chan EXCEPT ![p] = <<>>]
  /\ UNCHANGED <<sales, outside, coupon, refunded, counted>>

(***************************************************************************)
(* Around the job: the shop and the session lifecycle                      *)
(***************************************************************************)
\* Rows become visible in any order, whatever created_at says: a transaction that began
\* earlier may commit later.
Buy(c) ==
  /\ c \notin made /\ made' = made \cup {c}
  /\ UNCHANGED <<channel, status, sold, coupon, refunded, counted, worker, faults>>

\* A coupon sold with its session: the shop increments the key and publishes.
Sell(s) ==
  /\ status[s] = "upcoming" /\ sold < MaxSold /\ sold' = sold + 1
  /\ Incr(s) /\ PublishTo(Pods, s, Count(s) + 1)
  /\ UNCHANGED <<made, status, coupon, refunded, counted, worker, faults>>

Announce(s) ==
  /\ status[s] = "none" /\ status' = [status EXCEPT ![s] = "upcoming"]
  /\ UNCHANGED <<channel, made, sold, coupon, refunded, counted, worker, faults>>

Open(s) ==
  /\ status[s] = "upcoming" /\ status' = [status EXCEPT ![s] = "opened"]
  /\ UNCHANGED <<channel, made, sold, coupon, refunded, counted, worker, faults>>

Store(p) ==
  /\ HandleSalesUpdate(p)
  /\ UNCHANGED <<outside, coupon, refunded, counted, worker, faults>>

-----------------------------------------------------------------------------
Treat(p) ==
  \/ ListPage(p) \/ NextListed(p) \/ SkipTermless(p) \/ FindSession(p) \/ CheckSales(p)
  \/ RecheckSales(p) \/ Assign(p) \/ CountSale(p) \/ PublishSale(p) \/ RequestRefund(p) \/ MarkInvalid(p)

Fail(p) == DbFails(p) \/ RedisFails(p) \/ SubscriberFails(p) \/ GatewayFails(p) \/ Crash(p)

Next ==
  \/ \E p \in Pods : Start(p) \/ Treat(p) \/ Store(p) \/ Fail(p)
  \/ \E s \in Sessions : Sell(s) \/ Announce(s) \/ Open(s)
  \/ \E c \in Coupons : Buy(c)

Spec == Init /\ [][Next]_vars

\* The job repeats for ever on some pod, and a run that has begun goes on, as does a subscriber.
Fairness ==
  /\ WF_vars(\E p \in Pods : Start(p))
  /\ \A p \in Pods : WF_vars(Treat(p)) /\ WF_vars(Store(p))

FairSpec == Spec /\ Fairness

(***************************************************************************)
(* Properties                                                              *)
(***************************************************************************)

\* A coupon is declared invalid by this job only when its payment has been returned, also
\* when another pod, a crash or a failing call comes between the two.
InvalidMeansRefunded == \A c \in Coupons : ~coupon[c].valid => OrderOf[c] \in refunded

\* As long as nothing fails between the transaction and the INCR, no assignment stays
\* uncounted, whichever pods treat the same coupon and however often a listing shows it:
\* the sales of a session are never behind the coupons this job gave it.
Counting(s) == {p \in Pods : pc[p] = "incr" /\ mem[p].session = s}
NoAssignmentUncounted ==
  faults = 0 => \A s \in Sessions :
    Cardinality(AssignedTo(s)) <= counted[s] + Cardinality(Counting(s))

\* With one pod, and no listing that takes more than one page, each is counted just once.
\* A coupon that a second page shows again is assigned again, and counted again.
CountsEveryAssignment ==
  faults = 0 => \A s \in Sessions :
    Cardinality(AssignedTo(s)) = counted[s] + Cardinality(Counting(s))

\* "Checks sales trigger count before assigning": the job never gives a session more
\* coupons than the sales it is to have.
AssignedWithinTrigger == \A s \in Sessions : Cardinality(AssignedTo(s)) <= Trigger

\* A coupon that can be assigned or refunded eventually is, whatever fails in between, though
\* pages skip it when the rows before it leave.  Of coupons that share created_at the pages
\* may show one for ever and never the other.
Alone(c) == \A d \in Coupons \ {c} : CreatedAt[d] # CreatedAt[c]
OrphanIsSettled ==
  \A c \in WithTerm :
    Alone(c) /\ Refundable(c) /\ Orphan(c) ~> coupon[c].session # 0 \/ OrderOf[c] \in refunded

\* The outcome of a coupon is final: one session, or its money back, never both and never
\* another one.  The runs implement the abstract specification with one pod whose queries
\* succeed, when every order has one coupon and every listing fits in a page.
Fate(c) ==
  LET out == IF OrderOf[c] \in refunded THEN "refunded"
             ELSE IF coupon[c].session # 0 THEN "assigned" ELSE "open"
  IN [out |-> out, session |-> coupon[c].session]
Settlement == INSTANCE CouponFate WITH fate <- [c \in Coupons |-> Fate(c)]
FateSpec == Settlement!Spec
=============================================================================
