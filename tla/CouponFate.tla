----------------------------- MODULE CouponFate -----------------------------
(***************************************************************************)
(* What the buyer of a coupon without a session is promised: the coupon    *)
(* gets into one session, for good, or its money comes back, not both.     *)
(***************************************************************************)
CONSTANTS Coupons, Sessions

VARIABLE fate  \* fate[c]: the outcome of coupon c

Open        == [out |-> "open", session |-> 0]
Refunded    == [out |-> "refunded", session |-> 0]
Assigned(s) == [out |-> "assigned", session |-> s]

Settle(c) ==
  /\ fate[c] = Open
  /\ \E f \in {Refunded} \cup {Assigned(s) : s \in Sessions} : fate' = [fate EXCEPT ![c] = f]

Spec == fate = [c \in Coupons |-> Open] /\ [][\E c \in Coupons : Settle(c)]_fate
=============================================================================
