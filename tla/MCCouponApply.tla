--------------------------- MODULE MCCouponApply ---------------------------
(***************************************************************************)
(* Instances of CouponApply for TLC: of up to three coupons the first two  *)
(* are owned by the same user, so that both the slot limit and the win     *)
(* limit can be reached.                                                   *)
(***************************************************************************)
EXTENDS CouponApply, TLC

CONSTANTS c1, c2, c3, u1, u2, k1, k2, k3

\* Calls are interchangeable: they differ by what they ask for only.
CallSymmetry == Permutations({k1, k2, k3})

MCOwner == [c \in Coupons |-> IF c = c3 THEN u2 ELSE u1]
=============================================================================
