--------------------------- MODULE MCOrphanCoupons ---------------------------
\* Values for OrphanCoupons: every coupon has its own order; the third one's has no payment
\* that can be returned, the fourth coupon has no order.
\* In MCShared the first two coupons were created at the same time.
EXTENDS OrphanCoupons
CONSTANTS p1, p2, o1, o2, o3
MCCreatedAt == [c \in Coupons |-> c]
MCShared    == [c \in Coupons |-> IF c <= 2 THEN 1 ELSE c]
MCOrders  == {o1, o2, o3}
MCPayable == {o1, o2}
MCOrderOf == [c \in Coupons |-> CASE c = 1 -> o1 [] c = 2 -> o2 [] c = 3 -> o3 [] OTHER -> None]
=============================================================================
