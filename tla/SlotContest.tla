---------------------------- MODULE SlotContest ----------------------------
(***************************************************************************)
(* What the coupon application promises its users: a LIVE session ranks    *)
(* coupons one after the other until its slots are taken or its time is up.*)
(* A coupon is ranked once, a rank is never given twice or taken back, and *)
(* a closed session stays as it is.                                        *)
(***************************************************************************)
EXTENDS Naturals, Sequences

CONSTANTS Coupons, MaxSlots

VARIABLES
  ranking,  \* the applied coupons, by position
  phase     \* "live", "completed" or "time_reached"

vars == <<ranking, phase>>

Ranked == {ranking[i] : i \in 1..Len(ranking)}
Full   == MaxSlots > 0 /\ Len(ranking) = MaxSlots

Init == ranking = <<>> /\ phase = "live"

Rank(c) ==
  /\ phase = "live" /\ ~Full
  /\ c \notin Ranked
  /\ ranking' = Append(ranking, c)
  /\ UNCHANGED phase

Complete ==
  /\ phase = "live" /\ Full
  /\ phase' = "completed"
  /\ UNCHANGED ranking

TimeUp ==
  /\ phase = "live"
  /\ phase' = "time_reached"
  /\ UNCHANGED ranking

Next == (\E c \in Coupons : Rank(c)) \/ Complete \/ TimeUp

Spec == Init /\ [][Next]_vars
=============================================================================
