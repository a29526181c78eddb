SPECIFICATION FairSpec
CONSTANTS
  c1 = c1  c2 = c2  c3 = c3  u1 = u1  u2 = u2
  k1 = k1  k2 = k2  k3 = k3
  Coupons = {c1, c2, c3}
  Users = {u1, u2}
  Owner <- MCOwner
  Pods = {p1}
  Calls = {k1, k2}
  None = None
  MaxSlots = 1
  MaxWins = 1
  Invalidate = TRUE
  Window = 1
  BatchSize = 1
  Faults = {"crash"}
  MaxFaults = 2
PROPERTIES RequestIsDecided
\* the calls are used up and the queue runs empty
CHECK_DEADLOCK FALSE
