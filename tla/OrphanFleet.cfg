SPECIFICATION FairSpec
CONSTANTS
  p1 = p1  p2 = p2  o1 = o1  o2 = o2  o3 = o3
  None = None
  Pods = {p1, p2}
  MaxSession = 1
  MaxCoupon = 2
  CreatedAt <- MCCreatedAt
  WithTerm = {1, 2}
  Orders <- MCOrders
  OrderOf <- MCOrderOf
  Payable <- MCPayable
  Trigger = 1
  BatchSize = 1
  MaxSold = 0
  Faults = {"crash", "db", "redis", "gateway"}
  MaxFaults = 1
INVARIANTS TypeOK NoAssignmentUncounted InvalidMeansRefunded
PROPERTIES OrphanIsSettled
