SPECIFICATION Spec
CONSTANTS
  p1 = p1  p2 = p2  o1 = o1  o2 = o2  o3 = o3
  None = None
  Pods = {p1}
  MaxSession = 2
  MaxCoupon = 4
  CreatedAt <- MCShared
  WithTerm = {1, 2, 3}
  Orders <- MCOrders
  OrderOf <- MCOrderOf
  Payable <- MCPayable
  Trigger = 1
  BatchSize = 4
  MaxSold = 1
  Faults = {"redis"}
  MaxFaults = 1
INVARIANTS CountsEveryAssignment
PROPERTIES FateSpec
