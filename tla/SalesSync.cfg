\* Two pods, one seller, one session, any one fault.
SPECIFICATION FairSpec
CONSTANTS
  p1 = p1
  p2 = p2
  q1 = q1
  Pods = {p1, p2}
  Sellers = {q1}
  MaxSession = 1
  MaxSold = 2
  BatchSize = 2
  SampleSize = 2
  Faults = {"crash", "db", "redis"}
  MaxFaults = 1
INVARIANTS TypeOK NeverOvercounts
PROPERTIES ActiveKeysStay EventuallyInSync
CHECK_DEADLOCK FALSE
