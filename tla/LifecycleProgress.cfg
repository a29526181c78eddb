SPECIFICATION FairSpec
CONSTANTS
  p1 = p1
  p2 = p2
  MaxId = 2
  StartAfter = 1
  StopAfter = 1
  Pods = {p1}
  Subscribers = {p1}
  MaxNow = 1
  Faults = {"crash", "db", "redis"}
  MaxFaults = 1
PROPERTIES
  OpeningGoesLive
  LiveEnds
