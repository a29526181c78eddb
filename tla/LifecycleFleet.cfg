SPECIFICATION Spec
CONSTANTS
  p1 = p1
  p2 = p2
  MaxId = 2
  StartAfter = 1
  StopAfter = 1
  Pods = {p1, p2}
  Subscribers = {p1}
  MaxNow = 2
  Faults = {}
  MaxFaults = 0
INVARIANTS
  TypeOK
  OneLivePerProfile
  NoLockCycle
PROPERTIES
  TimetableSpec
  KeepsSchedule
