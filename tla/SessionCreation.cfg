\* One pod and a job with two attempts, two sessions reach the trigger, any one fault.
SPECIFICATION FairSpec
CONSTANTS
  p1 = p1
  p2 = p2
  Job = Job
  Pods = {p1}
  MaxSession = 7
  MaxAnnounced = 2
  Limit = 2
  Attempts = 2
  Faults = {"crash", "db", "redis"}
  MaxFaults = 1
INVARIANTS TypeOK CountsEveryRow AnswersAreTrue
PROPERTIES ThresholdIsAnswered
CHECK_DEADLOCK FALSE
