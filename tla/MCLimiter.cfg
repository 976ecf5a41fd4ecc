SPECIFICATION FairSpec
CONSTANTS
  k1 = k1
  k2 = k2
  k3 = k3
  k4 = k4
  k5 = k5
  Keys = {k1, k2, k3, k4, k5}
  Of <- MCOf
  MaxGlobal = 2
  Limit <- MCLimit
  QueueDepth = 1
  Policies = {"reject", "queue"}
  MaxCalls = 2
  Word = 16
INVARIANTS TypeOK CountersAgree GlobalOvershoot LimitOvershoot QueueIsWaiting
PROPERTIES CallsReturn
CHECK_DEADLOCK FALSE
