SPECIFICATION FairSpec
CONSTANTS
  Queues = {q1}
  Enqueuers = {e1, e2}
  Pollers = {w1, w2}
  Priorities = {0}
  Deadlines = {0}
  Clock = {1}
  MaxTasks = 3
INVARIANT WakeupsCover
PROPERTIES NoStrandedTask ShutdownReleases
