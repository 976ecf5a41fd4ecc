SPECIFICATION Spec
CONSTANTS
  Queues = {q1, q2}
  Enqueuers = {e1, e2}
  Pollers = {w1}
  Priorities = {0, 1, 2}
  Deadlines = {0, 1}
  Clock = {1}
  MaxTasks = 3
SYMMETRY Threads
INVARIANTS TaskConservation UrgentFirst BacklogNotUnderstated
PROPERTIES NeverExpires NoOvertaking
