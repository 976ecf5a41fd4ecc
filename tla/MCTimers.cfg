CONSTANTS
  Callers = {c1, c2}
  MaxTimers = 2
  Delays = {0, 2}
  PollDelay = 1
  Horizon = 3
SPECIFICATION Spec
INVARIANTS EveryTimerIsAccountedFor FiresOnceWhenDue
PROPERTIES TimersFire ShutdownStops
\* After the shutdown the checker is gone and the callers need not call.
CHECK_DEADLOCK FALSE
