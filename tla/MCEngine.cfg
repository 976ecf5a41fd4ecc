CONSTANTS
  Keys = {k1}
  Clients = {c1, c2}
  TotalSteps = 2
  Payloads = {p1}
  Closings = {"Completed", "Failed"}
  MaxCalls = 2
  MaxFailures = 1
  MaxDeaths = 1
SPECIFICATION Spec
SYMMETRY Callers
INVARIANTS TypeOK   RecoversTheLog
\* With no caller left and no task queued, the engine is idle.
CHECK_DEADLOCK FALSE
