CONSTANTS
  Keys = {k1}
  Clients = {c1}
  TotalSteps = 2
  Payloads = {}
  Closings = {"Completed"}
  MaxCalls = 1
  MaxFailures = 0
  MaxDeaths = 1
SPECIFICATION FairSpec
PROPERTY Resumes
CHECK_DEADLOCK FALSE
