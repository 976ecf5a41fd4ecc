SPECIFICATION Spec
CONSTANTS
  Appenders = {a1, a2}
  MaxSize = 1
  Retain = 2
  MaxRecords = 4
  MaxFailures = 1
  MaxKills = 1
INVARIANTS OrderPreserved OneOpener
