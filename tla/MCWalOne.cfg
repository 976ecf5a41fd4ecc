SPECIFICATION FairSpec
CONSTANTS
  Appenders = {a1}
  MaxSize = 1
  Retain = 2
  MaxRecords = 6
  MaxFailures = 1
  MaxKills = 0
INVARIANTS TypeOK 
PROPERTIES OnlyOldestDeleted EventuallyDurable ImplementsLog
