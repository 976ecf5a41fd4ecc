SPECIFICATION Spec
CONSTANTS
  Workers = {w1, w2}
  SyncModes = {0, 3}
  MaxRecords = 6
  MaxFailures = 1
SYMMETRY Symmetry
INVARIANTS TypeOK LossBounded CounterBounded
CHECK_DEADLOCK FALSE
