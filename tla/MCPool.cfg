SPECIFICATION Spec
CONSTANTS
  Capacity = 4
  Contexts = {c1, c2}
  NoContext = NoContext
  Keys <- DistinctBuckets
INVARIANTS TypeOK SlotConservation IndexSound ReachableUnlessColliding
PROPERTY ImplementsMap
