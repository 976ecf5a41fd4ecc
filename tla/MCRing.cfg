SPECIFICATION Spec
CONSTANTS
  RING_SLOTS = 2
  MaxFaults = 1
  Names = {1, 2, 3, 4}
INVARIANTS AtMostOnce AnswerIsOwn
PROPERTIES Resynchronises
