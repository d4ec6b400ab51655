\* A chunk may end between "R" and the bit it marks.
CONSTANTS
  BufferSize = 9
  SplitBits = TRUE
  Approaches <- MCApproaches
  MaxBits = 12
  MaxSessions = 1
SPECIFICATION Spec
INVARIANTS
  AssertionsHold
CHECK_DEADLOCK FALSE
