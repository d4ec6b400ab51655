\* Chunks end with a whole bit; a second client follows one that left.
CONSTANTS
  BufferSize = 9
  SplitBits = FALSE
  Approaches <- MCApproaches
  MaxBits = 18
  MaxSessions = 2
SPECIFICATION Spec
INVARIANTS
  AnswersInOrder
  CaughtUp
  AssertionsHold
CHECK_DEADLOCK FALSE
