\* Clients that send anything, in packets cut and read anyhow; the chain has
\* devices or none are found.
CONSTANTS
  MaxTaps = 3
  IdBits = 2
  Requests <- MCRequests
  FifoLens = {2, 3}
  Chains <- MCChains
  MaxMessages = 4
  MaxAhead = 2
  MaxFifos = 1
  MaxSessions = 2
SPECIFICATION Spec
INVARIANTS
  TypeOK
  AnswersInOrder
  CaughtUp
  FramingKept
  CarefulClientServed
CHECK_DEADLOCK FALSE
