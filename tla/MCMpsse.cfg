\* A link that does not fail; two scans may be sent before the replies of the
\* first are read.
CONSTANTS
  ByteBits = 2
  BufferLength = 9
  TransferMax = 8
  InitTaps = {"ShiftIR"}
  TmsSeqs <- MCTmsSeqs
  ScanLens = {4}
  ClockTimes = {3}
  MaxPending = 2
  MaxLag = 0
  MaxFaults = 0
SPECIFICATION Spec
INVARIANTS
  TypeOK
  BufferBound
  TargetFollowsState
  RecvCorrect
  NoStaleReply
PROPERTIES
  ImplementsAdapter
