\* A server that reads each scan at once; two transfers may fail, after which
\* an assertion may stop the program.
CONSTANTS
  ByteBits = 2
  PacketMax = 2
  TmsSeqs <- MCTmsSeqs
  ScanLens = {1, 4, 8}
  MaxPending = 1
  MaxLag = 1
  MaxFaults = 2
SPECIFICATION FairSpec
INVARIANTS
  TypeOK
  TargetFollowsState
  RecvCorrect
  RepliesMatchScans
PROPERTIES
  SendEnds
  ImplementsAdapter
CHECK_DEADLOCK FALSE
