\* XVC sends the scans of all its regions before it reads the first.
CONSTANTS
  ByteBits = 2
  PacketMax = 2
  TmsSeqs <- MCTmsSeqs
  ScanLens = {4}
  MaxPending = 2
  MaxLag = 0
  MaxFaults = 0
SPECIFICATION Spec
INVARIANTS
  AssertionsHold
CHECK_DEADLOCK FALSE
