\* Every scan that is read gets its replies.
CONSTANTS
  ByteBits = 2
  BufferLength = 9
  TransferMax = 8
  InitTaps = {"ShiftIR"}
  TmsSeqs <- MCScanSeqs
  ScanLens = {1, 4}
  ClockTimes = {3}
  MaxPending = 1
  MaxLag = 0
  MaxFaults = 0
SPECIFICATION FairSpec
PROPERTIES
  RecvReturns
