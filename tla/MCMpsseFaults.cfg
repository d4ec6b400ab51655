\* One USB transfer fails, between two commands or inside one; a recv whose
\* replies are lost waits for ever.
\* The scan of 20 bits does not fit the buffer.
CONSTANTS
  ByteBits = 2
  BufferLength = 8
  TransferMax = 7
  InitTaps = {"ShiftIR"}
  TmsSeqs <- MCFaultSeqs
  ScanLens = {1, 20}
  ClockTimes = {3}
  MaxPending = 1
  MaxLag = 0
  MaxFaults = 1
SPECIFICATION Spec
INVARIANTS
  BufferBound
  TargetFollowsState
CHECK_DEADLOCK FALSE
