\* One USB transfer fails in the middle of a scan:
\* the server aborts where the state is not the predicted one.
CONSTANTS
  ByteBits = 2
  BufferLength = 9
  TransferMax = 8
  InitTaps = {"ShiftIR"}
  TmsSeqs <- MCTmsSeqs
  ScanLens = {4}
  ClockTimes = {3}
  MaxPending = 1
  MaxLag = 0
  MaxFaults = 1
SPECIFICATION Spec
PROPERTIES
  ScanAdvancesState
CHECK_DEADLOCK FALSE
