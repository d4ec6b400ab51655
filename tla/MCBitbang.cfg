\* Both servers: XVC clocks a region of zeros in Run-Test/Idle without TMS data.
CONSTANTS
  MaxBits = 6
  TmsInputs <- MCTmsInputs
  Servers = {"rbb", "xvc"}
SPECIFICATION Spec
INVARIANTS
  TypeOK
  RegionsPartition
  WireFollowsClient
  DataExactlyWhenShifting
  FinalStateAgrees
