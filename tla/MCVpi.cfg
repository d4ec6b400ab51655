\* Two clients, with each adapter, that leave at any point, and SIGINT at any
\* time.  The server may be silent, hung or ended.
CONSTANTS
  Adapters = {"mpsse", "usb_blaster"}
  CmdCells = 3
  TmsSeqs <- MCTmsSeqs
  MaxCommands = 4
  MaxAhead = 6
  MaxSessions = 2
SPECIFICATION FairSpec
INVARIANTS
  TypeOK
  AnswersInOrder
  CaughtUp
  FirstClientServed
PROPERTIES
  StopEnds
CHECK_DEADLOCK FALSE
