\* Commands cut and joined by TCP, one too long for the buffer, clients that
\* leave before they are answered, with each adapter.  The bounded client may say no more.
CONSTANTS
  BufferSize = 8
  Adapters = {"mpsse", "usb_blaster"}
  InitFreq = 10
  Commands <- MCCommands
  MaxCommands = 3
  MaxAhead = 2
  MaxSessions = 2
SPECIFICATION FairSpec
INVARIANTS
  TypeOK
  AnswersMatch
  CaughtUp
  AbortsOnlyUnanswered
PROPERTIES
  TckNotFaster
  LeavingNoticed
CHECK_DEADLOCK FALSE
