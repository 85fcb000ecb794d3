SPECIFICATION Spec
CONSTANTS
  short = short
  long = long
  Msgs <- MCMsgs
  Blocks <- MCBlocks
  StopBit = 4
  IovMin = 3
  IovMax = 2
  SockCap = 3
  MaxQueue = 3
  Faults = {"severe"}
INVARIANTS
  TypeOK
  IovFits
  NoAbort
  VecBacked
  BlocksCounted
  ClipAtFirstStop
  StoppedBetweenMessages
  StopReportedOnce
PROPERTY
  StopBarrier
CHECK_DEADLOCK FALSE
