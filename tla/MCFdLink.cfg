SPECIFICATION Spec
CONSTANTS
  short = short
  long = long
  Msgs <- MCMsgs
  Blocks <- MCBlocks
  StopBit = 4
  IovMin = 3
  IovMax = 2
  SockCap = 3
  MaxQueue = 2
  Faults = {}
INVARIANT
  BrokenByLossOnly
PROPERTY
  ImplementsChannel
CHECK_DEADLOCK FALSE
