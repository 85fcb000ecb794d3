SPECIFICATION Spec
CONSTANTS
  short = short
  long = long
  Msgs <- MCMsgs
  Blocks <- LargeBlocks
  StopBit = 8
  IovMin = 2
  IovMax = 0
  SockCap = 1
  MaxQueue = 1
  Faults = {}
INVARIANT
  IovFits
CHECK_DEADLOCK FALSE
