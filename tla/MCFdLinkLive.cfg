SPECIFICATION FairSpec
CONSTANTS
  short = short
  long = long
  Msgs <- LiveMsgs
  Blocks <- LiveBlocks
  StopBit = 4
  IovMin = 3
  IovMax = 2
  SockCap = 2
  MaxQueue = 2
  Faults = {}
PROPERTY
  EverythingArrives
CHECK_DEADLOCK FALSE
