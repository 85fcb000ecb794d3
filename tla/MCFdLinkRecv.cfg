SPECIFICATION FairPeerSpec
CONSTANTS
  Shapes <- MCShapes
  StopBit = 8
  IovMax = 3
  MaxFrames = 2
  Faults = {"alloc", "severe"}
INVARIANTS
  TypeOK
  ReceivedIsSent
  StreamConserved
  BreaksForAReason
  HeldByPhase
PROPERTIES
  NothingLost
  Answered
CHECK_DEADLOCK FALSE
