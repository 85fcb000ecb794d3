SPECIFICATION FairSpec
CONSTANTS
  p1 = p1
  p2 = p2
  main = main
  None = None
  Peers = {p1, p2}
  Mgrs = {main}
  FdOf <- MCFdOf
  Kinds = {"mail", "eof"}
  MaxIn = 1
  MaxOut = 1
  MaxDepth = 1
PROPERTIES
  FlushedAtLast
  StepEnds
CHECK_DEADLOCK FALSE
