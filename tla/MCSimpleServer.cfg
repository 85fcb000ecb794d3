SPECIFICATION ServerSpec
CONSTANTS
  p1 = p1
  p2 = p2
  s1 = s1
  s2 = s2
  main = main
  None = None
  Peers = {p1, p2}
  Mgrs = {main}
  Sets = {s1, s2}
  FdOf <- MCFdOf
  Kinds = {"eof"}
  MaxIn = 1
  MaxOut = 0
  MaxDepth = 2
  MoreRefs = TRUE
  Withdraws = TRUE
SYMMETRY Interchangeable
INVARIANTS
  ServerTypeOK
  SetsCounted
  PeersCounted
  HoldersConnected
  ServerIsCounted
CHECK_DEADLOCK FALSE
