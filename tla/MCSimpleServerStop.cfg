SPECIFICATION ServerSpec
CONSTANTS
  p1 = p1
  p2 = p2
  s1 = s1
  s2 = s2
  main = main
  None = None
  Peers = {p1}
  Mgrs = {main}
  Sets = {s1}
  FdOf <- MCFdOf
  Kinds = {"stop"}
  MaxIn = 1
  MaxOut = 1
  MaxDepth = 1
  MoreRefs = FALSE
  Withdraws = FALSE
INVARIANTS
  DeliversForPeer
CHECK_DEADLOCK FALSE
