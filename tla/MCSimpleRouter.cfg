SPECIFICATION Spec
CONSTANTS
  p1 = p1
  p2 = p2
  main = main
  None = None
  Peers = {p1, p2}
  Mgrs = {main}
  FdOf <- MCFdOf
  Kinds = {"mail", "junk", "stop", "eof"}
  MaxIn = 2
  MaxOut = 1
  MaxDepth = 3
SYMMETRY Interchangeable
INVARIANTS
  NothingDangles
  LinksCounted
  ConnectedIsWatched
  RouterGoesLast
PROPERTY
  DataKept
CHECK_DEADLOCK FALSE
