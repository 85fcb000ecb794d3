SPECIFICATION FairSpec
CONSTANTS
  main = main
  sync = sync
  Backends = {main, sync}
  SameFd = FALSE
  MaxQueue = 2
  MaxIn = 2
  MaxAll = 3
INVARIANTS
  TypeOK
  TestsUpToDate
  PreparedWhenEnabled
  CallsAreHeld
PROPERTIES
  DropsOnlyWhenTold
  NoLostWakeup
CHECK_DEADLOCK FALSE
