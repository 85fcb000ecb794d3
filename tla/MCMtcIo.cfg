SPECIFICATION Spec
CONSTANTS
  StopBit = 2
  MaxLen = 4
  MaxBlocks = 4
INVARIANTS
  AllHeadersCarry
  PopAddsUp
  ReadersAgree
CHECK_DEADLOCK FALSE
