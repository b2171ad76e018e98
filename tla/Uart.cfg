CONSTANTS
  Size = 3
  MaxByte = 8
  MaxChar = 5
  MaxRaise = 2
CHECK_DEADLOCK FALSE
SPECIFICATION FairSpec
INVARIANTS
  FillCountsAccepted
  LossBounded
PROPERTIES
  InOrder
  SentInOrder
  NeverStuck
