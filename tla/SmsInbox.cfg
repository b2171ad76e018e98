CONSTANTS
  Size = 32
  Byte = 4
  MaxLoc = 2
  MaxMsg = 3
  MaxFault = 2
SPECIFICATION FairSpec
INVARIANTS
  LossesPaid
PROPERTIES
  ExecutedOnce
  MessagesExecuted
