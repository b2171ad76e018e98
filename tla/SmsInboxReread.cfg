CONSTANTS
  Size = 32
  Byte = 4
  MaxLoc = 2
  MaxMsg = 2
  MaxFault = 0
SPECIFICATION FairSpec
PROPERTIES DeletesReceived
