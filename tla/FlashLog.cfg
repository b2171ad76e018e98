CONSTANTS
  RecSize = 2
  SectorSize = 3
  DataSize = 9
  NPos = 3
  MaxTry = 3
  Byte = 8
  Erased = 7
  Program <- BitAnd
  MaxRec = 5
  MaxRestart = 1
  MaxFault = 2
SPECIFICATION FairSpec
INVARIANT TypeOK
PROPERTIES
  RefinesLogQueue
  RoomKeepsPending
  WriteKeepsPending
  EvictsOnlyWhenFull
  QuietRestart
  CallsReturn
