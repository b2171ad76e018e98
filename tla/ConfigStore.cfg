SPECIFICATION Spec
CONSTANTS
  Words = 3
  Setting = {0, 1}
  Default = 0
  CheckSum <- MCCheckSum
  SyncEvery = 3
  MaxCommand = 2
  MaxFault = 1
  MaxCut = 2
  MaxTorn = 1
CHECK_DEADLOCK FALSE
INVARIANTS RestoredWasSaved IdleIsAsked
