CONSTANTS
  Capacity = 3
  SectorRecs = 2
  MaxRexmit = 2
  MaxAsk = 2
  MaxRec = 4
  MaxStall = 1
  MaxReset = 1
  MaxRestart = 1
  MaxSms = 1
SPECIFICATION FairSpec
INVARIANTS
  TypeOK
  HoldsOldest
  NoUnexplainedLoss
PROPERTIES
  LogDrains
