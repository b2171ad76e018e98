CONSTANTS
  Cells = 3
  SectorCells = 2
  PadCells = 1
  ShortCells <- MCShortCells
  Images <- MCImages
  Factory <- MCFactory
  Tries = 3
  MaxGlitch = 2
  Backups = {TRUE, FALSE}
  MaxStart = 2
  MaxCut = 2
  MaxFault = 1
  MaxTimeout = 1
  MaxStray = 1
SPECIFICATION FairSpec
INVARIANTS
  TypeOK
  RunsWhole
  NewImageRuns
  BackupIsWhole
  ReadyIsWhole
  NextIsErased
PROPERTIES
  RefinesImageSlot
  DownloadEnds
CHECK_DEADLOCK FALSE
