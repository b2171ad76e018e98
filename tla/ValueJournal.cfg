SPECIFICATION JournalSpec
CONSTANTS
  Variable = {"gpsLat", "gpsLon"}
  SavedAt <- Own
  LoadedFrom <- Own
  NSector = 3
  NSlot = 3
  Datum = {"d1", "d2"}
  Zero = "zero"
  MaxSave = 6
  MaxCut = 2
  MaxFault = 1
INVARIANT RememberedInSector
CHECK_DEADLOCK FALSE
