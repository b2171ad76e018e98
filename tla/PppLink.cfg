CONSTANTS
  MaxRestart = 2
  IdMod = 4
  Proposals = {TRUE, FALSE}
  MaxDial = 2
  MaxDrop = 1
  MaxLostUp = 1
  MaxLostDown = 1
  MaxPeer = 1
  MaxNak = 1
  MaxWire = 2
SPECIFICATION FairSpec
INVARIANTS
  CountNeverWraps
  LayersInOrder
  LinkedIsAgreed
PROPERTY SilenceEnds
CHECK_DEADLOCK FALSE
