SPECIFICATION FairSpec
CONSTANTS
  Slot = {reply, location}
  TextMode = {reply}
  Reply = reply
  Location = location
  None = none
  Starts = 1
  Retry = 1
  TryNum = 0
  CmdRetry = 1
  HangUps = 1
  Timeouts = 0
  MaxSend = 1
  MaxUrc = 1
  MaxTraffic = 1
  MaxStray = 0
  MaxReenter = 1
  MaxEvents = 1
PROPERTIES
  ModemIsReleased
  CommandEnds
