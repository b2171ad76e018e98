SPECIFICATION Spec
CONSTANTS
  Slot = {reply, location}
  TextMode = {reply}
  Reply = reply
  Location = location
  None = none
  Starts = 1
  Retry = 1
  TryNum = 1
  CmdRetry = 0
  HangUps = 1
  Timeouts = 0
  MaxSend = 1
  MaxUrc = 2
  MaxTraffic = 3
  MaxStray = 1
  MaxReenter = 1
  MaxEvents = 2
INVARIANT OwnAnswer
PROPERTY HeardOnce
