SPECIFICATION FairSpec
CONSTANTS
  Workers = {w1, w2}
  UI = UI
  MaxTickets = 2
  MaxPending = 2
  MaxPerTick = 2
  LastGeneration = 2
  SdlCapacity = 2
  MaxRequests = 1
PROPERTIES
  TicketsComplete
  ExitIsHonoured
  FrameRequestIsServed
