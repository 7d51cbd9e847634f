SPECIFICATION Spec
CONSTANTS
  Workers = {w1, w2}
  UI = UI
  MaxTickets = 3
  MaxPending = 2
  MaxPerTick = 2
  LastGeneration = 2
  SdlCapacity = 2
  MaxRequests = 1
SYMMETRY Symmetry
INVARIANTS
  TypeOK
  WakeProtocol
  NoLostWake
  PendingCountExact
  ClosedIsQuiescent
PROPERTY
  ImplementsCommandQueue
