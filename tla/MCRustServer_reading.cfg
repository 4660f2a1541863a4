CONSTANTS
  c1 = c1
  c2 = c2
  c3 = c3
  Clients <- TwoClients
  Addrs <- TwoClients
  AddrOf <- OwnAddress
  MayStall <- JustC1
  MayEnd <- C1Leaves
  MaxTexts <- NoText
SPECIFICATION ReadingSpec
CONSTRAINT Running
INVARIANTS
  WaitsEndAtAPeer
PROPERTIES
  BroadcastCompletes
  GoneIsRemoved
  QueuedIsSent
CHECK_DEADLOCK FALSE
