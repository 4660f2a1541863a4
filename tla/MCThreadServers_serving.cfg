CONSTANTS
  c1 = c1
  c2 = c2
  None = None
  Clients <- TwoClients
  MayStall = {c1}
  Interrupts = TRUE
SPECIFICATION MCSpec
INVARIANTS
  ThreadTypes
  PythonNicknamesPair
PROPERTIES
  BroadcastEnds
  GoneIsClosed
  SenderStops
  PythonCloseEnds
CHECK_DEADLOCK FALSE
