CONSTANTS
  c1 = c1
  c2 = c2
  c3 = c3
  Clients <- TwoClients
  Addrs <- TwoClients
  AddrOf <- OwnAddress
  MayStall = {}
  MayEnd <- AllEnd
  MaxTexts <- NoText
SPECIFICATION Spec
SYMMETRY Symmetry
CONSTRAINT Running
INVARIANTS
  ListedIffServed
PROPERTIES
  ImplementsChatRoom
CHECK_DEADLOCK FALSE
