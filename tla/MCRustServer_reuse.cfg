CONSTANTS
  c1 = c1
  c2 = c2
  c3 = c3
  Clients <- TwoClients
  Addrs <- TwoClients
  AddrOf <- SameAddress
  MayStall = {}
  MayEnd <- C1Leaves
  MaxTexts <- NoText
SPECIFICATION Spec
INVARIANTS
  ConnectedIsListed
CHECK_DEADLOCK FALSE
