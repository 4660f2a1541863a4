CONSTANTS
  c1 = c1
  c2 = c2
  c3 = c3
  Clients <- ThreeClients
  Addrs <- ThreeClients
  AddrOf <- OwnAddress
  MayStall = {}
  MayEnd <- Stays
  MaxTexts <- NoText
SPECIFICATION Spec
SYMMETRY Symmetry
CONSTRAINT Running
INVARIANTS
  MembersMissNothing
CHECK_DEADLOCK FALSE
