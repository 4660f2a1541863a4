CONSTANTS
  c1 = c1
  c2 = c2
  c3 = c3
  Clients <- TwoClients
  Addrs <- TwoClients
  AddrOf <- OwnAddress
  MayStall = {}
  MayEnd <- C1Shuts
  MaxTexts <- OneEach
SPECIFICATION Spec
CONSTRAINT Running
INVARIANTS
  TypeOK
  MembersMissNothing
  AuthorOrder
  JoinedFirstLeftLast
CHECK_DEADLOCK FALSE
