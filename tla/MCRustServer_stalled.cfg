CONSTANTS
  c1 = c1
  c2 = c2
  c3 = c3
  Clients <- TwoClients
  Addrs <- TwoClients
  AddrOf <- OwnAddress
  MayStall <- JustC1
  MayEnd <- Stays
  MaxTexts <- NoText
SPECIFICATION FairSpec
PROPERTIES
  BroadcastCompletes
CHECK_DEADLOCK FALSE
