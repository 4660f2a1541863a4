CONSTANT
  Packets = 3
SPECIFICATION Spec
INVARIANTS
  ShownWasSent
CHECK_DEADLOCK FALSE
