CONSTANT
  Packets = 4
SPECIFICATION Spec
INVARIANTS
  LinesShown
  ShownInOrder
CHECK_DEADLOCK FALSE
