SPECIFICATION Spec
CONSTANTS
  a = a
  b = b
  d = d
  Nodes = {a, b}
  NoNode = NoNode
  Dials <- EachOther
  MaxCalls = 2
  MaxPending = 1
  MaxCommands = 0
  MaxFaults = 0
CHECK_DEADLOCK FALSE
INVARIANT CollisionHasASurvivor
