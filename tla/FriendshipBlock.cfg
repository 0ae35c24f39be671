SPECIFICATION Spec
CONSTANTS
  a = a
  b = b
  Nodes = {a, b}
  MaxCommands = 4
  MaxFaults = 0
CHECK_DEADLOCK FALSE
INVARIANT BlockingIsEffective
