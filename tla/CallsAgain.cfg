SPECIFICATION FairSpec
CONSTANTS
  a = a
  b = b
  d = d
  Nodes = {a, b}
  NoNode = NoNode
  Dials <- OneWay
  MaxCalls = 2
  MaxPending = 1
  MaxCommands = 1
  MaxFaults = 0
CHECK_DEADLOCK FALSE
PROPERTY NextCallIsUndisturbed
