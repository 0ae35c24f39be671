SPECIFICATION FairSpec
CONSTANTS
  a = a
  b = b
  d = d
  Nodes = {a, b, d}
  NoNode = NoNode
  Dials <- TwoAndOne
  MaxCalls = 2
  MaxPending = 1
  MaxCommands = 2
  MaxFaults = 1
CHECK_DEADLOCK FALSE
INVARIANTS
  TypeOK
  OneTerminalEvent
  NoHalfOpenCall
PROPERTIES
  EveryCallIsDecided
  ImplementsLifecycle
