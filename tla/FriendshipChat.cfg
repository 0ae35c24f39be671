SPECIFICATION Spec
CONSTANTS
  a = a
  b = b
  Nodes = {a, b}
  MaxCommands = 3
  MaxFaults = 0
CHECK_DEADLOCK FALSE
INVARIANT FriendshipIsExplicit
