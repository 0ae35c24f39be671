SPECIFICATION AskingSpec
CONSTANTS
  a = a
  b = b
  c = c
  Nodes = {a, b}
  ActiveCapacity = 2
  PassiveCapacity = 1
  ARWL = 2
  PRWL = 1
  ShuffleWalk = 1
  ShuffleActive = 3
  ShufflePassive = 4
  Founders = {a}
  MaxJoins = 2
  MaxEvents = 1
CHECK_DEADLOCK FALSE
INVARIANT ActiveIsBidirectional
