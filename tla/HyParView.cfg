SPECIFICATION FairSpec
CONSTANTS
  a = a
  b = b
  c = c
  Nodes = {a, b, c}
  ActiveCapacity = 2
  PassiveCapacity = 1
  ARWL = 2
  PRWL = 1
  ShuffleWalk = 1
  ShuffleActive = 3
  ShufflePassive = 4
  Founders = {a}
  MaxJoins = 2
  MaxEvents = 1
CHECK_DEADLOCK FALSE
INVARIANTS
  TypeOK
  ViewsWellFormed
  UndisturbedViewsAreMutual
PROPERTIES
  JoinConnects
