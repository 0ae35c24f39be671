SPECIFICATION FairSpec
CONSTANTS
  a = a
  b = b
  Nodes = {a, b}
  MaxCommands = 3
  MaxFaults = 1
CHECK_DEADLOCK FALSE
INVARIANTS
  TypeOK
  FriendshipIsAgreed
  NoRequestVanishes
  AcceptanceIsOnItsWay
  RequestFileIsCurrent
PROPERTY AcceptanceArrives
