SPECIFICATION SpecOneDisturbance
CONSTANTS
  a = a
  b = b
  c = c
  m1 = m1
  m2 = m2
  m3 = m3
  m4 = m4
  Lone = m1
  Nodes = {a, b, c}
  Overlay <- Complete
  SwarmMessages = {m1, m2}
  NeighborMessages = {m4}
  NoNode = NoNode
  NoMessage = NoMessage
  Threshold = 1
  MaxChurn = 1
  MaxEvictions = 1
  IdsExpire = TRUE
SYMMETRY Symmetric
CHECK_DEADLOCK FALSE
INVARIANTS
  TypeOK
  AdvertisedIsChased
  NeighborsScopeIsOneHop
PROPERTY ImplementsFlooding
