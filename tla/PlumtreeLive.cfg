SPECIFICATION FairSpecLoneLast
CONSTANTS
  a = a
  b = b
  c = c
  m1 = m1
  m2 = m2
  m3 = m3
  m4 = m4
  Lone = m3
  Nodes = {a, b, c}
  Overlay <- Complete
  SwarmMessages = {m1, m2, m3}
  NeighborMessages = {}
  NoNode = NoNode
  NoMessage = NoMessage
  Threshold = 1
  MaxChurn = 0
  MaxEvictions = 0
  IdsExpire = FALSE
CHECK_DEADLOCK FALSE
INVARIANTS
  AdvertisedIsChased
  QueuedIsDispatched
  DeliveredAtMostOnce
  PayloadUnderWay
  QuietMeansDelivered
  FirstBroadcastSpans
  LoneBroadcastRepairsTree
PROPERTIES
  EventuallyDelivered
  ImplementsFlooding
