SPECIFICATION Spec
CONSTANTS
  m1 = m1
  m2 = m2
  alice = alice
  Messages = {m1, m2}
  Peers = {alice}
  RecipientOf <- SamePeer
  AllPeers = AllPeers
  NoMsg = NoMsg
  BatchSize = 2
  ClaimLimit = 2
  PeerLimit = 2
  MaxConcurrent = 2
  InboxCapacity = 1
  MaxFaults = 0
  Events = {"hint"}
INVARIANTS
  OneInFlightPerPeer
