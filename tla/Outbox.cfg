SPECIFICATION FairSpec
CONSTANTS
  m1 = m1
  m2 = m2
  alice = alice
  Messages = {m1}
  Peers = {alice}
  RecipientOf <- OnePeer
  AllPeers = AllPeers
  NoMsg = NoMsg
  BatchSize = 2
  ClaimLimit = 2
  PeerLimit = 2
  MaxConcurrent = 2
  InboxCapacity = 1
  MaxFaults = 1
  Events = {"revoke", "expire", "delete", "open", "netchange", "legacy"}
INVARIANTS
  TypeOK
  AckedOnlyIfAccepted
  PresentedOncePerMailbox
  UnackedStaysRetryable
PROPERTIES
  TerminalRowsStayTerminal
  NoClaimWhileRunning
  KeepsPromise
  PassTerminates
  EventuallyAcked
