--------------------------- MODULE PlumtreeProofs ---------------------------
(***************************************************************************)
(* Theorems about Plumtree, for every overlay, every set of messages and   *)
(* every amount of churn and eviction.                                     *)
(***************************************************************************)
EXTENDS Plumtree, SequenceTheorems, TLAPS

\* Messages that have been broadcast.
Known == {m \in Messages : author[m] # NoNode}

\* Announcements and packets that speak only of messages in K.
AnnouncementOf(K) == [id : SwarmMessages \cap K, round : Nat]
PacketOf(K) == [kind : {"Gossip"}, id : SwarmMessages \cap K, scope : Nat]
               \cup [kind : {"Gossip"}, id : NeighborMessages \cap K,
                     scope : {DirectScope}]
               \cup [kind : {"IHave"}, list : Seq(AnnouncementOf(K))]
               \cup [kind : {"Graft"}, id : (SwarmMessages \cap K) \cup {NoMessage}]
               \cup [kind : {"Prune"}]

\* The inductive strengthening of TypeOK: a node holds, announces, chases and
\* sends only messages that somebody broadcast.
PeerInv ==
  /\ view \in [Nodes -> SUBSET Nodes]
  /\ eager \in [Nodes -> SUBSET Nodes]
  /\ lazy \in [Nodes -> SUBSET Nodes]
  /\ \A n \in Nodes : eager[n] \cap lazy[n] = {}
LocalInv ==
  /\ missing \in [Nodes -> [SwarmMessages -> SUBSET Claim]]
  /\ received \in [Nodes -> SUBSET (SwarmMessages \cap Known)]
  /\ cache \in [Nodes -> [SwarmMessages -> Nat \cup {NotCached}]]
  /\ \A n \in Nodes, m \in SwarmMessages :
       missing[n][m] # {} \/ cache[n][m] # NotCached => m \in Known
CounterInv ==
  /\ authored \in [Nodes -> SUBSET SwarmMessages]
  /\ maxSeen \in [Nodes -> Nat]
  /\ graftFlag \in [Nodes -> SUBSET SwarmMessages]
  /\ graftTimers \in [Nodes -> [SwarmMessages -> Nat]]
  /\ dispatchFlag \in [Nodes -> BOOLEAN]
  /\ dispatchTimers \in [Nodes -> Nat]
  /\ author \in [Messages -> Nodes \cup {NoNode}]
  /\ gaps \in [Nodes -> Nat]
  /\ churn \in 0..MaxChurn
  /\ evictions \in 0..MaxEvictions
EmittedInv ==
  /\ emitted \in [Nodes -> [Messages -> Nat]]
  /\ \A n \in Nodes, m \in Messages : emitted[n][m] > 0 => m \in Known
QueueInv == queue \in [Nodes -> [Nodes -> Seq(AnnouncementOf(Known))]]
NetInv == net \in [Links -> Seq(PacketOf(Known))]

TypeInv ==
  PeerInv /\ LocalInv /\ CounterInv /\ EmittedInv /\ QueueInv /\ NetInv

-----------------------------------------------------------------------------
(* What the helpers return. *)

\* More messages known, more packets allowed.
LEMMA PacketMonotonic ==
  ASSUME NEW K, NEW L, K \subseteq L
  PROVE  /\ AnnouncementOf(K) \subseteq AnnouncementOf(L)
         /\ Seq(AnnouncementOf(K)) \subseteq Seq(AnnouncementOf(L))
         /\ PacketOf(K) \subseteq PacketOf(L)
         /\ Seq(PacketOf(K)) \subseteq Seq(PacketOf(L))
<1>1. AnnouncementOf(K) \subseteq AnnouncementOf(L)
  BY DEF AnnouncementOf
<1>2. Seq(AnnouncementOf(K)) \subseteq Seq(AnnouncementOf(L))
  BY <1>1, SeqMonotonic, Zenon
<1>3. PacketOf(K) \subseteq PacketOf(L)
  BY <1>2 DEF PacketOf
<1>4. Seq(PacketOf(K)) \subseteq Seq(PacketOf(L))
  BY <1>3, SeqMonotonic, Zenon
<1> QED
  BY <1>1, <1>2, <1>3, <1>4

\* Packets about known messages are packets.
LEMMA PacketsAreTyped ==
  ASSUME NEW K
  PROVE  /\ Seq(AnnouncementOf(K)) \subseteq Seq(Announcement)
         /\ Seq(PacketOf(K)) \subseteq Seq(Packet)
<1>1. AnnouncementOf(K) \subseteq Announcement
  BY DEF AnnouncementOf, Announcement
<1>2. Seq(AnnouncementOf(K)) \subseteq Seq(Announcement)
  BY <1>1, SeqMonotonic, Zenon
<1>3. PacketOf(K) \subseteq Packet
  BY <1>2 DEF PacketOf, Packet
<1> QED
  BY <1>2, <1>3, SeqMonotonic, Zenon

\* The fields of a packet, by its kind.
LEMMA PacketFields ==
  ASSUME NEW K, NEW pkt \in PacketOf(K)
  PROVE  /\ pkt.kind = "Gossip" =>
              \/ pkt.id \in SwarmMessages \cap K /\ pkt.scope \in Nat
              \/ pkt.id \in NeighborMessages \cap K /\ pkt.scope = DirectScope
         /\ pkt.kind = "IHave" => pkt.list \in Seq(AnnouncementOf(K))
         /\ pkt.kind = "Graft" => pkt.id \in (SwarmMessages \cap K) \cup {NoMessage}
  BY DEF PacketOf

\* Sending keeps the streams well formed.
LEMMA TransmitType ==
  ASSUME NEW S, NEW streams \in [Links -> Seq(S)], NEW n \in Nodes,
         NEW out, \A p \in Nodes : out[p] \in Seq(S)
  PROVE  Transmit(streams, n, out) \in [Links -> Seq(S)]
<1>1. ASSUME NEW l \in Links PROVE streams[l] \o out[l[2]] \in Seq(S)
  <2>1. l[2] \in Nodes
    BY DEF Links
  <2> QED
    BY <2>1
<1> QED
  BY <1>1 DEF Transmit

\* Taking a packet keeps the streams well formed and yields a packet.
LEMMA TakenType ==
  ASSUME NEW S, net \in [Links -> Seq(S)], NEW s \in Nodes, NEW n \in Nodes,
         NEW kind, Incoming(s, n, kind)
  PROVE  /\ Taken(s, n) \in [Links -> Seq(S)]
         /\ Head(net[<<s, n>>]) \in S
         /\ Head(net[<<s, n>>]).kind = kind
         /\ s # n
<1>1. <<s, n>> \in Links /\ net[<<s, n>>] \in Seq(S) /\ net[<<s, n>>] # <<>>
  BY DEF Incoming
<1>2. Tail(net[<<s, n>>]) \in Seq(S) /\ Head(net[<<s, n>>]) \in S
  BY <1>1
<1> QED
  BY <1>1, <1>2 DEF Incoming, Taken, Links

\* Queueing an announcement of a known message.
LEMMA LazyPushType ==
  ASSUME PeerInv, CounterInv, NEW K, NEW m \in SwarmMessages \cap K,
         queue \in [Nodes -> [Nodes -> Seq(AnnouncementOf(K))]],
         NEW n \in Nodes, NEW round \in Nat, NEW from, LazyPush(n, m, round, from)
  PROVE  /\ queue' \in [Nodes -> [Nodes -> Seq(AnnouncementOf(K))]]
         /\ dispatchFlag' \in [Nodes -> BOOLEAN]
         /\ dispatchTimers' \in [Nodes -> Nat]
<1>1. [id |-> m, round |-> round] \in AnnouncementOf(K)
  BY DEF AnnouncementOf
<1>2. ASSUME NEW p \in Nodes
      PROVE  Append(queue[n][p], [id |-> m, round |-> round])
               \in Seq(AnnouncementOf(K))
  BY <1>1
<1>3. queue' \in [Nodes -> [Nodes -> Seq(AnnouncementOf(K))]]
  BY <1>2 DEF LazyPush
<1>4. dispatchFlag' \in [Nodes -> BOOLEAN]
  BY Zenon DEF LazyPush, CounterInv
<1>5. dispatchTimers' \in [Nodes -> Nat]
  BY DEF LazyPush, CounterInv
<1> QED
  BY <1>3, <1>4, <1>5

LEMMA TypeInit == Init => TypeInv
<1> SUFFICES ASSUME Init PROVE TypeInv
  OBVIOUS
<1> USE PlumtreeAssumption
<1>1. PeerInv
  BY DEF Init, PeerInv
<1>2. LocalInv
  BY DEF Init, LocalInv, NotCached
<1>3. CounterInv
  BY DEF Init, CounterInv
<1>4. EmittedInv
  BY DEF Init, EmittedInv
<1>5. QueueInv
  BY DEF Init, QueueInv
<1>6. NetInv
  BY DEF Init, NetInv
<1> QED
  BY <1>1, <1>2, <1>3, <1>4, <1>5, <1>6 DEF TypeInv

LEMMA TypeBroadcastSwarm ==
  ASSUME TypeInv, NEW n \in Nodes, NEW m \in SwarmMessages, BroadcastSwarm(n, m)
  PROVE  TypeInv'
<1> USE PlumtreeAssumption DEF TypeInv
<1>1. Known' = Known \cup {m} /\ author' \in [Messages -> Nodes \cup {NoNode}]
  BY DEF BroadcastSwarm, Known, CounterInv, Messages
<1>2. PeerInv'
  BY DEF BroadcastSwarm, PeerInv
<1>3. LocalInv'
  BY <1>1 DEF BroadcastSwarm, LocalInv, NotCached
<1>4. EmittedInv'
  BY <1>1 DEF BroadcastSwarm, EmittedInv
<1>5. queue \in [Nodes -> [Nodes -> Seq(AnnouncementOf(Known'))]]
  <2>1. Seq(AnnouncementOf(Known)) \subseteq Seq(AnnouncementOf(Known'))
    BY <1>1, PacketMonotonic
  <2> QED
    BY <2>1 DEF QueueInv
<1>6. /\ QueueInv'
      /\ dispatchFlag' \in [Nodes -> BOOLEAN]
      /\ dispatchTimers' \in [Nodes -> Nat]
  <2>1. m \in SwarmMessages \cap Known' /\ 0 \in Nat /\ LazyPush(n, m, 0, n)
    BY <1>1 DEF BroadcastSwarm
  <2> QED
    BY <1>5, <2>1, LazyPushType, Zenon DEF QueueInv
<1>7. CounterInv'
  BY <1>1, <1>6 DEF BroadcastSwarm, CounterInv
<1>8. net \in [Links -> Seq(PacketOf(Known'))]
  BY <1>1, PacketMonotonic DEF NetInv
<1>9. Gossip(m, 0) \in PacketOf(Known')
  BY <1>1 DEF Gossip, PacketOf
<1>10. \A p \in Nodes : EagerPush(n, m, 0, n)[p] \in Seq(PacketOf(Known'))
  BY <1>9 DEF EagerPush
<1>11. NetInv'
  BY <1>8, <1>10, TransmitType DEF BroadcastSwarm, NetInv
<1> QED
  BY <1>2, <1>3, <1>4, <1>6, <1>7, <1>11

LEMMA TypeBroadcastNeighbors ==
  ASSUME TypeInv, NEW n \in Nodes, NEW m \in NeighborMessages,
         BroadcastNeighbors(n, m)
  PROVE  TypeInv'
<1> USE PlumtreeAssumption DEF TypeInv
<1>1. Known' = Known \cup {m} /\ author' \in [Messages -> Nodes \cup {NoNode}]
  BY DEF BroadcastNeighbors, Known, CounterInv, Messages
<1>2. PeerInv' /\ CounterInv'
  BY <1>1 DEF BroadcastNeighbors, protocolVars, PeerInv, CounterInv
<1>3. LocalInv'
  BY <1>1 DEF BroadcastNeighbors, protocolVars, LocalInv
<1>4. EmittedInv'
  BY <1>1 DEF BroadcastNeighbors, EmittedInv
<1>5. QueueInv'
  <2>1. Seq(AnnouncementOf(Known)) \subseteq Seq(AnnouncementOf(Known'))
    BY <1>1, PacketMonotonic
  <2> QED
    BY <2>1 DEF QueueInv, BroadcastNeighbors, protocolVars
<1>6. net \in [Links -> Seq(PacketOf(Known'))]
  BY <1>1, PacketMonotonic DEF NetInv
<1>7. Gossip(m, DirectScope) \in PacketOf(Known')
  BY <1>1 DEF Gossip, PacketOf
<1>8. \A p \in Nodes : EagerPush(n, m, DirectScope, n)[p] \in Seq(PacketOf(Known'))
  BY <1>7 DEF EagerPush
<1>9. NetInv'
  BY <1>6, <1>8, TransmitType DEF BroadcastNeighbors, NetInv
<1> QED
  BY <1>2, <1>3, <1>4, <1>5, <1>9

LEMMA TypeOnGossipEcho ==
  ASSUME TypeInv, NEW s \in Nodes, NEW n \in Nodes, OnGossipEcho(s, n)
  PROVE  TypeInv'
<1> USE DEF TypeInv
<1>1. Known' = Known
  BY DEF OnGossipEcho, Known
<1>2. PeerInv' /\ LocalInv' /\ CounterInv' /\ EmittedInv' /\ QueueInv'
  BY <1>1 DEF OnGossipEcho, PeerInv, LocalInv, CounterInv, EmittedInv, QueueInv
<1>3. NetInv'
  BY <1>1, TakenType DEF OnGossipEcho, NetInv
<1> QED
  BY <1>2, <1>3

LEMMA TypeOnGossipDuplicate ==
  ASSUME TypeInv, NEW s \in Nodes, NEW n \in Nodes, OnGossipDuplicate(s, n)
  PROVE  TypeInv'
<1> USE DEF TypeInv
<1>1. Known' = Known
  BY DEF OnGossipDuplicate, Known
<1>2. LocalInv' /\ CounterInv' /\ EmittedInv' /\ QueueInv'
  BY <1>1 DEF OnGossipDuplicate, LocalInv, CounterInv, EmittedInv, QueueInv
<1>3. PeerInv'
  BY DEF OnGossipDuplicate, PeerInv, AddLazy
<1>4. Taken(s, n) \in [Links -> Seq(PacketOf(Known))]
  BY TakenType DEF OnGossipDuplicate, NetInv
<1>5. Prune \in PacketOf(Known)
  BY DEF Prune, PacketOf
<1>6. \A p \in Nodes : [q \in Nodes |-> IF q = s THEN <<Prune>> ELSE <<>>][p]
                         \in Seq(PacketOf(Known))
  BY <1>5
<1>7. NetInv'
  BY <1>1, <1>4, <1>6, TransmitType DEF OnGossipDuplicate, NetInv
<1> QED
  BY <1>2, <1>3, <1>7

LEMMA TypeOnGossipNeighbors ==
  ASSUME TypeInv, NEW s \in Nodes, NEW n \in Nodes, OnGossipNeighbors(s, n)
  PROVE  TypeInv'
<1> USE DEF TypeInv
<1>1. Known' = Known
  BY DEF OnGossipNeighbors, Known
<1>2. PeerInv' /\ LocalInv' /\ CounterInv' /\ QueueInv'
  BY <1>1 DEF OnGossipNeighbors, protocolVars, PeerInv, LocalInv, CounterInv,
              QueueInv
<1>3. NetInv' /\ Head(net[<<s, n>>]) \in PacketOf(Known)
      /\ Head(net[<<s, n>>]).kind = "Gossip"
  BY <1>1, TakenType DEF OnGossipNeighbors, NetInv
<1>4. PICK m \in Known :
        m \in Messages /\ emitted' = [emitted EXCEPT ![n][m] = @ + 1]
  <2>1. Head(net[<<s, n>>]).id \in Known
    BY <1>3, PacketFields
  <2> QED
    BY <2>1 DEF OnGossipNeighbors, Known
<1>5. EmittedInv'
  BY <1>1, <1>4 DEF EmittedInv
<1> QED
  BY <1>2, <1>3, <1>5

LEMMA TypeOnPrune ==
  ASSUME TypeInv, NEW s \in Nodes, NEW n \in Nodes, OnPrune(s, n)
  PROVE  TypeInv'
<1> USE DEF TypeInv
<1>1. Known' = Known
  BY DEF OnPrune, Known
<1>2. LocalInv' /\ CounterInv' /\ EmittedInv' /\ QueueInv'
  BY <1>1 DEF OnPrune, LocalInv, CounterInv, EmittedInv, QueueInv
<1>3. PeerInv'
  BY DEF OnPrune, PeerInv, AddLazy
<1>4. NetInv'
  BY <1>1, TakenType DEF OnPrune, NetInv
<1> QED
  BY <1>2, <1>3, <1>4

LEMMA TypeOnIHave ==
  ASSUME TypeInv, NEW s \in Nodes, NEW n \in Nodes, OnIHave(s, n)
  PROVE  TypeInv'
<1> USE DEF TypeInv
<1> DEFINE list == Head(net[<<s, n>>]).list
           lacked == {list[i].id : i \in DOMAIN list} \ received[n]
<1>1. Known' = Known
  BY DEF OnIHave, Known
<1>2. PeerInv' /\ EmittedInv' /\ QueueInv'
  BY <1>1 DEF OnIHave, PeerInv, EmittedInv, QueueInv
<1>3. NetInv' /\ Head(net[<<s, n>>]) \in PacketOf(Known)
      /\ Head(net[<<s, n>>]).kind = "IHave"
  BY <1>1, TakenType DEF OnIHave, NetInv
<1>4. list \in Seq(AnnouncementOf(Known))
  BY <1>3, PacketFields
<1>5. \A i \in DOMAIN list : /\ list[i] \in AnnouncementOf(Known)
                             /\ i \in Nat
  BY <1>4
<1>6. lacked \subseteq SwarmMessages \cap Known
  BY <1>5 DEF AnnouncementOf
<1> HIDE DEF list, lacked
<1>7. CounterInv'
  <2>1. /\ graftTimers' = [graftTimers EXCEPT ![n] =
              [m \in SwarmMessages |-> IF m \in lacked \ graftFlag[n]
                 THEN graftTimers[n][m] + 1 ELSE graftTimers[n][m]]]
        /\ graftFlag' = [graftFlag EXCEPT ![n] = @ \cup lacked]
    BY DEF OnIHave, list, lacked
  <2>2. graftTimers' \in [Nodes -> [SwarmMessages -> Nat]]
    BY <2>1 DEF CounterInv
  <2>3. graftFlag' \in [Nodes -> SUBSET SwarmMessages]
    BY <1>6, <2>1 DEF CounterInv
  <2> QED
    BY <2>2, <2>3 DEF OnIHave, CounterInv
<1>8. PICK last \in LastArrival(n) :
        missing' = [missing EXCEPT ![n] =
          [m \in SwarmMessages |-> missing[n][m] \cup
             (IF m \in lacked THEN NewClaims(list, m, s, last) ELSE {})]]
  BY DEF OnIHave, list, lacked
<1>9. last \in Nat
  BY <1>8 DEF LastArrival, LocalInv, Claim
<1>10. \A m \in SwarmMessages : NewClaims(list, m, s, last) \subseteq Claim
  BY <1>5, <1>9 DEF NewClaims, AnnouncementOf, Claim
<1>11. LocalInv'
  BY <1>1, <1>6, <1>8, <1>10 DEF OnIHave, LocalInv
<1> QED
  BY <1>2, <1>3, <1>7, <1>11

LEMMA TypeOnGraft ==
  ASSUME TypeInv, NEW s \in Nodes, NEW n \in Nodes, OnGraft(s, n)
  PROVE  TypeInv'
<1> USE DEF TypeInv
<1> DEFINE m == Head(net[<<s, n>>]).id
           held == m # NoMessage /\ cache[n][m] # NotCached
           out == [p \in Nodes |-> IF held /\ p = s
                     THEN <<Gossip(m, cache[n][m])>> ELSE <<>>]
<1>1. Known' = Known
  BY DEF OnGraft, Known
<1>2. LocalInv' /\ CounterInv' /\ EmittedInv' /\ QueueInv'
  BY <1>1 DEF OnGraft, LocalInv, CounterInv, EmittedInv, QueueInv
<1>3. PeerInv'
  BY DEF OnGraft, PeerInv, AddEager
<1>4. /\ Taken(s, n) \in [Links -> Seq(PacketOf(Known))]
      /\ Head(net[<<s, n>>]) \in PacketOf(Known)
      /\ Head(net[<<s, n>>]).kind = "Graft"
  BY TakenType DEF OnGraft, NetInv
<1>5. m \in (SwarmMessages \cap Known) \cup {NoMessage}
  BY <1>4, PacketFields
<1>6. held => Gossip(m, cache[n][m]) \in PacketOf(Known)
  <2> SUFFICES ASSUME held PROVE Gossip(m, cache[n][m]) \in PacketOf(Known)
    OBVIOUS
  <2>1. m \in SwarmMessages \cap Known /\ cache[n][m] \in Nat
    BY <1>5 DEF LocalInv
  <2> QED
    BY <2>1 DEF Gossip, PacketOf
<1>7. \A p \in Nodes : out[p] \in Seq(PacketOf(Known))
  BY <1>6
<1> HIDE DEF out
<1>8. NetInv'
  BY <1>1, <1>4, <1>7, TransmitType DEF OnGraft, NetInv, out
<1> QED
  BY <1>2, <1>3, <1>8

LEMMA TypeOnGossipSwarm ==
  ASSUME TypeInv, NEW s \in Nodes, NEW n \in Nodes, OnGossipSwarm(s, n)
  PROVE  TypeInv'
<1> USE DEF TypeInv
<1> DEFINE m == Head(net[<<s, n>>]).id
           hops == Head(net[<<s, n>>]).scope
           round == hops + 1
           better == Promoted(missing[n][m], round)
           worse == IF better = {} THEN {} ELSE {s}
           push == EagerPush(n, m, round, s)
           graft == [p \in Nodes |-> IF p \in better \ eager[n]
                                     THEN <<Graft(NoMessage)>> ELSE <<>>]
           prune == [p \in Nodes |-> IF p \in worse THEN <<Prune>> ELSE <<>>]
           out == [p \in Nodes |-> push[p] \o graft[p] \o prune[p]]
<1>1. Known' = Known
  BY DEF OnGossipSwarm, Known
<1>2. /\ Taken(s, n) \in [Links -> Seq(PacketOf(Known))]
      /\ Head(net[<<s, n>>]) \in PacketOf(Known)
      /\ Head(net[<<s, n>>]).kind = "Gossip"
  BY TakenType DEF OnGossipSwarm, NetInv
<1>3. m \in SwarmMessages
  BY DEF OnGossipSwarm
<1>4. m \in SwarmMessages \cap Known /\ hops \in Nat
  BY <1>2, <1>3, PacketFields, PlumtreeAssumption
<1>5. round \in Nat /\ m \in Messages
  BY <1>4 DEF Messages
<1>6. better \subseteq Nodes
  BY <1>4 DEF Promoted, LocalInv, Claim
<1>7. worse \subseteq Nodes
  OBVIOUS
<1>8. \A p \in Nodes : out[p] \in Seq(PacketOf(Known))
  <2>1. /\ Gossip(m, round) \in PacketOf(Known)
        /\ Graft(NoMessage) \in PacketOf(Known)
        /\ Prune \in PacketOf(Known)
    BY <1>4, <1>5 DEF Gossip, Graft, Prune, PacketOf
  <2>2. \A p \in Nodes : push[p] \in Seq(PacketOf(Known))
    BY <2>1 DEF EagerPush
  <2>3. \A p \in Nodes : graft[p] \in Seq(PacketOf(Known))
    BY <2>1
  <2>4. \A p \in Nodes : prune[p] \in Seq(PacketOf(Known))
    BY <2>1
  <2> HIDE DEF push, graft, prune
  <2> SUFFICES ASSUME NEW p \in Nodes
               PROVE  push[p] \o graft[p] \o prune[p] \in Seq(PacketOf(Known))
    OBVIOUS
  <2> QED
    BY <2>2, <2>3, <2>4, ConcatProperties, Zenon
<1> HIDE DEF m, hops, better, worse, out
<1>9. /\ emitted' = [emitted EXCEPT ![n][m] = @ + 1]
      /\ received' = [received EXCEPT ![n] = @ \cup {m}]
      /\ gaps' = [gaps EXCEPT ![n] = IF hops > maxSeen[n] + 1 THEN @ + 1 ELSE @]
      /\ maxSeen' = [maxSeen EXCEPT ![n] = IF hops > @ THEN hops ELSE @]
      /\ cache' = [cache EXCEPT ![n][m] = round]
      /\ LazyPush(n, m, round, s)
      /\ graftFlag' = [graftFlag EXCEPT ![n] = @ \ {m}]
      /\ missing' = [missing EXCEPT ![n][m] = {}]
      /\ eager' = [eager EXCEPT ![n] = (@ \cup better) \ worse]
      /\ lazy' = [lazy EXCEPT ![n] = (@ \ better) \cup worse]
      /\ net' = Transmit(Taken(s, n), n, out)
      /\ UNCHANGED <<authored, graftTimers, view, author, churn, evictions>>
  BY DEF OnGossipSwarm, m, hops, better, worse, out
<1> HIDE DEF round
<1>10. PeerInv'
  BY <1>6, <1>7, <1>9 DEF PeerInv
<1>11. LocalInv'
  BY <1>1, <1>4, <1>5, <1>9 DEF LocalInv
<1>12. EmittedInv'
  BY <1>1, <1>4, <1>5, <1>9 DEF EmittedInv
<1>13. /\ QueueInv'
       /\ dispatchFlag' \in [Nodes -> BOOLEAN]
       /\ dispatchTimers' \in [Nodes -> Nat]
  <2>1. queue \in [Nodes -> [Nodes -> Seq(AnnouncementOf(Known))]]
    BY DEF QueueInv
  <2>2. queue' \in [Nodes -> [Nodes -> Seq(AnnouncementOf(Known))]]
        /\ dispatchFlag' \in [Nodes -> BOOLEAN]
        /\ dispatchTimers' \in [Nodes -> Nat]
    BY <1>4, <1>5, <1>9, <2>1, LazyPushType, Zenon
  <2> QED
    BY <1>1, <2>2 DEF QueueInv
<1>14. CounterInv'
  <2>1. gaps' \in [Nodes -> Nat] /\ maxSeen' \in [Nodes -> Nat]
    BY <1>4, <1>9 DEF CounterInv
  <2>2. graftFlag' \in [Nodes -> SUBSET SwarmMessages]
    BY <1>9 DEF CounterInv
  <2>3. UNCHANGED <<authored, graftTimers, author, churn, evictions>>
    BY <1>9
  <2> QED
    BY <1>13, <2>1, <2>2, <2>3, Zenon DEF CounterInv
<1>15. NetInv'
  BY <1>1, <1>2, <1>8, <1>9, TransmitType DEF NetInv
<1> QED
  BY <1>10, <1>11, <1>12, <1>13, <1>14, <1>15

LEMMA TypeOnDispatchTimer ==
  ASSUME TypeInv, NEW n \in Nodes, OnDispatchTimer(n)
  PROVE  TypeInv'
<1> USE DEF TypeInv
<1> DEFINE out == [p \in Nodes |-> IF queue[n][p] # <<>>
                     THEN <<IHave(queue[n][p])>> ELSE <<>>]
<1>1. Known' = Known
  BY DEF OnDispatchTimer, Known
<1>2. PeerInv' /\ LocalInv' /\ CounterInv' /\ EmittedInv'
  BY <1>1 DEF OnDispatchTimer, PeerInv, LocalInv, CounterInv, EmittedInv
<1>3. QueueInv'
  BY <1>1 DEF OnDispatchTimer, QueueInv
<1>4. \A p \in Nodes : IHave(queue[n][p]) \in PacketOf(Known)
  BY DEF QueueInv, IHave, PacketOf
<1>5. \A p \in Nodes : out[p] \in Seq(PacketOf(Known))
  <2> SUFFICES ASSUME NEW p \in Nodes PROVE out[p] \in Seq(PacketOf(Known))
    OBVIOUS
  <2>1. PICK pkt : pkt = IHave(queue[n][p])
    OBVIOUS
  <2>2. <<pkt>> \in Seq(PacketOf(Known)) /\ <<>> \in Seq(PacketOf(Known))
    BY <1>4, <2>1
  <2>3. out[p] = <<pkt>> \/ out[p] = <<>>
    BY <2>1, Zenon
  <2> QED
    BY <2>2, <2>3
<1> HIDE DEF out
<1>6. NetInv'
  BY <1>1, <1>5, TransmitType DEF OnDispatchTimer, NetInv, out
<1> QED
  BY <1>2, <1>3, <1>6

LEMMA TypeOnSendGraftTimer ==
  ASSUME TypeInv, NEW n \in Nodes, NEW m \in SwarmMessages,
         OnSendGraftTimer(n, m)
  PROVE  TypeInv'
<1> USE DEF TypeInv
<1>1. Known' = Known
  BY DEF OnSendGraftTimer, Known
<1>2. EmittedInv' /\ QueueInv'
  BY <1>1 DEF OnSendGraftTimer, EmittedInv, QueueInv
<1>5. CounterInv'
  <2>1. graftFlag' \in [Nodes -> SUBSET SwarmMessages]
    BY DEF OnSendGraftTimer, CounterInv
  <2>2. graftTimers' \in [Nodes -> [SwarmMessages -> Nat]]
    <3>1. \/ graftTimers' = graftTimers
          \/ graftTimers' = [graftTimers EXCEPT ![n][m] = @ - 1]
      BY Zenon DEF OnSendGraftTimer
    <3>2. graftTimers[n][m] > 0 /\ graftTimers \in [Nodes -> [SwarmMessages -> Nat]]
      BY DEF OnSendGraftTimer, CounterInv
    <3> QED
      BY <3>1, <3>2
  <2>3. UNCHANGED <<authored, maxSeen, dispatchFlag, dispatchTimers, author, gaps,
                    churn, evictions>>
    BY DEF OnSendGraftTimer
  <2> QED
    BY <2>1, <2>2, <2>3, Zenon DEF CounterInv
<1>3. CASE m \in received[n] \/ missing[n][m] = {}
  BY <1>1, <1>2, <1>3, <1>5 DEF OnSendGraftTimer, PeerInv, LocalInv, NetInv
<1>4. CASE ~(m \in received[n] \/ missing[n][m] = {})
  <2>1. PICK first \in missing[n][m] :
          /\ missing' = [missing EXCEPT ![n][m] = @ \ {first}]
          /\ AddEager(n, first.peer)
          /\ net' = Transmit(net, n, [p \in Nodes |-> IF p = first.peer
                                        THEN <<Graft(m)>> ELSE <<>>])
    BY <1>4 DEF OnSendGraftTimer
  <2>2. first.peer \in Nodes /\ m \in Known
    BY <2>1 DEF LocalInv, Claim
  <2>3. PeerInv'
    BY <2>1, <2>2 DEF OnSendGraftTimer, PeerInv, AddEager
  <2>4. LocalInv'
    BY <1>1, <2>1 DEF OnSendGraftTimer, LocalInv
  <2>5. Graft(m) \in PacketOf(Known)
    BY <2>2 DEF Graft, PacketOf
  <2>6. \A p \in Nodes : [q \in Nodes |-> IF q = first.peer
                            THEN <<Graft(m)>> ELSE <<>>][p]
                           \in Seq(PacketOf(Known))
    BY <2>5
  <2>7. NetInv'
    BY <1>1, <2>1, <2>6, TransmitType DEF NetInv
  <2> QED
    BY <1>2, <1>5, <2>3, <2>4, <2>7
<1> QED
  BY <1>3, <1>4

LEMMA TypeMembership ==
  ASSUME TypeInv, NEW n \in Nodes, NEW p \in Nodes,
         \/ OnNeighborUp(n, p) \/ OnNeighborDown(n, p)
         \/ ConnectionCloses(n, p) \/ OnEvictCacheTimer(n)
  PROVE  TypeInv'
<1> USE PlumtreeAssumption DEF TypeInv
<1>1. CASE OnNeighborUp(n, p)
  <2>1. Known' = Known
    BY <1>1 DEF OnNeighborUp, Known
  <2>2. PeerInv'
    BY <1>1 DEF OnNeighborUp, AddEager, PeerInv
  <2>3. LocalInv'
    BY <1>1, <2>1 DEF OnNeighborUp, LocalInv
  <2>4. CounterInv'
    BY <1>1 DEF OnNeighborUp, CounterInv
  <2>5. EmittedInv' /\ QueueInv' /\ NetInv'
    BY <1>1, <2>1 DEF OnNeighborUp, EmittedInv, QueueInv, NetInv
  <2> QED
    BY <2>2, <2>3, <2>4, <2>5
<1>2. CASE OnNeighborDown(n, p)
  <2>1. Known' = Known
    BY <1>2 DEF OnNeighborDown, Known
  <2>2. PeerInv'
    BY <1>2 DEF OnNeighborDown, PeerInv
  <2>3. LocalInv'
    BY <1>2, <2>1 DEF OnNeighborDown, LocalInv
  <2>4. CounterInv'
    BY <1>2 DEF OnNeighborDown, CounterInv
  <2>5. EmittedInv' /\ QueueInv' /\ NetInv'
    BY <1>2, <2>1 DEF OnNeighborDown, EmittedInv, QueueInv, NetInv
  <2> QED
    BY <2>2, <2>3, <2>4, <2>5
<1>3. CASE ConnectionCloses(n, p)
  <2>1. Known' = Known
    BY <1>3 DEF ConnectionCloses, Known
  <2>2. PeerInv' /\ LocalInv' /\ CounterInv' /\ EmittedInv' /\ QueueInv'
    BY <1>3, <2>1 DEF ConnectionCloses, protocolVars, PeerInv, LocalInv,
                      CounterInv, EmittedInv, QueueInv
  <2>3. net' \in [Links -> Seq(PacketOf(Known))]
    <3>1. <<>> \in Seq(PacketOf(Known))
      OBVIOUS
    <3> QED
      BY <1>3, <3>1, Zenon DEF ConnectionCloses, NetInv
  <2>4. NetInv'
    BY <2>1, <2>3 DEF NetInv
  <2> QED
    BY <2>2, <2>4
<1>4. CASE OnEvictCacheTimer(n)
  <2>1. Known' = Known
    BY <1>4 DEF OnEvictCacheTimer, Known
  <2>2. PeerInv' /\ CounterInv' /\ EmittedInv' /\ QueueInv' /\ NetInv'
    BY <1>4, <2>1, SMTT(30) DEF OnEvictCacheTimer, PeerInv, CounterInv, EmittedInv,
                      QueueInv, NetInv
  <2>3. LocalInv'
    BY <1>4, <2>1 DEF OnEvictCacheTimer, LocalInv
  <2> QED
    BY <2>2, <2>3
<1> QED
  BY <1>1, <1>2, <1>3, <1>4

\* No step of any node or of its environment breaks the invariant.
LEMMA TypeStep == TypeInv /\ [Next]_vars => TypeInv'
<1> SUFFICES ASSUME TypeInv, [Next]_vars PROVE TypeInv'
  OBVIOUS
<1>1. CASE UNCHANGED vars
  BY <1>1 DEF vars, protocolVars, TypeInv, PeerInv, LocalInv, CounterInv,
              EmittedInv, QueueInv, NetInv, Known
<1>2. ASSUME NEW n \in Nodes, NEW m \in SwarmMessages, BroadcastSwarm(n, m)
      PROVE  TypeInv'
  BY <1>2, TypeBroadcastSwarm
<1>3. ASSUME NEW n \in Nodes, NEW m \in NeighborMessages, BroadcastNeighbors(n, m)
      PROVE  TypeInv'
  BY <1>3, TypeBroadcastNeighbors
<1>4. ASSUME NEW s \in Nodes, NEW n \in Nodes, Receive(s, n) PROVE TypeInv'
  BY <1>4, TypeOnGossipEcho, TypeOnGossipDuplicate, TypeOnGossipSwarm,
     TypeOnGossipNeighbors, TypeOnPrune, TypeOnIHave, TypeOnGraft DEF Receive
<1>5. ASSUME NEW n \in Nodes, Timer(n) PROVE TypeInv'
  BY <1>5, TypeOnDispatchTimer, TypeOnSendGraftTimer DEF Timer
<1>6. ASSUME NEW n \in Nodes, NEW p \in Nodes,
             \/ OnNeighborUp(n, p) \/ OnNeighborDown(n, p)
             \/ ConnectionCloses(n, p) \/ OnEvictCacheTimer(n)
      PROVE  TypeInv'
  BY <1>6, TypeMembership
<1> QED
  BY <1>1, <1>2, <1>3, <1>4, <1>5, <1>6 DEF Next

\* Every variable keeps its type, and no peer is eager and lazy at once
\* (add_eager and add_lazy of plumtree.rs), whatever arrives in what order.
THEOREM TypeCorrect == Spec => []TypeOK
<1>1. TypeInv => TypeOK
  <2>1. /\ Seq(AnnouncementOf(Known)) \subseteq Seq(Announcement)
        /\ Seq(PacketOf(Known)) \subseteq Seq(Packet)
    BY PacketsAreTyped
  <2>2. QueueInv => queue \in [Nodes -> [Nodes -> Seq(Announcement)]]
    BY <2>1 DEF QueueInv
  <2>3. NetInv => net \in [Links -> Seq(Packet)]
    BY <2>1 DEF NetInv
  <2>4. LocalInv => /\ missing \in [Nodes -> [SwarmMessages -> SUBSET Claim]]
                    /\ received \in [Nodes -> SUBSET SwarmMessages]
                    /\ cache \in [Nodes -> [SwarmMessages -> Nat \cup {NotCached}]]
    BY DEF LocalInv
  <2> QED
    BY <2>2, <2>3, <2>4, Zenon DEF TypeInv, TypeOK, PeerInv, CounterInv, EmittedInv
<1> QED
  BY <1>1, TypeInit, TypeStep, PTL DEF Spec

-----------------------------------------------------------------------------
(* The dispatch timer. *)

\* The flag tells exactly whether a timer is running, and without one no
\* announcement waits.
DispatchInv ==
  \A n \in Nodes :
    /\ dispatchFlag[n] => dispatchTimers[n] = 1
    /\ ~dispatchFlag[n] => /\ dispatchTimers[n] = 0
                           /\ \A p \in Nodes : queue[n][p] = <<>>

\* lazy_push starts a timer only if none is running.
LEMMA DispatchLazyPush ==
  ASSUME TypeInv, DispatchInv, NEW n \in Nodes, NEW m, NEW round, NEW from,
         LazyPush(n, m, round, from)
  PROVE  DispatchInv'
<1> USE DEF TypeInv, CounterInv, QueueInv
<1>1. ASSUME NEW x \in Nodes, x # n
      PROVE  /\ dispatchFlag'[x] = dispatchFlag[x]
             /\ dispatchTimers'[x] = dispatchTimers[x]
             /\ queue'[x] = queue[x]
  BY <1>1 DEF LazyPush
<1>2. /\ dispatchFlag'[n] => dispatchTimers'[n] = 1
      /\ ~dispatchFlag'[n] => dispatchTimers'[n] = 0
  <2> DEFINE start == lazy[n] \ {from} # {} /\ ~dispatchFlag[n]
  <2>1. /\ dispatchFlag'[n] = (dispatchFlag[n] \/ start)
        /\ dispatchTimers'[n] = IF start THEN dispatchTimers[n] + 1
                                         ELSE dispatchTimers[n]
    BY Zenon DEF LazyPush
  <2>2. /\ dispatchFlag[n] => dispatchTimers[n] = 1
        /\ ~dispatchFlag[n] => dispatchTimers[n] = 0
    BY Zenon DEF DispatchInv
  <2>3. 0 + 1 = 1
    OBVIOUS
  <2> QED
    BY <2>1, <2>2, <2>3, Zenon
<1>3. ASSUME ~dispatchFlag'[n], NEW p \in Nodes PROVE queue'[n][p] = <<>>
  <2>1. ~dispatchFlag[n] /\ lazy[n] \ {from} = {}
    BY <1>3 DEF LazyPush
  <2>2. queue'[n][p] = queue[n][p]
    BY <2>1 DEF LazyPush
  <2> QED
    BY <2>1, <2>2 DEF DispatchInv
<1>4. ASSUME NEW x \in Nodes
      PROVE  /\ dispatchFlag'[x] => dispatchTimers'[x] = 1
             /\ ~dispatchFlag'[x] => /\ dispatchTimers'[x] = 0
                                     /\ \A p \in Nodes : queue'[x][p] = <<>>
  <2>1. CASE x = n
    BY <1>2, <1>3, <2>1, Zenon
  <2>2. CASE x # n
    <3>1. /\ dispatchFlag[x] => dispatchTimers[x] = 1
          /\ ~dispatchFlag[x] => /\ dispatchTimers[x] = 0
                                 /\ \A p \in Nodes : queue[x][p] = <<>>
      BY Zenon DEF DispatchInv
    <3> QED
      BY <1>1, <2>2, <3>1, Zenon
  <2> QED
    BY <2>1, <2>2
<1> QED
  BY <1>4, Zenon DEF DispatchInv

LEMMA DispatchStep == TypeInv /\ DispatchInv /\ [Next]_vars => DispatchInv'
<1> SUFFICES ASSUME TypeInv, DispatchInv, [Next]_vars PROVE DispatchInv'
  OBVIOUS
<1>1. CASE UNCHANGED <<queue, dispatchFlag, dispatchTimers>>
  BY <1>1 DEF DispatchInv
<1>2. ASSUME NEW n \in Nodes, NEW m \in SwarmMessages, BroadcastSwarm(n, m)
      PROVE  DispatchInv'
  BY <1>2, DispatchLazyPush DEF BroadcastSwarm
<1>3. ASSUME NEW s \in Nodes, NEW n \in Nodes, OnGossipSwarm(s, n)
      PROVE  DispatchInv'
  BY <1>3, DispatchLazyPush DEF OnGossipSwarm
<1>4. ASSUME NEW n \in Nodes, OnDispatchTimer(n) PROVE DispatchInv'
  BY <1>4 DEF OnDispatchTimer, DispatchInv, TypeInv, CounterInv, QueueInv
<1>5. ASSUME NEW s \in Nodes, NEW n \in Nodes, Receive(s, n)
      PROVE  DispatchInv'
  BY <1>1, <1>3, <1>5, Zenon
  DEF Receive, OnGossipEcho, OnGossipDuplicate, OnGossipNeighbors, OnPrune,
      OnIHave, OnGraft, protocolVars
<1>6. ASSUME NEW n \in Nodes, Timer(n) PROVE DispatchInv'
  BY <1>1, <1>4, <1>6, Zenon DEF Timer, OnSendGraftTimer
<1>7. ASSUME NEW n \in Nodes, NEW p \in Nodes,
             \/ OnNeighborUp(n, p) \/ OnNeighborDown(n, p)
             \/ ConnectionCloses(n, p) \/ OnEvictCacheTimer(n)
             \/ \E m \in NeighborMessages : BroadcastNeighbors(n, m)
      PROVE  DispatchInv'
  BY <1>1, <1>7, Zenon
  DEF OnNeighborUp, OnNeighborDown, ConnectionCloses, OnEvictCacheTimer,
      BroadcastNeighbors, protocolVars
<1>8. CASE UNCHANGED vars
  BY <1>1, <1>8 DEF vars, protocolVars
<1> QED
  BY <1>2, <1>5, <1>6, <1>7, <1>8 DEF Next

\* Initially nothing is queued and no timer is running.
LEMMA DispatchInit == Init => DispatchInv
<1> SUFFICES ASSUME Init, NEW n \in Nodes
             PROVE  /\ dispatchFlag[n] = FALSE
                    /\ dispatchTimers[n] = 0
                    /\ \A p \in Nodes : queue[n][p] = <<>>
  BY Zenon DEF DispatchInv
<1> QED
  BY DEF Init

\* Announcements queued by lazy_push always have exactly one running dispatch
\* timer to send them, whatever the order of broadcasts, receptions and ticks.
THEOREM QueuedAreDispatched == Spec => []QueuedIsDispatched
<1>1. Init => DispatchInv
  BY DispatchInit
<1>2. TypeInv /\ DispatchInv => QueuedIsDispatched
  BY DEF DispatchInv, QueuedIsDispatched, TypeInv, CounterInv
<1> QED
  BY <1>1, <1>2, TypeInit, TypeStep, DispatchStep, PTL DEF Spec

-----------------------------------------------------------------------------
(* The graft timers. *)

\* A set flag stands for a running timer; on_send_graft_timer leaves its
\* second timer running with the flag cleared, so the converse fails.
ChaseInv ==
  \A n \in Nodes, m \in SwarmMessages :
    /\ m \in graftFlag[n] => graftTimers[n][m] > 0
    /\ missing[n][m] # {} => graftTimers[n][m] > 0 /\ m \notin received[n]

LEMMA ChaseStep == TypeInv /\ ChaseInv /\ [Next]_vars => ChaseInv'
<1> SUFFICES ASSUME TypeInv, ChaseInv, [Next]_vars PROVE ChaseInv'
  OBVIOUS
<1> USE DEF TypeInv, CounterInv, LocalInv
<1>1. CASE UNCHANGED <<missing, received, graftFlag, graftTimers>>
  BY <1>1 DEF ChaseInv
<1>2. ASSUME NEW n \in Nodes, NEW m \in SwarmMessages, BroadcastSwarm(n, m)
      PROVE  ChaseInv'
  <2>1. missing[n][m] = {}
    BY <1>2 DEF BroadcastSwarm, Known
  <2> QED
    BY <1>2, <2>1 DEF BroadcastSwarm, ChaseInv
<1>3. ASSUME NEW s \in Nodes, NEW n \in Nodes, OnGossipSwarm(s, n)
      PROVE  ChaseInv'
  <2> DEFINE m == Head(net[<<s, n>>]).id
  <2>1. /\ received' = [received EXCEPT ![n] = @ \cup {m}]
        /\ graftFlag' = [graftFlag EXCEPT ![n] = @ \ {m}]
        /\ missing' = [missing EXCEPT ![n][m] = {}]
        /\ graftTimers' = graftTimers
        /\ m \in SwarmMessages
    BY <1>3 DEF OnGossipSwarm
  <2> HIDE DEF m
  <2> QED
    BY <2>1 DEF ChaseInv
<1>4. ASSUME NEW s \in Nodes, NEW n \in Nodes, OnIHave(s, n)
      PROVE  ChaseInv'
  <2> DEFINE list == Head(net[<<s, n>>]).list
             lacked == {list[i].id : i \in DOMAIN list} \ received[n]
  <2>1. /\ graftTimers' = [graftTimers EXCEPT ![n] =
              [m \in SwarmMessages |-> IF m \in lacked \ graftFlag[n]
                 THEN graftTimers[n][m] + 1 ELSE graftTimers[n][m]]]
        /\ graftFlag' = [graftFlag EXCEPT ![n] = @ \cup lacked]
        /\ received' = received
        /\ lacked \cap received[n] = {}
    BY <1>4 DEF OnIHave
  <2>2. PICK last : missing' = [missing EXCEPT ![n] =
               [m \in SwarmMessages |-> missing[n][m] \cup
                  (IF m \in lacked THEN NewClaims(list, m, s, last) ELSE {})]]
    BY <1>4 DEF OnIHave
  <2> HIDE DEF lacked, list
  <2>3. ASSUME NEW x \in Nodes, NEW m \in SwarmMessages
        PROVE  /\ m \in graftFlag'[x] => graftTimers'[x][m] > 0
               /\ missing'[x][m] # {} => graftTimers'[x][m] > 0
                                         /\ m \notin received'[x]
    <3>1. CASE x # n
      BY <2>1, <2>2, <3>1 DEF ChaseInv
    <3>2. CASE x = n /\ m \in lacked
      BY <2>1, <3>2 DEF ChaseInv
    <3>3. CASE x = n /\ m \notin lacked
      <4>1. missing'[n][m] = missing[n][m]
        BY <2>2, <3>3
      <4> QED
        BY <2>1, <3>3, <4>1 DEF ChaseInv
    <3> QED
      BY <3>1, <3>2, <3>3
  <2> QED
    BY <2>3 DEF ChaseInv
<1>5. ASSUME NEW n \in Nodes, NEW m \in SwarmMessages, OnSendGraftTimer(n, m)
      PROVE  ChaseInv'
  <2>1. CASE m \in received[n] \/ missing[n][m] = {}
    <3>1. missing[n][m] = {}
      BY <2>1 DEF ChaseInv
    <3> QED
      BY <1>5, <2>1, <3>1 DEF OnSendGraftTimer, ChaseInv
  <2>2. CASE ~(m \in received[n] \/ missing[n][m] = {})
    <3>1. PICK first \in missing[n][m] :
                 missing' = [missing EXCEPT ![n][m] = @ \ {first}]
      BY <1>5, <2>2 DEF OnSendGraftTimer
    <3>2. /\ graftFlag' = [graftFlag EXCEPT ![n] = @ \ {m}]
          /\ UNCHANGED <<graftTimers, received>>
          /\ graftTimers[n][m] > 0
      BY <1>5, <2>2 DEF OnSendGraftTimer
    <3>3. ASSUME NEW x \in Nodes, NEW k \in SwarmMessages
          PROVE  missing'[x][k] \subseteq missing[x][k]
      BY <3>1
    <3> QED
      BY <3>2, <3>3 DEF ChaseInv
  <2> QED
    BY <2>1, <2>2
<1>6. ASSUME NEW n \in Nodes, OnEvictCacheTimer(n) PROVE ChaseInv'
  BY <1>6 DEF OnEvictCacheTimer, ChaseInv
<1>7. ASSUME NEW n \in Nodes, NEW p \in Nodes, OnNeighborDown(n, p)
      PROVE  ChaseInv'
  BY <1>7 DEF OnNeighborDown, ChaseInv
<1> QED
  BY <1>1, <1>2, <1>3, <1>4, <1>5, <1>6, <1>7, ZenonT(30)
  DEF Next, Receive, Timer, BroadcastNeighbors, OnGossipEcho, OnGossipDuplicate,
      OnGossipNeighbors, OnPrune, OnGraft, OnDispatchTimer, OnNeighborUp,
      ConnectionCloses, vars, protocolVars

\* A payload that was announced and not yet asked for is never left without a
\* SendGraft timer (on_ihave, on_gossip and on_send_graft_timer share one flag
\* for two timers), through any churn and eviction.
THEOREM AdvertisedAreChased == Spec => []AdvertisedIsChased
<1>1. Init => ChaseInv
  BY DEF Init, ChaseInv
<1>2. ChaseInv => AdvertisedIsChased
  BY DEF ChaseInv, AdvertisedIsChased
<1> QED
  BY <1>1, <1>2, TypeInit, TypeStep, ChaseStep, PTL DEF Spec

-----------------------------------------------------------------------------
(* Delivery to the application. *)

\* What was broadcast or emitted here is remembered as received.
DeliveryInv ==
  \A n \in Nodes, m \in SwarmMessages :
    /\ author[m] = n => m \in received[n]
    /\ emitted[n][m] > 0 => m \in received[n]
    /\ emitted[n][m] <= (IF author[m] = n THEN 0 ELSE 1)

LEMMA DeliveryStep ==
  ASSUME ~IdsExpire, TypeInv, DeliveryInv, [Next]_vars
  PROVE  DeliveryInv'
<1> USE PlumtreeAssumption DEF TypeInv, CounterInv, LocalInv, EmittedInv
<1>1. CASE UNCHANGED <<author, received, emitted>>
  BY <1>1 DEF DeliveryInv
<1>2. ASSUME NEW n \in Nodes, NEW m \in SwarmMessages, BroadcastSwarm(n, m)
      PROVE  DeliveryInv'
  <2>1. m \in Messages /\ \A x \in Nodes : emitted[x][m] = 0
    BY <1>2 DEF BroadcastSwarm, Known, Messages
  <2>2. /\ author' = [author EXCEPT ![m] = n]
        /\ received' = [received EXCEPT ![n] = @ \cup {m}]
        /\ emitted' = emitted
    BY <1>2 DEF BroadcastSwarm
  <2> QED
    BY <2>1, <2>2 DEF DeliveryInv, Messages
<1>3. ASSUME NEW n \in Nodes, NEW m \in NeighborMessages, BroadcastNeighbors(n, m)
      PROVE  DeliveryInv'
  <2>1. /\ author' = [author EXCEPT ![m] = n]
        /\ received' = received
        /\ emitted' = emitted
    BY <1>3 DEF BroadcastNeighbors, protocolVars
  <2> QED
    BY <2>1 DEF DeliveryInv, Messages
<1>4. ASSUME NEW s \in Nodes, NEW n \in Nodes, OnGossipSwarm(s, n)
      PROVE  DeliveryInv'
  <2> DEFINE m == Head(net[<<s, n>>]).id
  <2>1. /\ received' = [received EXCEPT ![n] = @ \cup {m}]
        /\ emitted' = [emitted EXCEPT ![n][m] = @ + 1]
        /\ author' = author
        /\ m \in SwarmMessages \ received[n]
    BY <1>4 DEF OnGossipSwarm
  <2> HIDE DEF m
  <2>2. m \in Messages
    BY <2>1 DEF Messages
  <2>3. emitted[n][m] = 0 /\ author[m] # n
    BY <2>1, <2>2 DEF DeliveryInv
  <2>4. ASSUME NEW x \in Nodes, NEW k \in SwarmMessages
        PROVE  /\ author'[k] = x => k \in received'[x]
               /\ emitted'[x][k] > 0 => k \in received'[x]
               /\ emitted'[x][k] <= (IF author'[k] = x THEN 0 ELSE 1)
    <3>1. CASE x = n /\ k = m
      BY <2>1, <2>2, <2>3, <3>1
    <3>2. CASE ~(x = n /\ k = m)
      <4>1. emitted'[x][k] = emitted[x][k]
        BY <2>1, <2>2, <3>2 DEF Messages
      <4> QED
        BY <2>1, <4>1 DEF DeliveryInv
    <3> QED
      BY <3>1, <3>2
  <2> QED
    BY <2>4 DEF DeliveryInv
<1>5. ASSUME NEW s \in Nodes, NEW n \in Nodes, OnGossipNeighbors(s, n)
      PROVE  DeliveryInv'
  <2> DEFINE m == Head(net[<<s, n>>]).id
  <2>1. /\ emitted' = [emitted EXCEPT ![n][m] = @ + 1]
        /\ UNCHANGED <<author, received>>
        /\ m \in NeighborMessages
    BY <1>5 DEF OnGossipNeighbors, protocolVars
  <2> HIDE DEF m
  <2> QED
    BY <2>1 DEF DeliveryInv, Messages
<1>6. ASSUME NEW n \in Nodes, OnEvictCacheTimer(n) PROVE DeliveryInv'
  <2>1. received' = received /\ UNCHANGED <<author, emitted>>
    BY <1>6 DEF OnEvictCacheTimer
  <2> QED
    BY <2>1 DEF DeliveryInv
<1>7. ASSUME NEW s \in Nodes, NEW n \in Nodes, Receive(s, n)
      PROVE  DeliveryInv'
  <2>1. CASE OnGossipSwarm(s, n) \/ OnGossipNeighbors(s, n)
    BY <1>4, <1>5, <2>1
  <2>2. CASE \/ OnGossipEcho(s, n) \/ OnGossipDuplicate(s, n)
             \/ OnPrune(s, n) \/ OnIHave(s, n) \/ OnGraft(s, n)
    BY <1>1, <2>2, Zenon
    DEF OnGossipEcho, OnGossipDuplicate, OnPrune, OnIHave, OnGraft
  <2> QED
    BY <1>7, <2>1, <2>2 DEF Receive
<1>8. ASSUME NEW n \in Nodes, Timer(n) PROVE DeliveryInv'
  BY <1>1, <1>8, Zenon DEF Timer, OnDispatchTimer, OnSendGraftTimer
<1>9. ASSUME NEW n \in Nodes, NEW p \in Nodes,
             \/ OnNeighborUp(n, p) \/ OnNeighborDown(n, p)
             \/ ConnectionCloses(n, p)
      PROVE  DeliveryInv'
  BY <1>1, <1>9, Zenon
  DEF OnNeighborUp, OnNeighborDown, ConnectionCloses, protocolVars
<1>10. CASE UNCHANGED vars
  BY <1>1, <1>10 DEF vars, protocolVars
<1> QED
  BY <1>2, <1>3, <1>6, <1>7, <1>8, <1>9, <1>10 DEF Next

\* While message ids are retained, on_gossip hands a swarm message to the
\* application at most once and never back to its author, however many copies
\* the overlay forwards and whatever leaves and rejoins it.
THEOREM DeliveredOnce == ~IdsExpire /\ Spec => []DeliveredAtMostOnce
<1>1. Init => DeliveryInv
  BY PlumtreeAssumption DEF Init, DeliveryInv, Messages
<1>2. DeliveryInv => DeliveredAtMostOnce
  BY DEF DeliveryInv, DeliveredAtMostOnce
<1>3. CASE ~IdsExpire
  <2>1. TypeInv /\ DeliveryInv /\ [Next]_vars => DeliveryInv'
    BY <1>3, DeliveryStep
  <2> QED
    BY <1>1, <1>2, <2>1, TypeInit, TypeStep, PTL DEF Spec
<1>4. CASE IdsExpire
  BY <1>4
<1> QED
  BY <1>3, <1>4
=============================================================================
