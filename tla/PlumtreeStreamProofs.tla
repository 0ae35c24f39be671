------------------------ MODULE PlumtreeStreamProofs ------------------------
(***************************************************************************)
(* Theorems about what travels between the nodes of Plumtree: a message    *)
(* for direct neighbours goes one hop, through any churn and eviction, and *)
(* over a stable overlay no handler forgets a payload.                     *)
(*                                                                         *)
(* Both rest on where nodes talk to each other at all (NearInv): no peer   *)
(* enters the sets, the queues, the claims or the streams of a node except *)
(* over a link of the overlay.                                             *)
(***************************************************************************)
EXTENDS PlumtreeProofs

-----------------------------------------------------------------------------
(* Streams. *)

Streams == [Links -> Seq(Packet)]

\* A packet of this kind about m, and a stream that carries one.
Matches(pkt, kind, m) ==
  /\ pkt.kind = kind
  /\ IF kind = "IHave" THEN \E j \in DOMAIN pkt.list : pkt.list[j].id = m
     ELSE pkt.id = m
Carries(s, kind, m) == \E i \in DOMAIN s : Matches(s[i], kind, m)

\* A stream carries at most one payload of m.
Once(s, m) ==
  \A i, j \in DOMAIN s :
    Matches(s[i], "Gossip", m) /\ Matches(s[j], "Gossip", m) => i = j

\* Everything but the payloads for direct neighbours.
SwarmPacket == [kind : {"Gossip"}, id : SwarmMessages, scope : Nat]
               \cup [kind : {"IHave"}, list : Seq(Announcement)]
               \cup [kind : {"Graft"}, id : SwarmMessages \cup {NoMessage}]
               \cup [kind : {"Prune"}]

\* What is sent after the messages of s.
LEMMA ConcatCarries ==
  ASSUME NEW s \in Seq(Packet), NEW t \in Seq(Packet), NEW kind, NEW m
  PROVE  Carries(s \o t, kind, m) <=> Carries(s, kind, m) \/ Carries(t, kind, m)
<1>1. /\ s \o t \in Seq(Packet) /\ Len(s \o t) = Len(s) + Len(t)
      /\ Len(s) \in Nat /\ Len(t) \in Nat
      /\ DOMAIN s = 1..Len(s) /\ DOMAIN t = 1..Len(t) /\ DOMAIN (s \o t) = 1..Len(s \o t)
      /\ \A i \in 1..Len(s) : (s \o t)[i] = s[i]
      /\ \A i \in 1..Len(t) : (s \o t)[Len(s) + i] = t[i]
  OBVIOUS
<1>2. ASSUME Carries(s \o t, kind, m)
      PROVE  Carries(s, kind, m) \/ Carries(t, kind, m)
  <2>1. PICK i \in 1..(Len(s) + Len(t)) : Matches((s \o t)[i], kind, m)
    BY <1>1, <1>2 DEF Carries
  <2>2. CASE i <= Len(s)
    BY <1>1, <2>1, <2>2 DEF Carries
  <2>3. CASE i > Len(s)
    <3>1. i - Len(s) \in 1..Len(t) /\ Len(s) + (i - Len(s)) = i
      BY <1>1, <2>3
    <3>2. (s \o t)[i] = t[i - Len(s)]
      BY <1>1, <3>1
    <3> QED
      BY <1>1, <2>1, <3>1, <3>2 DEF Carries
  <2> QED
    BY <1>1, <2>2, <2>3
<1>3. ASSUME Carries(s, kind, m) PROVE Carries(s \o t, kind, m)
  <2>1. PICK i \in 1..Len(s) : Matches(s[i], kind, m)
    BY <1>1, <1>3 DEF Carries
  <2>2. i \in 1..Len(s \o t)
    BY <1>1
  <2> QED
    BY <1>1, <2>1, <2>2 DEF Carries
<1>4. ASSUME Carries(t, kind, m) PROVE Carries(s \o t, kind, m)
  <2>1. PICK i \in 1..Len(t) : Matches(t[i], kind, m)
    BY <1>1, <1>4 DEF Carries
  <2>2. Len(s) + i \in 1..Len(s \o t)
    BY <1>1
  <2> QED
    BY <1>1, <2>1, <2>2 DEF Carries
<1> QED
  BY <1>2, <1>3, <1>4

\* What is left once the first message is taken.
LEMMA TailCarries ==
  ASSUME NEW s \in Seq(Packet), s # <<>>, NEW kind, NEW m
  PROVE  Carries(s, kind, m) <=> Matches(Head(s), kind, m) \/ Carries(Tail(s), kind, m)
<1>1. /\ Len(s) \in Nat \ {0} /\ Tail(s) \in Seq(Packet) /\ Len(Tail(s)) = Len(s) - 1
      /\ DOMAIN s = 1..Len(s) /\ DOMAIN Tail(s) = 1..(Len(s) - 1)
      /\ Head(s) = s[1]
      /\ \A i \in 1..(Len(s) - 1) : Tail(s)[i] = s[i + 1]
  OBVIOUS
<1>2. ASSUME Carries(s, kind, m), ~Matches(Head(s), kind, m)
      PROVE  Carries(Tail(s), kind, m)
  <2>1. PICK i \in 1..Len(s) : Matches(s[i], kind, m)
    BY <1>1, <1>2 DEF Carries
  <2>2. i # 1
    BY <1>1, <1>2, <2>1
  <2>3. i - 1 \in 1..(Len(s) - 1) /\ (i - 1) + 1 = i
    BY <1>1, <2>2
  <2>4. Tail(s)[i - 1] = s[i]
    BY <1>1, <2>3
  <2> QED
    BY <1>1, <2>1, <2>3, <2>4 DEF Carries
<1>3. ASSUME Matches(Head(s), kind, m) PROVE Carries(s, kind, m)
  <2>1. 1 \in DOMAIN s
    BY <1>1
  <2> QED
    BY <1>1, <1>3, <2>1 DEF Carries
<1>4. ASSUME Carries(Tail(s), kind, m) PROVE Carries(s, kind, m)
  <2>1. PICK i \in 1..(Len(s) - 1) : Matches(Tail(s)[i], kind, m)
    BY <1>1, <1>4 DEF Carries
  <2>2. i + 1 \in 1..Len(s)
    BY <1>1
  <2> QED
    BY <1>1, <2>1, <2>2 DEF Carries
<1> QED
  BY <1>2, <1>3, <1>4

\* Taking the first message leaves no second copy.
LEMMA TailOnce ==
  ASSUME NEW s \in Seq(Packet), s # <<>>, NEW m, Once(s, m)
  PROVE  /\ Once(Tail(s), m)
         /\ Matches(Head(s), "Gossip", m) => ~Carries(Tail(s), "Gossip", m)
<1>1. /\ Len(s) \in Nat \ {0} /\ Tail(s) \in Seq(Packet) /\ Len(Tail(s)) = Len(s) - 1
      /\ DOMAIN s = 1..Len(s) /\ DOMAIN Tail(s) = 1..(Len(s) - 1)
      /\ Head(s) = s[1]
      /\ \A i \in 1..(Len(s) - 1) : Tail(s)[i] = s[i + 1]
  OBVIOUS
<1>2. \A i \in 1..(Len(s) - 1) : i + 1 \in 1..Len(s) /\ i + 1 # 1
  BY <1>1
<1>3. ASSUME NEW i \in 1..(Len(s) - 1), NEW j \in 1..(Len(s) - 1),
             Matches(Tail(s)[i], "Gossip", m), Matches(Tail(s)[j], "Gossip", m)
      PROVE  i = j
  <2>1. i + 1 = j + 1
    BY <1>1, <1>2, <1>3 DEF Once
  <2> QED
    BY <2>1
<1>4. ASSUME Matches(Head(s), "Gossip", m), NEW i \in 1..(Len(s) - 1),
             Matches(Tail(s)[i], "Gossip", m)
      PROVE  FALSE
  <2>1. 1 \in DOMAIN s /\ i + 1 \in DOMAIN s
    BY <1>1, <1>2
  <2>2. Matches(s[1], "Gossip", m) /\ Matches(s[i + 1], "Gossip", m)
    BY <1>1, <1>4
  <2> QED
    BY <1>2, <2>1, <2>2 DEF Once
<1> QED
  BY <1>1, <1>3, <1>4 DEF Once, Carries

\* One copy at most, if only one of the parts may hold one.
LEMMA ConcatOnce ==
  ASSUME NEW s \in Seq(Packet), NEW t \in Seq(Packet), NEW m,
         Once(s, m), Once(t, m),
         ~Carries(s, "Gossip", m) \/ ~Carries(t, "Gossip", m)
  PROVE  Once(s \o t, m)
<1>1. /\ s \o t \in Seq(Packet) /\ Len(s \o t) = Len(s) + Len(t)
      /\ Len(s) \in Nat /\ Len(t) \in Nat
      /\ DOMAIN s = 1..Len(s) /\ DOMAIN t = 1..Len(t) /\ DOMAIN (s \o t) = 1..Len(s \o t)
      /\ \A i \in 1..Len(s) : (s \o t)[i] = s[i]
      /\ \A i \in 1..Len(t) : (s \o t)[Len(s) + i] = t[i]
  OBVIOUS
<1>2. ASSUME NEW i \in DOMAIN (s \o t), Matches((s \o t)[i], "Gossip", m)
      PROVE  \/ i \in DOMAIN s /\ Matches(s[i], "Gossip", m)
             \/ i - Len(s) \in DOMAIN t /\ Matches(t[i - Len(s)], "Gossip", m)
  <2>1. CASE i <= Len(s)
    BY <1>1, <1>2, <2>1
  <2>2. CASE i > Len(s)
    <3>1. i - Len(s) \in 1..Len(t) /\ Len(s) + (i - Len(s)) = i
      BY <1>1, <2>2
    <3>2. (s \o t)[i] = t[i - Len(s)]
      BY <1>1, <3>1
    <3> QED
      BY <1>1, <1>2, <3>1, <3>2
  <2> QED
    BY <1>1, <2>1, <2>2
<1>3. ASSUME NEW i \in DOMAIN (s \o t), NEW j \in DOMAIN (s \o t),
             Matches((s \o t)[i], "Gossip", m), Matches((s \o t)[j], "Gossip", m)
      PROVE  i = j
  <2>1. CASE ~Carries(t, "Gossip", m)
    BY <1>2, <1>3, <2>1 DEF Carries, Once
  <2>2. CASE ~Carries(s, "Gossip", m)
    <3>1. i - Len(s) = j - Len(s)
      BY <1>2, <1>3, <2>2 DEF Carries, Once
    <3> QED
      BY <1>1, <3>1
  <2> QED
    BY <2>1, <2>2
<1> QED
  BY <1>3 DEF Once

\* A stream of one packet, and the empty one.
LEMMA ShortStreams ==
  ASSUME NEW pkt, NEW kind, NEW m
  PROVE  /\ Carries(<<pkt>>, kind, m) <=> Matches(pkt, kind, m)
         /\ ~Carries(<<>>, kind, m)
         /\ Once(<<pkt>>, m) /\ Once(<<>>, m)
BY DEF Carries, Once

\* The packets of the swarm are packets, and none is for neighbours only.
LEMMA SwarmStream ==
  ASSUME NEW t \in Seq(SwarmPacket)
  PROVE  /\ t \in Seq(Packet)
         /\ \A m \in NeighborMessages : ~Carries(t, "Gossip", m) /\ Once(t, m)
<1>1. SwarmPacket \subseteq Packet
  BY DEF SwarmPacket, Packet
<1>2. t \in Seq(Packet)
  BY <1>1, SeqMonotonic, Zenon
<1>3. ASSUME NEW m \in NeighborMessages, NEW i \in DOMAIN t, Matches(t[i], "Gossip", m)
      PROVE  FALSE
  <2>1. t[i] \in SwarmPacket
    OBVIOUS
  <2> QED
    BY <1>3, <2>1, PlumtreeAssumption DEF SwarmPacket, Matches
<1> QED
  BY <1>2, <1>3 DEF Carries, Once

\* The packets the handlers send.
LEMMA SwarmPackets ==
  /\ \A m \in SwarmMessages, round \in Nat : Gossip(m, round) \in SwarmPacket
  /\ \A list \in Seq(Announcement) : IHave(list) \in SwarmPacket
  /\ \A m \in SwarmMessages \cup {NoMessage} : Graft(m) \in SwarmPacket
  /\ Prune \in SwarmPacket
BY DEF SwarmPacket, Gossip, IHave, Graft, Prune

\* The streams after a node sent something.
LEMMA TransmitIs ==
  ASSUME NEW w \in Streams, NEW n \in Nodes, NEW out \in [Nodes -> Seq(Packet)]
  PROVE  /\ Transmit(w, n, out) \in Streams
         /\ \A l \in Links :
              /\ w[l] \in Seq(Packet) /\ out[l[2]] \in Seq(Packet) /\ l[2] \in Nodes
              /\ Transmit(w, n, out)[l] = IF l[1] = n THEN w[l] \o out[l[2]] ELSE w[l]
<1>1. ASSUME NEW l \in Links
      PROVE  /\ w[l] \in Seq(Packet) /\ out[l[2]] \in Seq(Packet) /\ l[2] \in Nodes
             /\ Transmit(w, n, out)[l] = IF l[1] = n THEN w[l] \o out[l[2]] ELSE w[l]
             /\ w[l] \o out[l[2]] \in Seq(Packet)
  <2>1. l[2] \in Nodes
    BY DEF Links
  <2>2. w[l] \in Seq(Packet) /\ out[l[2]] \in Seq(Packet)
    BY <2>1 DEF Streams
  <2>3. w[l] \o out[l[2]] \in Seq(Packet)
    BY <2>2
  <2> QED
    BY <2>1, <2>2, <2>3 DEF Transmit
<1> QED
  BY <1>1 DEF Transmit, Streams

\* The streams after a node took a message.
LEMMA TakenIs ==
  ASSUME net \in Streams, NEW s \in Nodes, NEW n \in Nodes, NEW kind,
         Incoming(s, n, kind)
  PROVE  /\ Taken(s, n) \in Streams
         /\ <<s, n>> \in Links /\ s # n
         /\ net[<<s, n>>] \in Seq(Packet) /\ net[<<s, n>>] # <<>>
         /\ Taken(s, n)[<<s, n>>] = Tail(net[<<s, n>>])
         /\ \A l \in Links : l # <<s, n>> => Taken(s, n)[l] = net[l]
<1>1. <<s, n>> \in Links /\ net[<<s, n>>] \in Seq(Packet) /\ net[<<s, n>>] # <<>>
  BY DEF Incoming, Streams
<1>2. Tail(net[<<s, n>>]) \in Seq(Packet) /\ s # n
  BY <1>1 DEF Links
<1> QED
  BY <1>1, <1>2 DEF Taken, Streams

-----------------------------------------------------------------------------
(* Where nodes talk to each other. *)

Near(n) == {p \in Nodes : <<n, p>> \in Overlay}

PeersNear == \A n \in Nodes : eager[n] \cup lazy[n] \subseteq Near(n)
QueueNear == \A n, p \in Nodes : queue[n][p] # <<>> => p \in Near(n)
ClaimsNear ==
  \A n \in Nodes, m \in SwarmMessages : \A c \in missing[n][m] : c.peer \in Near(n)
NetNear(w) == \A l \in Links : w[l] # <<>> => l \in Overlay
NearInv == PeersNear /\ QueueNear /\ ClaimsNear /\ NetNear(net)

\* What out sends goes over links of the overlay.
SentNear(n, out) == \A p \in Nodes : out[p] # <<>> => p \in Near(n)

\* Messages sent to peers nearby stay on the overlay.
LEMMA TransmitNear ==
  ASSUME NEW w, NetNear(w), NEW n \in Nodes, NEW out, SentNear(n, out)
  PROVE  NetNear(Transmit(w, n, out))
<1> SUFFICES ASSUME NEW l \in Links, Transmit(w, n, out)[l] # <<>>
             PROVE  l \in Overlay
  BY DEF NetNear
<1>1. l = <<l[1], l[2]>> /\ l[2] \in Nodes
  BY DEF Links
<1>2. CASE w[l] # <<>>
  BY <1>2 DEF NetNear
<1>3. CASE w[l] = <<>>
  <2>1. l[1] = n /\ <<>> \o out[l[2]] # <<>>
    BY <1>3 DEF Transmit
  <2>2. out[l[2]] # <<>>
    BY <2>1
  <2> QED
    BY <1>1, <2>1, <2>2 DEF SentNear, Near
<1> QED
  BY <1>2, <1>3

\* A message arrives from a peer nearby.
LEMMA TakenNear ==
  ASSUME net \in Streams, NetNear(net), NEW s \in Nodes, NEW n \in Nodes, NEW kind,
         Incoming(s, n, kind)
  PROVE  NetNear(Taken(s, n)) /\ s \in Near(n) /\ n \in Near(s)
<1>1. <<s, n>> \in Overlay
  BY DEF Incoming, NetNear
<1>2. <<n, s>> \in Overlay
  BY <1>1, PlumtreeAssumption
<1>3. NetNear(Taken(s, n))
  BY <1>1, TakenIs DEF NetNear
<1> QED
  BY <1>1, <1>2, <1>3 DEF Near

\* What the invariants of TypeInv say of the streams and queues.
LEMMA TypedStreams ==
  ASSUME TypeInv
  PROVE  /\ net \in Streams
         /\ queue \in [Nodes -> [Nodes -> Seq(Announcement)]]
         /\ \A n \in Nodes : eager[n] \subseteq Nodes /\ lazy[n] \subseteq Nodes
BY PacketsAreTyped DEF TypeInv, NetInv, QueueInv, PeerInv, Streams

SwarmOut == [Nodes -> Seq(SwarmPacket)]

\* Packets of the swarm are packets.
LEMMA SwarmOutIsTyped == SwarmOut \subseteq [Nodes -> Seq(Packet)]
BY SwarmStream DEF SwarmOut

\* At most one packet to each peer.
LEMMA OneEach ==
  ASSUME NEW S \in SUBSET Nodes, NEW pkt \in SwarmPacket
  PROVE  [p \in Nodes |-> IF p \in S THEN <<pkt>> ELSE <<>>] \in SwarmOut
<1>1. <<pkt>> \in Seq(SwarmPacket) /\ <<>> \in Seq(SwarmPacket)
  OBVIOUS
<1> QED
  BY <1>1 DEF SwarmOut

\* broadcast, Scope::Swarm, sends the payload to the eager peers.
LEMMA BroadcastSwarmSends ==
  ASSUME TypeInv, NearInv, NEW n \in Nodes, NEW m \in SwarmMessages, BroadcastSwarm(n, m)
  PROVE  \E out \in SwarmOut :
           /\ net' = Transmit(net, n, out) /\ SentNear(n, out)
           /\ \A p \in eager[n] \ {n} : Carries(out[p], "Gossip", m)
           /\ \A p \in Nodes : \A k : Carries(out[p], "Gossip", k) => k = m
<1> DEFINE out == EagerPush(n, m, 0, n)
<1>1. net' = Transmit(net, n, out)
  BY DEF BroadcastSwarm
<1>2. Gossip(m, 0) \in SwarmPacket /\ eager[n] \subseteq Nodes
  BY SwarmPackets, TypedStreams
<1>3. out \in SwarmOut
  BY <1>2, OneEach DEF EagerPush
<1>4. SentNear(n, out)
  BY DEF SentNear, EagerPush, NearInv, PeersNear
<1>5. Matches(Gossip(m, 0), "Gossip", m)
  BY DEF Matches, Gossip
<1>6. ASSUME NEW p \in eager[n] \ {n} PROVE Carries(out[p], "Gossip", m)
  <2>1. out[p] = <<Gossip(m, 0)>>
    BY <1>2 DEF EagerPush
  <2> QED
    BY <1>5, <2>1, ShortStreams
<1>7. ASSUME NEW p \in Nodes, NEW k, Carries(out[p], "Gossip", k) PROVE k = m
  <2>1. out[p] \in {<<Gossip(m, 0)>>, <<>>}
    BY DEF EagerPush
  <2>2. Matches(Gossip(m, 0), "Gossip", k) => k = m
    BY DEF Matches, Gossip
  <2> QED
    BY <1>7, <2>1, <2>2, ShortStreams
<1> HIDE DEF out
<1> QED
  BY <1>1, <1>3, <1>4, <1>6, <1>7

\* on_gossip answers a duplicate with Prune.
LEMMA DuplicateSends ==
  ASSUME TypeInv, NearInv, NEW s \in Nodes, NEW n \in Nodes, OnGossipDuplicate(s, n)
  PROVE  \E out \in SwarmOut :
           /\ net' = Transmit(Taken(s, n), n, out) /\ SentNear(n, out)
           /\ \A p \in Nodes : \A k : ~Carries(out[p], "Gossip", k)
<1> DEFINE out == [p \in Nodes |-> IF p \in {s} THEN <<Prune>> ELSE <<>>]
<1>1. net' = Transmit(Taken(s, n), n, out)
  BY DEF OnGossipDuplicate
<1>2. out \in SwarmOut
  BY SwarmPackets, OneEach
<1>3. SentNear(n, out)
  BY TypedStreams, TakenNear DEF OnGossipDuplicate, SentNear, NearInv
<1>4. ASSUME NEW p \in Nodes, NEW k PROVE ~Carries(out[p], "Gossip", k)
  <2>1. out[p] \in {<<Prune>>, <<>>} /\ ~Matches(Prune, "Gossip", k)
    BY DEF Matches, Prune
  <2> QED
    BY <2>1, ShortStreams
<1> HIDE DEF out
<1> QED
  BY <1>1, <1>2, <1>3, <1>4

\* on_graft sends the payload it is asked for and still holds.
LEMMA GraftSends ==
  ASSUME TypeInv, NearInv, NEW s \in Nodes, NEW n \in Nodes, OnGraft(s, n)
  PROVE  \E out \in SwarmOut :
           /\ net' = Transmit(Taken(s, n), n, out) /\ SentNear(n, out)
           /\ \A m \in SwarmMessages :
                /\ Carries(out[s], "Gossip", m) => cache[n][m] # NotCached
                /\ Matches(Head(net[<<s, n>>]), "Graft", m) /\ cache[n][m] # NotCached
                     => Carries(out[s], "Gossip", m)
           /\ \A p \in Nodes \ {s}, m \in SwarmMessages : ~Carries(out[p], "Gossip", m)
<1> DEFINE g == Head(net[<<s, n>>]).id
           held == g # NoMessage /\ cache[n][g] # NotCached
           to == IF held THEN {s} ELSE {}
           pkt == Gossip(g, cache[n][g])
           out == [p \in Nodes |-> IF held /\ p = s THEN <<pkt>> ELSE <<>>]
<1>1. net' = Transmit(Taken(s, n), n, out)
  BY DEF OnGraft
<1>2. g \in SwarmMessages \cup {NoMessage}
  <2>1. Head(net[<<s, n>>]) \in PacketOf(Known) /\ Head(net[<<s, n>>]).kind = "Graft"
    BY TakenType DEF OnGraft, TypeInv, NetInv
  <2> QED
    BY <2>1, PacketFields
<1>3. held => g \in SwarmMessages /\ cache[n][g] \in Nat
  BY <1>2 DEF TypeInv, LocalInv
<1>4. held => pkt \in SwarmPacket
  BY <1>3, SwarmPackets
<1> HIDE DEF g, pkt
<1>5. out \in SwarmOut
  <2>1. CASE held
    <3>1. out = [p \in Nodes |-> IF p \in {s} THEN <<pkt>> ELSE <<>>]
      BY <2>1
    <3> QED
      BY <1>4, <2>1, <3>1, OneEach
  <2>2. CASE ~held
    BY <2>2 DEF SwarmOut
  <2> QED
    BY <2>1, <2>2
<1>6. s \in Near(n)
  BY TypedStreams, TakenNear DEF OnGraft, NearInv
<1>7. SentNear(n, out)
  BY <1>6 DEF SentNear
<1>8. \A m : Matches(pkt, "Gossip", m) <=> m = g
  BY DEF Matches, pkt, Gossip
<1>9. ASSUME NEW m \in SwarmMessages
      PROVE  /\ Carries(out[s], "Gossip", m) => cache[n][m] # NotCached
             /\ Matches(Head(net[<<s, n>>]), "Graft", m) /\ cache[n][m] # NotCached
                  => Carries(out[s], "Gossip", m)
  <2>1. out[s] = IF held THEN <<pkt>> ELSE <<>>
    OBVIOUS
  <2>2. Carries(out[s], "Gossip", m) <=> held /\ m = g
    BY <1>8, <2>1, ShortStreams, Zenon
  <2>3. Matches(Head(net[<<s, n>>]), "Graft", m) => m = g
    BY DEF Matches, g
  <2>4. m # NoMessage
    BY PlumtreeAssumption DEF Messages
  <2> QED
    BY <2>2, <2>3, <2>4
<1>10. ASSUME NEW p \in Nodes \ {s}, NEW m \in SwarmMessages
       PROVE  ~Carries(out[p], "Gossip", m)
  <2>1. out[p] = <<>>
    OBVIOUS
  <2> QED
    BY <2>1, ShortStreams
<1> HIDE DEF out
<1> QED
  BY <1>1, <1>5, <1>7, <1>9, <1>10

\* on_gossip pushes a new payload to the eager peers, and optimize_tree sends
\* Graft and Prune.
LEMMA SwarmSends ==
  ASSUME TypeInv, NearInv, NEW s \in Nodes, NEW n \in Nodes, OnGossipSwarm(s, n)
  PROVE  \E out \in SwarmOut :
           /\ net' = Transmit(Taken(s, n), n, out) /\ SentNear(n, out)
           /\ \A p \in eager[n] \ {n, s} : Carries(out[p], "Gossip", Head(net[<<s, n>>]).id)
           /\ \A p \in Nodes, m \in SwarmMessages :
                Carries(out[p], "Gossip", m) => m = Head(net[<<s, n>>]).id
<1> DEFINE m == Head(net[<<s, n>>]).id
           hops == Head(net[<<s, n>>]).scope
           round == hops + 1
           better == Promoted(missing[n][m], round)
           worse == IF better = {} THEN {} ELSE {s}
           push == EagerPush(n, m, round, s)
           graft == [p \in Nodes |-> IF p \in better \ eager[n]
                                     THEN <<Graft(NoMessage)>> ELSE <<>>]
           prune == [p \in Nodes |-> IF p \in worse THEN <<Prune>> ELSE <<>>]
           out == [p \in Nodes |-> push[p] \o graft[p] \o prune[p]]
<1>1. net' = Transmit(Taken(s, n), n, out) /\ m \in SwarmMessages /\ Incoming(s, n, "Gossip")
  BY DEF OnGossipSwarm
<1>2. hops \in Nat /\ round \in Nat
  <2>1. Head(net[<<s, n>>]) \in PacketOf(Known) /\ Head(net[<<s, n>>]).kind = "Gossip"
    BY <1>1, TakenType DEF TypeInv, NetInv
  <2>2. m \in SwarmMessages \cap Known /\ hops \in Nat
    BY <1>1, <2>1, PacketFields, PlumtreeAssumption
  <2> QED
    BY <2>2
<1>3. better \subseteq Near(n)
  BY <1>1 DEF Promoted, NearInv, ClaimsNear
<1>4. s \in Near(n) /\ eager[n] \subseteq Near(n) /\ Near(n) \subseteq Nodes
  BY <1>1, TypedStreams, TakenNear DEF NearInv, PeersNear, Near
<1>5. worse \subseteq Near(n)
  BY <1>4
<1>6. /\ Gossip(m, round) \in SwarmPacket /\ Graft(NoMessage) \in SwarmPacket
      /\ Prune \in SwarmPacket
  BY <1>1, <1>2, SwarmPackets
<1> HIDE DEF hops, better, worse, round, m
<1>7. push \in SwarmOut /\ graft \in SwarmOut /\ prune \in SwarmOut
  <2>1. push \in SwarmOut
    BY <1>4, <1>6, OneEach DEF EagerPush
  <2>2. graft \in SwarmOut
    BY <1>3, <1>4, <1>6, OneEach
  <2>3. prune \in SwarmOut
    BY <1>4, <1>5, <1>6, OneEach
  <2> QED
    BY <2>1, <2>2, <2>3
<1>8. ASSUME NEW p \in Nodes
      PROVE  /\ p \notin Near(n) => push[p] = <<>> /\ graft[p] = <<>> /\ prune[p] = <<>>
             /\ push[p] = IF p \in eager[n] \ {n, s} THEN <<Gossip(m, round)>> ELSE <<>>
             /\ graft[p] \in {<<Graft(NoMessage)>>, <<>>}
             /\ prune[p] \in {<<Prune>>, <<>>}
  BY <1>3, <1>4, <1>5 DEF EagerPush
<1> HIDE DEF push, graft, prune
<1>9. ASSUME NEW p \in Nodes
      PROVE  /\ out[p] \in Seq(SwarmPacket)
             /\ out[p] = push[p] \o graft[p] \o prune[p]
             /\ {push[p], graft[p], prune[p], push[p] \o graft[p]} \subseteq Seq(Packet)
  <2>1. {push[p], graft[p], prune[p]} \subseteq Seq(SwarmPacket)
    BY <1>7 DEF SwarmOut
  <2>2. push[p] \o graft[p] \in Seq(SwarmPacket)
    BY <2>1
  <2>3. push[p] \o graft[p] \o prune[p] \in Seq(SwarmPacket)
    BY <2>1, <2>2
  <2> QED
    BY <2>1, <2>2, <2>3, SwarmStream
<1>10. out \in SwarmOut
  BY <1>9 DEF SwarmOut
<1>11. SentNear(n, out)
  <2> SUFFICES ASSUME NEW p \in Nodes, p \notin Near(n) PROVE out[p] = <<>>
    BY DEF SentNear
  <2>1. <<>> \o <<>> \o <<>> = <<>>
    OBVIOUS
  <2> QED
    BY <1>8, <1>9, <2>1
<1>12. ASSUME NEW p \in Nodes, NEW k
       PROVE  Carries(out[p], "Gossip", k) <=>
                Carries(push[p], "Gossip", k)
  <2>1. /\ Carries(out[p], "Gossip", k) <=>
             \/ Carries(push[p] \o graft[p], "Gossip", k) \/ Carries(prune[p], "Gossip", k)
        /\ Carries(push[p] \o graft[p], "Gossip", k) <=>
             \/ Carries(push[p], "Gossip", k) \/ Carries(graft[p], "Gossip", k)
    BY <1>9, ConcatCarries
  <2>2. ~Matches(Graft(NoMessage), "Gossip", k) /\ ~Matches(Prune, "Gossip", k)
    BY DEF Matches, Graft, Prune
  <2>3. ~Carries(graft[p], "Gossip", k) /\ ~Carries(prune[p], "Gossip", k)
    BY <1>8, <2>2, ShortStreams
  <2> QED
    BY <2>1, <2>3
<1>13. \A k : Matches(Gossip(m, round), "Gossip", k) <=> k = m
  BY DEF Matches, Gossip
<1>14. ASSUME NEW p \in Nodes, NEW k
       PROVE  Carries(out[p], "Gossip", k) <=> p \in eager[n] \ {n, s} /\ k = m
  <2>1. CASE p \in eager[n] \ {n, s}
    <3>1. push[p] = <<Gossip(m, round)>>
      BY <1>8, <2>1
    <3> QED
      BY <1>12, <1>13, <2>1, <3>1, ShortStreams
  <2>2. CASE p \notin eager[n] \ {n, s}
    <3>1. push[p] = <<>>
      BY <1>8, <2>2
    <3> QED
      BY <1>12, <2>2, <3>1, ShortStreams
  <2> QED
    BY <2>1, <2>2
<1> HIDE DEF out
<1> QED
  BY <1>1, <1>4, <1>10, <1>11, <1>14 DEF m

\* on_dispatch_timer sends each peer what is queued for it.
LEMMA DispatchSends ==
  ASSUME TypeInv, NearInv, NEW n \in Nodes, OnDispatchTimer(n)
  PROVE  \E out \in SwarmOut :
           /\ net' = Transmit(net, n, out) /\ SentNear(n, out)
           /\ \A p \in Nodes : \A m :
                (\E i \in DOMAIN queue[n][p] : queue[n][p][i].id = m)
                  => Carries(out[p], "IHave", m)
           /\ \A p \in Nodes : \A m : ~Carries(out[p], "Gossip", m)
<1> DEFINE out == [p \in Nodes |-> IF queue[n][p] # <<>>
                     THEN <<IHave(queue[n][p])>> ELSE <<>>]
<1>1. net' = Transmit(net, n, out)
  BY DEF OnDispatchTimer
<1>2. ASSUME NEW p \in Nodes
      PROVE  /\ queue[n][p] \in Seq(Announcement)
             /\ out[p] = IF queue[n][p] # <<>> THEN <<IHave(queue[n][p])>> ELSE <<>>
             /\ out[p] \in Seq(SwarmPacket)
  <2>1. queue[n][p] \in Seq(Announcement)
    BY TypedStreams
  <2>2. PICK pkt \in SwarmPacket : pkt = IHave(queue[n][p])
    BY <2>1, SwarmPackets
  <2>3. <<pkt>> \in Seq(SwarmPacket) /\ <<>> \in Seq(SwarmPacket)
    OBVIOUS
  <2>4. out[p] = IF queue[n][p] # <<>> THEN <<pkt>> ELSE <<>>
    BY <2>2, Zenon
  <2>5. out[p] \in Seq(SwarmPacket)
    BY <2>3, <2>4
  <2> QED
    BY <2>1, <2>2, <2>4, <2>5
<1>3. out \in SwarmOut
  BY <1>2 DEF SwarmOut
<1>4. SentNear(n, out)
  BY DEF SentNear, NearInv, QueueNear
<1> HIDE DEF out
<1>5. ASSUME NEW p \in Nodes, NEW m, NEW i \in DOMAIN queue[n][p], queue[n][p][i].id = m
      PROVE  Carries(out[p], "IHave", m)
  <2>1. queue[n][p] # <<>>
    BY <1>2, <1>5
  <2>2. Matches(IHave(queue[n][p]), "IHave", m)
    BY <1>5 DEF Matches, IHave
  <2> QED
    BY <1>2, <2>1, <2>2, ShortStreams
<1>6. ASSUME NEW p \in Nodes, NEW m PROVE ~Carries(out[p], "Gossip", m)
  <2>1. ~Matches(IHave(queue[n][p]), "Gossip", m)
    BY DEF Matches, IHave
  <2> QED
    BY <1>2, <2>1, ShortStreams
<1> QED
  BY <1>1, <1>3, <1>4, <1>5, <1>6

\* on_send_graft_timer asks one announcer for the payload, or nobody.
LEMMA SendGraftSends ==
  ASSUME TypeInv, NearInv, NEW n \in Nodes, NEW m \in SwarmMessages, OnSendGraftTimer(n, m)
  PROVE  \/ UNCHANGED <<eager, lazy, missing, net>>
         \/ \E first \in missing[n][m] : \E out \in SwarmOut :
              /\ net' = Transmit(net, n, out) /\ SentNear(n, out)
              /\ first.peer \in Near(n)
              /\ missing' = [missing EXCEPT ![n][m] = @ \ {first}]
              /\ AddEager(n, first.peer)
              /\ Carries(out[first.peer], "Graft", m)
              /\ \A p \in Nodes : \A k : ~Carries(out[p], "Gossip", k)
<1>1. CASE m \in received[n] \/ missing[n][m] = {}
  BY <1>1 DEF OnSendGraftTimer
<1>2. CASE ~(m \in received[n] \/ missing[n][m] = {})
  <2>1. PICK first \in missing[n][m] :
          /\ missing' = [missing EXCEPT ![n][m] = @ \ {first}]
          /\ AddEager(n, first.peer)
          /\ net' = Transmit(net, n, [p \in Nodes |-> IF p = first.peer
                                        THEN <<Graft(m)>> ELSE <<>>])
    BY <1>2 DEF OnSendGraftTimer
  <2> DEFINE out == [p \in Nodes |-> IF p \in {first.peer} THEN <<Graft(m)>> ELSE <<>>]
  <2>2. net' = Transmit(net, n, out)
    BY <2>1
  <2>3. first.peer \in Near(n) /\ first.peer \in Nodes
    BY DEF NearInv, ClaimsNear, Near
  <2>4. Graft(m) \in SwarmPacket
    BY SwarmPackets
  <2>5. out \in SwarmOut
    BY <2>3, <2>4, OneEach
  <2>6. SentNear(n, out)
    BY <2>3 DEF SentNear
  <2>7. \A k : ~Matches(Graft(m), "Gossip", k)
    BY DEF Matches, Graft
  <2>8. Matches(Graft(m), "Graft", m)
    BY DEF Matches, Graft
  <2>9. Carries(out[first.peer], "Graft", m)
    <3>1. out[first.peer] = <<Graft(m)>>
      BY <2>3
    <3> QED
      BY <2>8, <3>1, ShortStreams
  <2>10. ASSUME NEW p \in Nodes, NEW k PROVE ~Carries(out[p], "Gossip", k)
    <3>1. out[p] \in {<<Graft(m)>>, <<>>}
      OBVIOUS
    <3> QED
      BY <2>7, <3>1, ShortStreams
  <2> HIDE DEF out
  <2> QED
    BY <2>1, <2>2, <2>3, <2>5, <2>6, <2>9, <2>10
<1> QED
  BY <1>1, <1>2

\* lazy_push queues announcements for lazy peers only.
LEMMA LazyPushNear ==
  ASSUME TypeInv, NearInv, NEW n \in Nodes, NEW m, NEW round, NEW from,
         LazyPush(n, m, round, from)
  PROVE  QueueNear'
<1> SUFFICES ASSUME NEW x \in Nodes, NEW p \in Nodes, queue'[x][p] # <<>>
             PROVE  p \in Near(x)
  BY DEF QueueNear
<1>1. queue'[x][p] = queue[x][p] \/ (x = n /\ p \in lazy[n])
  BY DEF LazyPush, TypeInv, QueueInv
<1> QED
  BY <1>1 DEF NearInv, QueueNear, PeersNear

\* A peer that a handler makes eager or lazy is nearby.
LEMMA PeersStayNear ==
  ASSUME TypeInv, NearInv, NEW n \in Nodes, NEW p \in Near(n),
         AddEager(n, p) \/ AddLazy(n, p)
  PROVE  PeersNear'
BY DEF AddEager, AddLazy, NearInv, PeersNear, TypeInv, PeerInv

\* The handlers of messages.
LEMMA NearReceive ==
  ASSUME TypeInv, NearInv, NEW s \in Nodes, NEW n \in Nodes, Receive(s, n)
  PROVE  NearInv'
<1>0. net \in Streams /\ NetNear(net)
  BY TypedStreams DEF NearInv
<1>1. ASSUME NEW kind, Incoming(s, n, kind)
      PROVE  NetNear(Taken(s, n)) /\ s \in Near(n)
  BY <1>0, <1>1, TakenNear
<1>2. ASSUME NEW kind, Incoming(s, n, kind), NEW out \in SwarmOut,
             net' = Transmit(Taken(s, n), n, out), SentNear(n, out)
      PROVE  NetNear(net')
  BY <1>1, <1>2, TransmitNear
<1>3. CASE OnGossipEcho(s, n)
  <2>1. NetNear(net')
    BY <1>1, <1>3 DEF OnGossipEcho
  <2> QED
    BY <1>3, <2>1 DEF OnGossipEcho, NearInv, PeersNear, QueueNear, ClaimsNear, NetNear
<1>4. CASE OnGossipDuplicate(s, n)
  <2>1. NetNear(net')
    BY <1>2, <1>4, DuplicateSends DEF OnGossipDuplicate
  <2>2. PeersNear'
    BY <1>1, <1>4, PeersStayNear DEF OnGossipDuplicate
  <2> QED
    BY <1>4, <2>1, <2>2 DEF OnGossipDuplicate, NearInv, QueueNear, ClaimsNear, NetNear
<1>5. CASE OnGossipSwarm(s, n)
  <2> DEFINE m == Head(net[<<s, n>>]).id
             better == Promoted(missing[n][m], Head(net[<<s, n>>]).scope + 1)
             worse == IF better = {} THEN {} ELSE {s}
  <2>1. /\ Incoming(s, n, "Gossip") /\ m \in SwarmMessages
        /\ LazyPush(n, m, Head(net[<<s, n>>]).scope + 1, s)
        /\ missing' = [missing EXCEPT ![n][m] = {}]
        /\ eager' = [eager EXCEPT ![n] = (eager[n] \cup better) \ worse]
        /\ lazy' = [lazy EXCEPT ![n] = (lazy[n] \ better) \cup worse]
    BY <1>5 DEF OnGossipSwarm
  <2>2. NetNear(net')
    BY <1>2, <1>5, <2>1, SwarmSends
  <2>3. better \subseteq Near(n) /\ worse \subseteq Near(n)
    BY <1>1, <2>1 DEF Promoted, NearInv, ClaimsNear
  <2>4. QueueNear'
    BY <2>1, LazyPushNear
  <2> HIDE DEF m, better, worse
  <2>5. PeersNear'
    BY <2>1, <2>3 DEF NearInv, PeersNear, TypeInv, PeerInv
  <2>6. ClaimsNear'
    BY <2>1 DEF NearInv, ClaimsNear, TypeInv, LocalInv
  <2> QED
    BY <2>2, <2>4, <2>5, <2>6 DEF NearInv, NetNear
<1>6. CASE OnGossipNeighbors(s, n)
  <2>1. NetNear(net')
    BY <1>1, <1>6 DEF OnGossipNeighbors
  <2> QED
    BY <1>6, <2>1 DEF OnGossipNeighbors, protocolVars, NearInv, PeersNear, QueueNear,
                      ClaimsNear, NetNear
<1>7. CASE OnPrune(s, n)
  <2>1. NetNear(net')
    BY <1>1, <1>7 DEF OnPrune
  <2>2. PeersNear'
    BY <1>1, <1>7, PeersStayNear DEF OnPrune
  <2> QED
    BY <1>7, <2>1, <2>2 DEF OnPrune, NearInv, QueueNear, ClaimsNear, NetNear
<1>8. CASE OnIHave(s, n)
  <2>1. NetNear(net') /\ s \in Near(n)
    BY <1>1, <1>8 DEF OnIHave
  <2>2. ClaimsNear'
    <3> DEFINE list == Head(net[<<s, n>>]).list
               lacked == {list[i].id : i \in DOMAIN list} \ received[n]
    <3>1. PICK last : missing' = [missing EXCEPT ![n] =
                 [m \in SwarmMessages |-> missing[n][m] \cup
                    (IF m \in lacked THEN NewClaims(list, m, s, last) ELSE {})]]
      BY <1>8 DEF OnIHave
    <3>2. \A m : \A c \in NewClaims(list, m, s, last) : c.peer = s
      BY DEF NewClaims
    <3> HIDE DEF list, lacked
    <3>3. ASSUME NEW x \in Nodes, NEW m \in SwarmMessages, NEW c \in missing'[x][m]
          PROVE  c \in missing[x][m] \/ (x = n /\ c.peer = s)
      BY <3>1, <3>2, <3>3 DEF TypeInv, LocalInv
    <3> QED
      BY <2>1, <3>3 DEF NearInv, ClaimsNear
  <2> QED
    BY <1>8, <2>1, <2>2 DEF OnIHave, NearInv, PeersNear, QueueNear, NetNear
<1>9. CASE OnGraft(s, n)
  <2>1. NetNear(net')
    BY <1>2, <1>9, GraftSends DEF OnGraft
  <2>2. PeersNear'
    BY <1>1, <1>9, PeersStayNear DEF OnGraft
  <2> QED
    BY <1>9, <2>1, <2>2 DEF OnGraft, NearInv, QueueNear, ClaimsNear, NetNear
<1> QED
  BY <1>3, <1>4, <1>5, <1>6, <1>7, <1>8, <1>9 DEF Receive

\* Broadcasts and timers.
LEMMA NearSend ==
  ASSUME TypeInv, NearInv, NEW n \in Nodes,
         \/ \E m \in SwarmMessages : BroadcastSwarm(n, m)
         \/ \E m \in NeighborMessages : BroadcastNeighbors(n, m)
         \/ Timer(n)
  PROVE  NearInv'
<1>0. NetNear(net)
  BY DEF NearInv
<1>1. ASSUME NEW m \in SwarmMessages, BroadcastSwarm(n, m) PROVE NearInv'
  <2>1. NetNear(net')
    BY <1>0, <1>1, TransmitNear, BroadcastSwarmSends
  <2>2. QueueNear'
    BY <1>1, LazyPushNear DEF BroadcastSwarm
  <2> QED
    BY <1>1, <2>1, <2>2 DEF BroadcastSwarm, NearInv, PeersNear, ClaimsNear, NetNear
<1>2. ASSUME NEW m \in NeighborMessages, BroadcastNeighbors(n, m) PROVE NearInv'
  <2>1. SentNear(n, EagerPush(n, m, DirectScope, n))
    BY DEF SentNear, EagerPush, NearInv, PeersNear
  <2>2. NetNear(net')
    BY <1>0, <1>2, <2>1, TransmitNear DEF BroadcastNeighbors
  <2> QED
    BY <1>2, <2>2 DEF BroadcastNeighbors, protocolVars, NearInv, PeersNear, QueueNear,
                      ClaimsNear, NetNear
<1>3. ASSUME OnDispatchTimer(n) PROVE NearInv'
  <2>1. NetNear(net')
    BY <1>0, <1>3, TransmitNear, DispatchSends
  <2>2. QueueNear'
    BY <1>3 DEF OnDispatchTimer, NearInv, QueueNear, TypeInv, QueueInv
  <2> QED
    BY <1>3, <2>1, <2>2 DEF OnDispatchTimer, NearInv, PeersNear, ClaimsNear, NetNear
<1>4. ASSUME NEW m \in SwarmMessages, OnSendGraftTimer(n, m) PROVE NearInv'
  <2>0. queue' = queue
    BY <1>4 DEF OnSendGraftTimer
  <2>1. CASE UNCHANGED <<eager, lazy, missing, net>>
    BY <2>0, <2>1 DEF NearInv, PeersNear, QueueNear, ClaimsNear, NetNear
  <2>2. ASSUME NEW first \in missing[n][m], NEW out \in SwarmOut,
               net' = Transmit(net, n, out), SentNear(n, out), first.peer \in Near(n),
               missing' = [missing EXCEPT ![n][m] = @ \ {first}],
               AddEager(n, first.peer)
        PROVE  NearInv'
    <3>1. NetNear(net')
      BY <1>0, <2>2, TransmitNear
    <3>2. PeersNear'
      BY <2>2, PeersStayNear
    <3>3. ClaimsNear'
      BY <2>2 DEF NearInv, ClaimsNear, TypeInv, LocalInv
    <3> QED
      BY <2>0, <3>1, <3>2, <3>3 DEF NearInv, QueueNear, NetNear
  <2> QED
    BY <1>4, <2>1, <2>2, SendGraftSends
<1> QED
  BY <1>1, <1>2, <1>3, <1>4 DEF Timer

\* Membership and eviction.
LEMMA NearMembership ==
  ASSUME TypeInv, NearInv, NEW n \in Nodes, NEW p \in Nodes,
         \/ OnNeighborUp(n, p) \/ OnNeighborDown(n, p)
         \/ ConnectionCloses(n, p) \/ OnEvictCacheTimer(n)
  PROVE  NearInv'
<1>1. CASE OnNeighborUp(n, p)
  <2>1. PeersNear'
    BY <1>1, PeersStayNear DEF OnNeighborUp, Near
  <2> QED
    BY <1>1, <2>1 DEF OnNeighborUp, NearInv, QueueNear, ClaimsNear, NetNear
<1>2. CASE OnNeighborDown(n, p)
  <2>1. PeersNear'
    BY <1>2 DEF OnNeighborDown, NearInv, PeersNear, TypeInv, PeerInv
  <2>2. ClaimsNear'
    BY <1>2 DEF OnNeighborDown, NearInv, ClaimsNear, TypeInv, LocalInv
  <2> QED
    BY <1>2, <2>1, <2>2 DEF OnNeighborDown, NearInv, QueueNear, NetNear
<1>3. CASE ConnectionCloses(n, p)
  <2>1. \A l \in Links : net'[l] = net[l] \/ net'[l] = <<>>
    BY <1>3, TypedStreams DEF ConnectionCloses, Streams
  <2> QED
    BY <1>3, <2>1 DEF ConnectionCloses, protocolVars, NearInv, PeersNear, QueueNear,
                      ClaimsNear, NetNear
<1>4. CASE OnEvictCacheTimer(n)
  BY <1>4 DEF OnEvictCacheTimer, NearInv, PeersNear, QueueNear, ClaimsNear, NetNear
<1> QED
  BY <1>1, <1>2, <1>3, <1>4

\* Initially everybody is linked to neighbours only and nothing travels.
LEMMA NearInit == Init => NearInv
<1> SUFFICES ASSUME Init PROVE NearInv
  OBVIOUS
<1>1. PeersNear
  BY DEF Init, PeersNear, Near
<1>2. QueueNear /\ ClaimsNear
  BY DEF Init, QueueNear, ClaimsNear
<1>3. NetNear(net)
  BY DEF Init, NetNear
<1> QED
  BY <1>1, <1>2, <1>3 DEF NearInv

\* No step makes a node talk to a peer it has no link to.
LEMMA NearStep == TypeInv /\ NearInv /\ [Next]_vars => NearInv'
<1> SUFFICES ASSUME TypeInv, NearInv, [Next]_vars PROVE NearInv'
  OBVIOUS
<1>1. CASE UNCHANGED vars
  BY <1>1 DEF vars, protocolVars, NearInv, PeersNear, QueueNear, ClaimsNear, NetNear
<1> QED
  BY <1>1, NearReceive, NearSend, NearMembership DEF Next

-----------------------------------------------------------------------------
(* Messages for direct neighbours. *)

\* A copy travels on a link of its author only, alone, and to a node that has
\* not had it.
CopiesInv ==
  \A l \in Links, m \in NeighborMessages :
    /\ Carries(net[l], "Gossip", m) =>
         l \in Overlay /\ l[1] = author[m] /\ emitted[l[2]][m] = 0
    /\ Once(net[l], m)
DirectInv ==
  \A n \in Nodes, m \in NeighborMessages :
    emitted[n][m] > 0 => emitted[n][m] = 1 /\ <<author[m], n>> \in Overlay
OneHopInv == CopiesInv /\ DirectInv

\* Streams with no copy of a neighbour message that is not in net.
Thinner(w) ==
  /\ w \in Streams
  /\ \A l \in Links, m \in NeighborMessages :
       /\ Carries(w[l], "Gossip", m) => Carries(net[l], "Gossip", m)
       /\ Once(w[l], m)

\* Taking a message.
LEMMA TakenThinner ==
  ASSUME net \in Streams, CopiesInv, NEW s \in Nodes, NEW n \in Nodes, NEW kind,
         Incoming(s, n, kind)
  PROVE  Thinner(Taken(s, n))
<1>0. /\ Taken(s, n) \in Streams /\ <<s, n>> \in Links
      /\ net[<<s, n>>] \in Seq(Packet) /\ net[<<s, n>>] # <<>>
      /\ Taken(s, n)[<<s, n>>] = Tail(net[<<s, n>>])
      /\ \A l \in Links : l # <<s, n>> => Taken(s, n)[l] = net[l]
  BY TakenIs
<1>1. ASSUME NEW l \in Links, NEW m \in NeighborMessages
      PROVE  /\ Carries(Taken(s, n)[l], "Gossip", m) => Carries(net[l], "Gossip", m)
             /\ Once(Taken(s, n)[l], m)
  <2>0. Once(net[l], m)
    BY DEF CopiesInv
  <2>1. CASE l = <<s, n>>
    BY <1>0, <2>0, <2>1, TailCarries, TailOnce
  <2>2. CASE l # <<s, n>>
    BY <1>0, <2>0, <2>2
  <2> QED
    BY <2>1, <2>2
<1> QED
  BY <1>0, <1>1 DEF Thinner

\* Sending packets of the swarm.
LEMMA TransmitThinner ==
  ASSUME NEW w, Thinner(w), NEW n \in Nodes, NEW out \in SwarmOut
  PROVE  Thinner(Transmit(w, n, out))
<1>0. w \in Streams /\ out \in [Nodes -> Seq(Packet)]
  BY SwarmOutIsTyped DEF Thinner
<1>1. /\ Transmit(w, n, out) \in Streams
      /\ \A l \in Links :
           /\ w[l] \in Seq(Packet) /\ out[l[2]] \in Seq(Packet) /\ l[2] \in Nodes
           /\ Transmit(w, n, out)[l] = IF l[1] = n THEN w[l] \o out[l[2]] ELSE w[l]
  BY <1>0, TransmitIs
<1>2. ASSUME NEW l \in Links, NEW m \in NeighborMessages
      PROVE  /\ Carries(Transmit(w, n, out)[l], "Gossip", m) => Carries(net[l], "Gossip", m)
             /\ Once(Transmit(w, n, out)[l], m)
  <2>0. /\ Once(w[l], m)
        /\ Carries(w[l], "Gossip", m) => Carries(net[l], "Gossip", m)
    BY DEF Thinner
  <2>1. ~Carries(out[l[2]], "Gossip", m) /\ Once(out[l[2]], m)
    BY <1>1, SwarmStream DEF SwarmOut
  <2>2. CASE l[1] = n
    <3>1. Transmit(w, n, out)[l] = w[l] \o out[l[2]]
      BY <1>1, <2>2
    <3> QED
      BY <1>1, <2>0, <2>1, <3>1, ConcatCarries, ConcatOnce
  <2>3. CASE l[1] # n
    BY <1>1, <2>0, <2>3
  <2> QED
    BY <2>2, <2>3
<1> QED
  BY <1>1, <1>2 DEF Thinner

\* A step that adds no copy and emits none.
LEMMA OneHopKept ==
  ASSUME OneHopInv, Thinner(net'),
         \A m \in NeighborMessages : author'[m] = author[m],
         \A n \in Nodes, m \in NeighborMessages : emitted'[n][m] = emitted[n][m]
  PROVE  OneHopInv'
<1>1. \A l \in Links : l[2] \in Nodes
  BY DEF Links
<1>2. CopiesInv'
  BY <1>1 DEF OneHopInv, CopiesInv, Thinner
<1>3. DirectInv'
  BY DEF OneHopInv, DirectInv
<1> QED
  BY <1>2, <1>3 DEF OneHopInv

\* broadcast, Scope::Neighbors, sends one copy to each eager peer.
LEMMA OneHopBroadcast ==
  ASSUME TypeInv, NearInv, OneHopInv, NEW n \in Nodes, NEW m \in NeighborMessages,
         BroadcastNeighbors(n, m)
  PROVE  OneHopInv'
<1> DEFINE out == EagerPush(n, m, DirectScope, n)
           pkt == Gossip(m, DirectScope)
<1>0. /\ author[m] = NoNode /\ author' = [author EXCEPT ![m] = n]
      /\ net' = Transmit(net, n, out) /\ emitted' = emitted
  BY DEF BroadcastNeighbors
<1>1. /\ author'[m] = n
      /\ \A k \in NeighborMessages \ {m} : author'[k] = author[k]
  BY <1>0 DEF TypeInv, CounterInv, Messages
<1>2. \A x \in Nodes : emitted[x][m] = 0
  BY <1>0 DEF TypeInv, EmittedInv, Known, Messages
<1>3. \A l \in Links : ~Carries(net[l], "Gossip", m)
  <2> SUFFICES ASSUME NEW l \in Links, NEW i \in DOMAIN net[l], Matches(net[l][i], "Gossip", m)
               PROVE  FALSE
    BY DEF Carries
  <2>1. net[l] \in Seq(PacketOf(Known))
    BY DEF TypeInv, NetInv
  <2>2. net[l][i] \in PacketOf(Known) /\ net[l][i].kind = "Gossip" /\ net[l][i].id = m
    BY <2>1 DEF Matches
  <2>3. m \in Known
    BY <2>2, PacketFields
  <2> QED
    BY <1>0, <2>3 DEF Known
<1>4. pkt \in Packet
  BY DEF Gossip, Packet
<1>5. \A k : Matches(pkt, "Gossip", k) <=> k = m
  BY DEF Matches, Gossip
<1>6. ASSUME NEW p \in Nodes
      PROVE  /\ out[p] \in Seq(Packet) /\ \A k : Once(out[p], k)
             /\ \A k : Carries(out[p], "Gossip", k) => k = m /\ p \in Near(n)
  <2>1. out[p] = IF p \in eager[n] \ {n} THEN <<pkt>> ELSE <<>>
    BY DEF EagerPush
  <2> HIDE DEF pkt, out
  <2>2. <<pkt>> \in Seq(Packet) /\ <<>> \in Seq(Packet)
    BY <1>4
  <2>3. CASE p \in eager[n] \ {n}
    <3>1. out[p] = <<pkt>> /\ p \in Near(n)
      BY <2>1, <2>3 DEF NearInv, PeersNear
    <3> QED
      BY <1>5, <2>2, <3>1, ShortStreams
  <2>4. CASE p \notin eager[n] \ {n}
    <3>1. out[p] = <<>>
      BY <2>1, <2>4
    <3> QED
      BY <2>2, <3>1, ShortStreams
  <2> QED
    BY <2>3, <2>4
<1>7. out \in [Nodes -> Seq(Packet)] /\ net \in Streams
  BY <1>6, TypedStreams DEF EagerPush
<1> HIDE DEF out, pkt
<1>8. \A l \in Links :
        /\ net[l] \in Seq(Packet) /\ out[l[2]] \in Seq(Packet) /\ l[2] \in Nodes
        /\ net'[l] = IF l[1] = n THEN net[l] \o out[l[2]] ELSE net[l]
  BY <1>0, <1>7, TransmitIs
<1>9. ASSUME NEW l \in Links, NEW k \in NeighborMessages
      PROVE  /\ Carries(net'[l], "Gossip", k) =>
                  l \in Overlay /\ l[1] = author'[k] /\ emitted'[l[2]][k] = 0
             /\ Once(net'[l], k)
  <2>0. /\ Once(net[l], k)
        /\ Carries(net[l], "Gossip", k) =>
             l \in Overlay /\ l[1] = author[k] /\ emitted[l[2]][k] = 0
    BY DEF OneHopInv, CopiesInv
  <2>1. k = m => ~Carries(net[l], "Gossip", k)
    BY <1>3
  <2>2. CASE l[1] = n
    <3>1. Carries(net'[l], "Gossip", k) <=>
            Carries(net[l], "Gossip", k) \/ Carries(out[l[2]], "Gossip", k)
      BY <1>8, <2>2, ConcatCarries
    <3>2. Carries(out[l[2]], "Gossip", k) => k = m /\ l[2] \in Near(n)
      BY <1>6, <1>8
    <3>3. Once(net'[l], k)
      <4>1. Once(out[l[2]], k) /\ net'[l] = net[l] \o out[l[2]]
        BY <1>6, <1>8, <2>2
      <4>2. ~Carries(net[l], "Gossip", k) \/ ~Carries(out[l[2]], "Gossip", k)
        BY <2>1, <3>2
      <4> QED
        BY <1>8, <2>0, <4>1, <4>2, ConcatOnce
    <3>4. l = <<n, l[2]>>
      BY <2>2 DEF Links
    <3> QED
      BY <1>0, <1>1, <1>2, <1>8, <2>0, <2>1, <2>2, <3>1, <3>2, <3>3, <3>4 DEF Near
  <2>3. CASE l[1] # n
    BY <1>0, <1>1, <1>8, <2>0, <2>1, <2>3
  <2> QED
    BY <2>2, <2>3
<1>10. CopiesInv'
  BY <1>9 DEF CopiesInv
<1>11. DirectInv'
  BY <1>0, <1>1, <1>2 DEF OneHopInv, DirectInv
<1> QED
  BY <1>10, <1>11 DEF OneHopInv

\* on_gossip emits the copy it takes; no other is on its way to this node.
LEMMA OneHopArrives ==
  ASSUME TypeInv, OneHopInv, NEW s \in Nodes, NEW n \in Nodes, OnGossipNeighbors(s, n)
  PROVE  OneHopInv'
<1> DEFINE m == Head(net[<<s, n>>]).id
<1>0. /\ Incoming(s, n, "Gossip") /\ m \in NeighborMessages
      /\ emitted' = [emitted EXCEPT ![n][m] = emitted[n][m] + 1]
      /\ net' = Taken(s, n) /\ author' = author
  BY DEF OnGossipNeighbors
<1>1. Matches(Head(net[<<s, n>>]), "Gossip", m)
  BY <1>0 DEF Incoming, Matches
<1> HIDE DEF m
<1>2. /\ net \in Streams /\ <<s, n>> \in Links
      /\ net[<<s, n>>] \in Seq(Packet) /\ net[<<s, n>>] # <<>>
      /\ net'[<<s, n>>] = Tail(net[<<s, n>>])
      /\ Thinner(net')
  BY <1>0, TypedStreams, TakenIs, TakenThinner DEF OneHopInv
<1>3. /\ Carries(net[<<s, n>>], "Gossip", m) /\ ~Carries(net'[<<s, n>>], "Gossip", m)
  BY <1>0, <1>1, <1>2, TailCarries, TailOnce DEF OneHopInv, CopiesInv
<1>4. <<s, n>> \in Overlay /\ s = author[m] /\ emitted[n][m] = 0
  BY <1>0, <1>2, <1>3 DEF OneHopInv, CopiesInv
<1>5. m \in Messages /\ NeighborMessages \subseteq Messages
  BY <1>0 DEF Messages
<1>6. /\ emitted'[n][m] = 1
      /\ \A x \in Nodes, k \in NeighborMessages :
           ~(x = n /\ k = m) => emitted'[x][k] = emitted[x][k]
  BY <1>0, <1>4, <1>5 DEF TypeInv, EmittedInv
<1>7. ASSUME NEW l \in Links, NEW k \in NeighborMessages, Carries(net'[l], "Gossip", k)
      PROVE  l \in Overlay /\ l[1] = author'[k] /\ emitted'[l[2]][k] = 0
  <2>1. l \in Overlay /\ l[1] = author[k] /\ emitted[l[2]][k] = 0
    BY <1>2, <1>7 DEF Thinner, OneHopInv, CopiesInv
  <2>2. ~(l[2] = n /\ k = m)
    <3>1. l = <<l[1], l[2]>>
      BY DEF Links
    <3> QED
      BY <1>3, <1>4, <1>7, <2>1, <3>1
  <2>3. l[2] \in Nodes
    BY DEF Links
  <2> QED
    BY <1>0, <1>6, <2>1, <2>2, <2>3
<1>8. CopiesInv'
  BY <1>2, <1>7 DEF CopiesInv, Thinner
<1>9. DirectInv'
  BY <1>0, <1>4, <1>6 DEF OneHopInv, DirectInv
<1> QED
  BY <1>8, <1>9 DEF OneHopInv

\* No step sends a copy on or brings it to a node twice.
LEMMA OneHopStep == TypeInv /\ NearInv /\ OneHopInv /\ [Next]_vars => OneHopInv'
<1> SUFFICES ASSUME TypeInv, NearInv, OneHopInv, [Next]_vars PROVE OneHopInv'
  OBVIOUS
<1>0. net \in Streams /\ Thinner(net)
  BY TypedStreams DEF OneHopInv, CopiesInv, Thinner
<1>1. ASSUME Thinner(net'), UNCHANGED <<author, emitted>> PROVE OneHopInv'
  BY <1>1, OneHopKept
<1>2. ASSUME NEW n \in Nodes, NEW out \in SwarmOut, net' = Transmit(net, n, out)
      PROVE  Thinner(net')
  BY <1>0, <1>2, TransmitThinner
<1>3. ASSUME NEW s \in Nodes, NEW n \in Nodes, NEW kind, Incoming(s, n, kind)
      PROVE  /\ net' = Taken(s, n) => Thinner(net')
             /\ \A out \in SwarmOut : net' = Transmit(Taken(s, n), n, out) => Thinner(net')
  <2>1. Thinner(Taken(s, n))
    BY <1>0, <1>3, TakenThinner DEF OneHopInv
  <2>2. \A out \in SwarmOut : Thinner(Transmit(Taken(s, n), n, out))
    BY <2>1, TransmitThinner
  <2> QED
    BY <2>1, <2>2
<1>4. CASE UNCHANGED <<net, author, emitted>>
  BY <1>0, <1>4 DEF OneHopInv, CopiesInv, DirectInv
<1>5. ASSUME NEW n \in Nodes, NEW m \in SwarmMessages, BroadcastSwarm(n, m)
      PROVE  OneHopInv'
  <2>1. Thinner(net')
    BY <1>2, <1>5, BroadcastSwarmSends
  <2>2. /\ \A k \in NeighborMessages : author'[k] = author[k]
        /\ emitted' = emitted
    BY <1>5, PlumtreeAssumption DEF BroadcastSwarm, TypeInv, CounterInv, Messages
  <2> QED
    BY <2>1, <2>2, OneHopKept
<1>6. ASSUME NEW s \in Nodes, NEW n \in Nodes, Receive(s, n) PROVE OneHopInv'
  <2>1. CASE OnGossipNeighbors(s, n)
    BY <2>1, OneHopArrives
  <2>2. CASE OnGossipSwarm(s, n)
    <3> DEFINE m == Head(net[<<s, n>>]).id
    <3>1. /\ Incoming(s, n, "Gossip") /\ m \in SwarmMessages
          /\ emitted' = [emitted EXCEPT ![n][m] = emitted[n][m] + 1] /\ author' = author
      BY <2>2 DEF OnGossipSwarm
    <3>2. Thinner(net')
      BY <1>3, <2>2, <3>1, SwarmSends
    <3> HIDE DEF m
    <3>3. \A x \in Nodes, k \in NeighborMessages : emitted'[x][k] = emitted[x][k]
      BY <3>1, PlumtreeAssumption DEF TypeInv, EmittedInv, Messages
    <3> QED
      BY <3>1, <3>2, <3>3, OneHopKept
  <2>3. CASE OnGossipEcho(s, n)
    <3>1. Thinner(net')
      BY <1>3, <2>3 DEF OnGossipEcho
    <3> QED
      BY <1>1, <2>3, <3>1 DEF OnGossipEcho
  <2>4. CASE OnGossipDuplicate(s, n)
    <3>1. Thinner(net')
      BY <1>3, <2>4, DuplicateSends DEF OnGossipDuplicate
    <3> QED
      BY <1>1, <2>4, <3>1 DEF OnGossipDuplicate
  <2>5. CASE OnPrune(s, n)
    <3>1. Thinner(net')
      BY <1>3, <2>5 DEF OnPrune
    <3> QED
      BY <1>1, <2>5, <3>1 DEF OnPrune
  <2>6. CASE OnIHave(s, n)
    <3>1. Thinner(net')
      BY <1>3, <2>6 DEF OnIHave
    <3> QED
      BY <1>1, <2>6, <3>1 DEF OnIHave
  <2>7. CASE OnGraft(s, n)
    <3>1. Thinner(net')
      BY <1>3, <2>7, GraftSends DEF OnGraft
    <3> QED
      BY <1>1, <2>7, <3>1 DEF OnGraft
  <2> QED
    BY <1>6, <2>1, <2>2, <2>3, <2>4, <2>5, <2>6, <2>7 DEF Receive
<1>7. ASSUME NEW n \in Nodes, Timer(n) PROVE OneHopInv'
  <2>1. CASE OnDispatchTimer(n)
    <3>1. Thinner(net')
      BY <1>2, <2>1, DispatchSends
    <3> QED
      BY <1>1, <2>1, <3>1 DEF OnDispatchTimer
  <2>2. ASSUME NEW m \in SwarmMessages, OnSendGraftTimer(n, m) PROVE OneHopInv'
    <3>1. net' = net \/ \E out \in SwarmOut : net' = Transmit(net, n, out)
      BY <2>2, SendGraftSends
    <3>2. Thinner(net') \/ net' = net
      BY <1>2, <3>1
    <3>3. UNCHANGED <<author, emitted>>
      BY <2>2 DEF OnSendGraftTimer
    <3> QED
      BY <1>1, <1>4, <3>2, <3>3
  <2> QED
    BY <1>7, <2>1, <2>2 DEF Timer
<1>8. ASSUME NEW n \in Nodes, NEW p \in Nodes, ConnectionCloses(n, p) PROVE OneHopInv'
  <2>1. /\ \A l \in Links : net'[l] = net[l] \/ net'[l] = <<>>
        /\ net' \in Streams
    <3>1. <<>> \in Seq(Packet)
      OBVIOUS
    <3> QED
      BY <1>0, <1>8, <3>1, Zenon DEF ConnectionCloses, Streams
  <2>2. Thinner(net')
    BY <1>0, <2>1, ShortStreams DEF Thinner
  <2> QED
    BY <1>1, <1>8, <2>2 DEF ConnectionCloses
<1>9. ASSUME NEW n \in Nodes, NEW p \in Nodes,
             OnNeighborUp(n, p) \/ OnNeighborDown(n, p) \/ OnEvictCacheTimer(n)
      PROVE  OneHopInv'
  BY <1>4, <1>9, Zenon DEF OnNeighborUp, OnNeighborDown, OnEvictCacheTimer
<1>10. CASE UNCHANGED vars
  BY <1>4, <1>10 DEF vars
<1> QED
  BY <1>5, <1>6, <1>7, <1>8, <1>9, <1>10, OneHopBroadcast DEF Next

\* A message with Scope::Neighbors reaches only nodes linked to its author, and
\* each of them once, although on_gossip remembers no id of it, for any overlay,
\* churn and eviction.
THEOREM NeighborsMessagesGoOneHop == Spec => []NeighborsScopeIsOneHop
<1>1. Init => OneHopInv
  <2> SUFFICES ASSUME Init PROVE OneHopInv
    OBVIOUS
  <2>1. \A l \in Links : net[l] = <<>>
    BY DEF Init
  <2>2. CopiesInv
    BY <2>1, ShortStreams DEF CopiesInv
  <2>3. DirectInv
    BY DEF Init, DirectInv, Messages
  <2> QED
    BY <2>2, <2>3 DEF OneHopInv
<1>2. OneHopInv => NeighborsScopeIsOneHop
  BY DEF OneHopInv, DirectInv, NeighborsScopeIsOneHop
<1> QED
  BY <1>1, <1>2, TypeInit, TypeStep, NearInit, NearStep, OneHopStep, PTL DEF Spec

-----------------------------------------------------------------------------
(* A stable overlay: nobody leaves and nothing is evicted. *)

Stable == MaxChurn = 0 /\ MaxEvictions = 0

\* Neighbours stay in the view and are eager or lazy; what was received is
\* held, and a payload was received by the node that sent it.
PeersKept == \A n \in Nodes : Near(n) \subseteq view[n] \cap (eager[n] \cup lazy[n])
PayloadsKept ==
  \A n \in Nodes, m \in SwarmMessages : m \in received[n] <=> cache[n][m] # NotCached
SendersHold ==
  \A l \in Links, m \in SwarmMessages :
    Carries(net[l], "Gossip", m) => m \in received[l[1]]
StableInv == PeersKept /\ PayloadsKept /\ SendersHold

\* What the node p still has to hear of m from n: n queued an announcement for
\* p, p recorded one from n, or something travels between them.
Queued(n, p, m) == \E i \in DOMAIN queue[n][p] : queue[n][p][i].id = m
Claimed(n, p, m) == \E c \in missing[p][m] : c.peer = n
OnTheWay(n, p, m) ==
  \/ Carries(net[<<n, p>>], "Gossip", m)
  \/ Carries(net[<<n, p>>], "IHave", m)
  \/ Carries(net[<<p, n>>], "Graft", m)
  \/ Queued(n, p, m)
  \/ Claimed(n, p, m)
WayInv ==
  \A n \in Nodes : \A p \in Near(n), m \in SwarmMessages :
    m \in received[n] \ received[p] => OnTheWay(n, p, m)

\* Over a stable overlay these steps do not happen.
LEMMA NoDisturbance ==
  ASSUME Stable, TypeInv, NearInv, StableInv, NEW n \in Nodes, NEW p \in Nodes
  PROVE  /\ ~OnNeighborUp(n, p) /\ ~OnNeighborDown(n, p)
         /\ ~ConnectionCloses(n, p) /\ ~OnEvictCacheTimer(n)
<1>1. churn \in Nat /\ ~(churn < MaxChurn) /\ evictions \in Nat /\ ~(evictions < MaxEvictions)
  BY DEF Stable, TypeInv, CounterInv
<1>2. ~OnNeighborUp(n, p)
  BY DEF OnNeighborUp, StableInv, PeersKept, Near
<1>3. ASSUME ConnectionCloses(n, p) PROVE FALSE
  <2>1. <<n, p>> \in Links /\ <<p, n>> \in Links
    BY <1>3 DEF ConnectionCloses, Links
  <2>2. <<n, p>> \in Overlay \/ <<p, n>> \in Overlay
    BY <1>3, <2>1 DEF ConnectionCloses, NearInv, NetNear
  <2>3. <<n, p>> \in Overlay
    BY <2>2, PlumtreeAssumption
  <2> QED
    BY <1>3, <2>3 DEF ConnectionCloses, StableInv, PeersKept, Near
<1> QED
  BY <1>1, <1>2, <1>3 DEF OnNeighborDown, OnEvictCacheTimer

\* Links of the overlay in both directions.
LEMMA NearLinks ==
  ASSUME NEW n \in Nodes, NEW p \in Near(n)
  PROVE  p \in Nodes /\ p # n /\ <<n, p>> \in Links /\ <<p, n>> \in Links /\ n \in Near(p)
<1>1. <<n, p>> \in Overlay /\ p \in Nodes
  BY DEF Near
<1>2. n # p /\ <<p, n>> \in Overlay
  BY <1>1, PlumtreeAssumption
<1> QED
  BY <1>1, <1>2 DEF Near, Links

\* What is sent joins what travels already.
LEMMA TransmitCarries ==
  ASSUME NEW w \in Streams, NEW n \in Nodes, NEW out \in SwarmOut, NEW l \in Links,
         NEW kind, NEW m
  PROVE  Carries(Transmit(w, n, out)[l], kind, m) <=>
           Carries(w[l], kind, m) \/ (l[1] = n /\ Carries(out[l[2]], kind, m))
<1>1. /\ w[l] \in Seq(Packet) /\ out[l[2]] \in Seq(Packet)
      /\ Transmit(w, n, out)[l] = IF l[1] = n THEN w[l] \o out[l[2]] ELSE w[l]
  BY SwarmOutIsTyped, TransmitIs
<1>2. CASE l[1] = n
  BY <1>1, <1>2, ConcatCarries
<1>3. CASE l[1] # n
  BY <1>1, <1>3
<1> QED
  BY <1>2, <1>3

\* A message that is taken is all that leaves the streams.
LEMMA TakenCarries ==
  ASSUME net \in Streams, NEW s \in Nodes, NEW n \in Nodes, NEW kd, Incoming(s, n, kd),
         NEW l \in Links, NEW kind, NEW m
  PROVE  Carries(net[l], kind, m) <=>
           \/ Carries(Taken(s, n)[l], kind, m)
           \/ l = <<s, n>> /\ Matches(Head(net[l]), kind, m)
<1>1. /\ net[<<s, n>>] \in Seq(Packet) /\ net[<<s, n>>] # <<>>
      /\ Taken(s, n)[<<s, n>>] = Tail(net[<<s, n>>])
      /\ l # <<s, n>> => Taken(s, n)[l] = net[l]
  BY TakenIs
<1>2. CASE l = <<s, n>>
  BY <1>1, <1>2, TailCarries
<1>3. CASE l # <<s, n>>
  BY <1>1, <1>3
<1> QED
  BY <1>2, <1>3

\* lazy_push adds the announcement for every lazy peer but the sender.
LEMMA LazyPushQueues ==
  ASSUME TypeInv, NEW n \in Nodes, NEW m, NEW round, NEW from, LazyPush(n, m, round, from)
  PROVE  /\ \A x, p \in Nodes : \A k : Queued(x, p, k) => Queued(x, p, k)'
         /\ \A p \in lazy[n] \ {from} : Queued(n, p, m)'
<1> DEFINE entry == [id |-> m, round |-> round]
<1>1. ASSUME NEW x \in Nodes, NEW p \in Nodes
      PROVE  /\ queue[x][p] \in Seq(Announcement)
             /\ queue'[x][p] = IF x = n /\ p \in lazy[n] \ {from}
                               THEN Append(queue[x][p], entry) ELSE queue[x][p]
  BY TypedStreams DEF LazyPush
<1> HIDE DEF entry
<1>2. ASSUME NEW q \in Seq(Announcement)
      PROVE  /\ DOMAIN q \subseteq DOMAIN Append(q, entry)
             /\ \A i \in DOMAIN q : Append(q, entry)[i] = q[i]
             /\ Len(q) + 1 \in DOMAIN Append(q, entry)
             /\ Append(q, entry)[Len(q) + 1] = entry
  OBVIOUS
<1>3. ASSUME NEW x \in Nodes, NEW p \in Nodes, NEW k, NEW i \in DOMAIN queue[x][p],
             queue[x][p][i].id = k
      PROVE  \E j \in DOMAIN queue'[x][p] : queue'[x][p][j].id = k
  <2>0. queue[x][p] \in Seq(Announcement)
    BY <1>1
  <2>1. CASE x = n /\ p \in lazy[n] \ {from}
    <3>1. queue'[x][p] = Append(queue[x][p], entry)
      BY <1>1, <2>1
    <3>2. i \in DOMAIN queue'[x][p] /\ queue'[x][p][i] = queue[x][p][i]
      BY <1>2, <2>0, <3>1
    <3> QED
      BY <1>3, <3>2
  <2>2. CASE ~(x = n /\ p \in lazy[n] \ {from})
    <3>1. queue'[x][p] = queue[x][p]
      BY <1>1, <2>2
    <3> QED
      BY <1>3, <3>1
  <2> QED
    BY <2>1, <2>2
<1>4. ASSUME NEW p \in lazy[n] \ {from}
      PROVE  \E i \in DOMAIN queue'[n][p] : queue'[n][p][i].id = m
  <2>0. p \in Nodes
    BY TypedStreams
  <2>a. queue[n][p] \in Seq(Announcement) /\ queue'[n][p] = Append(queue[n][p], entry)
    BY <1>1, <2>0
  <2>1. PICK i \in DOMAIN queue'[n][p] : queue'[n][p][i] = entry
    BY <1>2, <2>a
  <2>2. entry.id = m
    BY DEF entry
  <2> QED
    BY <2>1, <2>2
<1> QED
  BY <1>3, <1>4 DEF Queued

\* A peer that moves between the sets stays in one of them.
LEMMA PeersStayKept ==
  ASSUME TypeInv, StableInv, UNCHANGED view, NEW n \in Nodes, NEW p \in Nodes,
         AddEager(n, p) \/ AddLazy(n, p)
  PROVE  PeersKept'
<1>1. ASSUME NEW x \in Nodes
      PROVE  eager[x] \cup lazy[x] \subseteq eager'[x] \cup lazy'[x]
  BY DEF AddEager, AddLazy, TypeInv, PeerInv
<1> QED
  BY <1>1 DEF StableInv, PeersKept

\* A step that sends no payload.
LEMMA SendersStillHold ==
  ASSUME SendersHold,
         \A x \in Nodes : received[x] \subseteq received'[x],
         \A l \in Links, m \in SwarmMessages :
           Carries(net'[l], "Gossip", m) =>
             Carries(net[l], "Gossip", m) \/ m \in received'[l[1]]
  PROVE  SendersHold'
<1>1. \A l \in Links : l[1] \in Nodes
  BY DEF Links
<1> QED
  BY <1>1 DEF SendersHold

\* The streams lose nothing, or only the message s sent that n handles.
LosesNothing == \A l \in Links : \A kind, m :
  Carries(net[l], kind, m) => Carries(net'[l], kind, m)
LosesHead(s, n) == \A l \in Links : \A kind, m :
  Carries(net[l], kind, m) =>
    Carries(net'[l], kind, m) \/ (l = <<s, n>> /\ Matches(Head(net[l]), kind, m))

\* Sending loses nothing.
LEMMA SendingLosesNothing ==
  ASSUME net \in Streams, NEW n \in Nodes, NEW out \in SwarmOut, net' = Transmit(net, n, out)
  PROVE  LosesNothing
BY TransmitCarries DEF LosesNothing

\* Handling a message loses that message.
LEMMA ReceivingLosesHead ==
  ASSUME net \in Streams, NEW s \in Nodes, NEW n \in Nodes, NEW kd, Incoming(s, n, kd),
         \/ net' = Taken(s, n)
         \/ \E out \in SwarmOut : net' = Transmit(Taken(s, n), n, out)
  PROVE  LosesHead(s, n)
<1> SUFFICES ASSUME NEW l \in Links, NEW kind, NEW m, Carries(net[l], kind, m)
             PROVE  \/ Carries(net'[l], kind, m)
                    \/ l = <<s, n>> /\ Matches(Head(net[l]), kind, m)
  BY DEF LosesHead
<1>1. \/ Carries(Taken(s, n)[l], kind, m)
      \/ l = <<s, n>> /\ Matches(Head(net[l]), kind, m)
  BY TakenCarries
<1>2. CASE net' = Taken(s, n)
  BY <1>1, <1>2
<1>3. ASSUME NEW out \in SwarmOut, net' = Transmit(Taken(s, n), n, out)
      PROVE  Carries(Taken(s, n)[l], kind, m) => Carries(net'[l], kind, m)
  <2>1. Taken(s, n) \in Streams
    BY TakenIs
  <2> QED
    BY <1>3, <2>1, TransmitCarries
<1> QED
  BY <1>1, <1>2, <1>3

\* The payloads that appear on the streams when n handles a message from s.
LEMMA PayloadsSent ==
  ASSUME net \in Streams, NEW s \in Nodes, NEW n \in Nodes, NEW kd, Incoming(s, n, kd),
         NEW out \in SwarmOut, net' = Transmit(Taken(s, n), n, out),
         NEW l \in Links, NEW m, Carries(net'[l], "Gossip", m)
  PROVE  Carries(net[l], "Gossip", m) \/ (l[1] = n /\ Carries(out[l[2]], "Gossip", m))
<1>1. Taken(s, n) \in Streams
  BY TakenIs
<1>2. \/ Carries(Taken(s, n)[l], "Gossip", m)
      \/ l[1] = n /\ Carries(out[l[2]], "Gossip", m)
  BY <1>1, TransmitCarries
<1> QED
  BY <1>2, TakenCarries

\* Taking a message adds no payload.
LEMMA TakingAddsNothing ==
  ASSUME TypeInv, StableInv, NEW s \in Nodes, NEW n \in Nodes, NEW kd, Incoming(s, n, kd),
         net' = Taken(s, n), received' = received
  PROVE  SendersHold'
<1>1. net \in Streams
  BY TypedStreams
<1> QED
  BY <1>1, TakenCarries, SendersStillHold DEF StableInv
\* A handler keeps the neighbours, the payloads and what their senders hold.
LEMMA StableReceive ==
  ASSUME TypeInv, NearInv, StableInv, NEW s \in Nodes, NEW n \in Nodes, Receive(s, n)
  PROVE  StableInv'
<1>0. net \in Streams /\ SendersHold
  BY TypedStreams DEF StableInv
<1>1. ASSUME UNCHANGED <<received, cache>> PROVE PayloadsKept'
  BY <1>1 DEF StableInv, PayloadsKept
<1>2. ASSUME UNCHANGED <<eager, lazy, view>> PROVE PeersKept'
  BY <1>2 DEF StableInv, PeersKept
<1>3. CASE OnGossipEcho(s, n)
  <2>1. PeersKept' /\ PayloadsKept'
    BY <1>1, <1>2, <1>3 DEF OnGossipEcho
  <2>2. SendersHold'
    BY <1>3, TakingAddsNothing DEF OnGossipEcho
  <2> QED
    BY <2>1, <2>2 DEF StableInv
<1>4. CASE OnGossipDuplicate(s, n)
  <2>1. PICK out \in SwarmOut :
          /\ net' = Transmit(Taken(s, n), n, out)
          /\ \A p \in Nodes : \A k : ~Carries(out[p], "Gossip", k)
    BY <1>4, DuplicateSends
  <2>2. Incoming(s, n, "Gossip") /\ received' = received
    BY <1>4 DEF OnGossipDuplicate
  <2>3. \A l \in Links : l[2] \in Nodes
    BY DEF Links
  <2>4. \A l \in Links, m \in SwarmMessages :
          Carries(net'[l], "Gossip", m) => Carries(net[l], "Gossip", m)
    BY <1>0, <2>1, <2>2, <2>3, PayloadsSent
  <2>5. SendersHold'
    BY <1>0, <2>2, <2>4, SendersStillHold
  <2>6. PeersKept'
    BY <1>4, PeersStayKept DEF OnGossipDuplicate
  <2> QED
    BY <1>1, <1>4, <2>5, <2>6 DEF StableInv, OnGossipDuplicate
<1>5. CASE OnGossipSwarm(s, n)
  <2> DEFINE m == Head(net[<<s, n>>]).id
             round == Head(net[<<s, n>>]).scope + 1
             better == Promoted(missing[n][m], round)
             worse == IF better = {} THEN {} ELSE {s}
  <2>1. /\ Incoming(s, n, "Gossip") /\ m \in SwarmMessages /\ view' = view
        /\ received' = [received EXCEPT ![n] = @ \cup {m}]
        /\ cache' = [cache EXCEPT ![n][m] = round]
        /\ eager' = [eager EXCEPT ![n] = (@ \cup better) \ worse]
        /\ lazy' = [lazy EXCEPT ![n] = (@ \ better) \cup worse]
    BY <1>5 DEF OnGossipSwarm
  <2>2. round \in Nat
    <3>1. Head(net[<<s, n>>]) \in PacketOf(Known) /\ Head(net[<<s, n>>]).kind = "Gossip"
      BY <2>1, TakenType DEF TypeInv, NetInv
    <3>2. Head(net[<<s, n>>]).scope \in Nat
      BY <2>1, <3>1, PacketFields, PlumtreeAssumption
    <3> QED
      BY <3>2
  <2>3. PICK out \in SwarmOut :
          /\ net' = Transmit(Taken(s, n), n, out)
          /\ \A p \in Nodes, k \in SwarmMessages : Carries(out[p], "Gossip", k) => k = m
    BY <1>5, SwarmSends
  <2> HIDE DEF m, round, better, worse
  <2>4. PeersKept'
    <3>1. ASSUME NEW x \in Nodes
          PROVE  eager[x] \cup lazy[x] \subseteq eager'[x] \cup lazy'[x]
      BY <2>1 DEF TypeInv, PeerInv
    <3> QED
      BY <2>1, <3>1 DEF StableInv, PeersKept
  <2>5. PayloadsKept'
    <3> SUFFICES ASSUME NEW x \in Nodes, NEW k \in SwarmMessages
                 PROVE  k \in received'[x] <=> cache'[x][k] # NotCached
      BY DEF PayloadsKept
    <3>1. k \in received[x] <=> cache[x][k] # NotCached
      BY DEF StableInv, PayloadsKept
    <3>2. round # NotCached
      BY <2>2 DEF NotCached
    <3> QED
      BY <2>1, <3>1, <3>2 DEF TypeInv, LocalInv
  <2>6. SendersHold'
    <3>1. \A x \in Nodes : received[x] \subseteq received'[x]
      BY <2>1 DEF TypeInv, LocalInv
    <3>2. m \in received'[n]
      BY <2>1 DEF TypeInv, LocalInv
    <3>3. \A l \in Links : l[2] \in Nodes
      BY DEF Links
    <3>4. \A l \in Links, k \in SwarmMessages :
            Carries(net'[l], "Gossip", k) =>
              Carries(net[l], "Gossip", k) \/ k \in received'[l[1]]
      BY <1>0, <2>1, <2>3, <3>2, <3>3, PayloadsSent
    <3> QED
      BY <1>0, <3>1, <3>4, SendersStillHold
  <2> QED
    BY <2>4, <2>5, <2>6 DEF StableInv
<1>6. CASE OnGossipNeighbors(s, n)
  <2>1. PeersKept' /\ PayloadsKept'
    BY <1>1, <1>2, <1>6 DEF OnGossipNeighbors, protocolVars
  <2>2. SendersHold'
    BY <1>6, TakingAddsNothing DEF OnGossipNeighbors, protocolVars
  <2> QED
    BY <2>1, <2>2 DEF StableInv
<1>7. CASE OnPrune(s, n)
  <2>1. PeersKept'
    BY <1>7, PeersStayKept DEF OnPrune
  <2>2. SendersHold'
    BY <1>7, TakingAddsNothing DEF OnPrune
  <2> QED
    BY <1>1, <1>7, <2>1, <2>2 DEF StableInv, OnPrune
<1>8. CASE OnIHave(s, n)
  <2>1. PeersKept' /\ PayloadsKept'
    BY <1>1, <1>2, <1>8 DEF OnIHave
  <2>2. SendersHold'
    BY <1>8, TakingAddsNothing DEF OnIHave
  <2> QED
    BY <2>1, <2>2 DEF StableInv
<1>9. CASE OnGraft(s, n)
  <2>1. PICK out \in SwarmOut :
          /\ net' = Transmit(Taken(s, n), n, out) /\ SentNear(n, out)
          /\ \A m \in SwarmMessages :
               /\ Carries(out[s], "Gossip", m) => cache[n][m] # NotCached
               /\ Matches(Head(net[<<s, n>>]), "Graft", m) /\ cache[n][m] # NotCached
                    => Carries(out[s], "Gossip", m)
          /\ \A p \in Nodes \ {s}, m \in SwarmMessages : ~Carries(out[p], "Gossip", m)
    BY <1>9, GraftSends
  <2>2. Incoming(s, n, "Graft") /\ received' = received
    BY <1>9 DEF OnGraft
  <2>3. \A l \in Links : l[2] \in Nodes
    BY DEF Links
  <2>4. ASSUME NEW l \in Links, NEW m \in SwarmMessages, Carries(net'[l], "Gossip", m)
        PROVE  Carries(net[l], "Gossip", m) \/ m \in received'[l[1]]
    <3>1. \/ Carries(net[l], "Gossip", m)
          \/ l[1] = n /\ Carries(out[l[2]], "Gossip", m)
      BY <1>0, <2>1, <2>2, <2>4, PayloadsSent
    <3>2. ASSUME l[1] = n, Carries(out[l[2]], "Gossip", m) PROVE m \in received[n]
      <4>1. l[2] = s
        BY <2>1, <2>3, <3>2
      <4>2. cache[n][m] # NotCached
        BY <2>1, <3>2, <4>1
      <4> QED
        BY <4>2 DEF StableInv, PayloadsKept
    <3> QED
      BY <2>2, <3>1, <3>2
  <2>5. SendersHold'
    BY <1>0, <2>2, <2>4, SendersStillHold
  <2>6. PeersKept'
    BY <1>9, PeersStayKept DEF OnGraft
  <2> QED
    BY <1>1, <1>9, <2>5, <2>6 DEF StableInv, OnGraft
<1> QED
  BY <1>3, <1>4, <1>5, <1>6, <1>7, <1>8, <1>9 DEF Receive
\* broadcast, Scope::Neighbors, sends nothing the swarm keeps.
LEMMA DirectSends ==
  ASSUME net \in Streams, NEW n \in Nodes, NEW m \in NeighborMessages,
         net' = Transmit(net, n, EagerPush(n, m, DirectScope, n)), NEW l \in Links,
         NEW kind, NEW k
  PROVE  /\ Carries(net[l], kind, k) => Carries(net'[l], kind, k)
         /\ k \in SwarmMessages /\ Carries(net'[l], "Gossip", k) => Carries(net[l], "Gossip", k)
<1> DEFINE out == EagerPush(n, m, DirectScope, n)
           pkt == Gossip(m, DirectScope)
<1>1. \A p \in Nodes : out[p] \in {<<pkt>>, <<>>}
  BY DEF EagerPush
<1>2. pkt \in Packet
  BY DEF Gossip, Packet
<1>3. out \in [Nodes -> Seq(Packet)]
  <2>1. <<pkt>> \in Seq(Packet) /\ <<>> \in Seq(Packet)
    BY <1>2
  <2> QED
    BY <2>1 DEF EagerPush
<1> HIDE DEF out, pkt
<1>4. /\ net[l] \in Seq(Packet) /\ out[l[2]] \in Seq(Packet) /\ l[2] \in Nodes
      /\ net'[l] = IF l[1] = n THEN net[l] \o out[l[2]] ELSE net[l]
  BY <1>3, TransmitIs DEF out
<1>5. k \in SwarmMessages => ~Carries(out[l[2]], "Gossip", k)
  <2>1. k \in SwarmMessages => ~Matches(pkt, "Gossip", k)
    BY PlumtreeAssumption DEF pkt, Gossip, Matches
  <2> QED
    BY <1>1, <1>4, <2>1, ShortStreams
<1>6. CASE l[1] = n
  <2>1. net'[l] = net[l] \o out[l[2]]
    BY <1>4, <1>6
  <2> QED
    BY <1>4, <1>5, <2>1, ConcatCarries
<1>7. CASE l[1] # n
  BY <1>4, <1>7
<1> QED
  BY <1>6, <1>7

\* What a node sends of its own accord keeps them too.
LEMMA StableSend ==
  ASSUME TypeInv, NearInv, StableInv, NEW n \in Nodes,
         \/ \E m \in SwarmMessages : BroadcastSwarm(n, m)
         \/ \E m \in NeighborMessages : BroadcastNeighbors(n, m)
         \/ Timer(n)
  PROVE  StableInv'
<1>0. net \in Streams /\ SendersHold
  BY TypedStreams DEF StableInv
<1>1. \A l \in Links : l[2] \in Nodes
  BY DEF Links
<1>2. ASSUME UNCHANGED <<received, cache>> PROVE PayloadsKept'
  BY <1>2 DEF StableInv, PayloadsKept
<1>3. ASSUME UNCHANGED <<eager, lazy, view>> PROVE PeersKept'
  BY <1>3 DEF StableInv, PeersKept
<1>4. ASSUME NEW m \in SwarmMessages, BroadcastSwarm(n, m) PROVE StableInv'
  <2>1. PICK out \in SwarmOut :
          /\ net' = Transmit(net, n, out) /\ SentNear(n, out)
          /\ \A p \in eager[n] \ {n} : Carries(out[p], "Gossip", m)
          /\ \A p \in Nodes : \A k : Carries(out[p], "Gossip", k) => k = m
    BY <1>4, BroadcastSwarmSends
  <2>2. /\ received' = [received EXCEPT ![n] = @ \cup {m}]
        /\ cache' = [cache EXCEPT ![n][m] = 0]
        /\ UNCHANGED <<eager, lazy, view>>
    BY <1>4 DEF BroadcastSwarm
  <2>3. PayloadsKept'
    <3> SUFFICES ASSUME NEW x \in Nodes, NEW k \in SwarmMessages
                 PROVE  k \in received'[x] <=> cache'[x][k] # NotCached
      BY DEF PayloadsKept
    <3>1. k \in received[x] <=> cache[x][k] # NotCached
      BY DEF StableInv, PayloadsKept
    <3> QED
      BY <2>2, <3>1 DEF TypeInv, LocalInv, NotCached
  <2>4. SendersHold'
    <3>1. (\A x \in Nodes : received[x] \subseteq received'[x]) /\ m \in received'[n]
      BY <2>2 DEF TypeInv, LocalInv
    <3>2. \A l \in Links, k \in SwarmMessages :
            Carries(net'[l], "Gossip", k) =>
              Carries(net[l], "Gossip", k) \/ k \in received'[l[1]]
      BY <1>0, <1>1, <2>1, <3>1, TransmitCarries
    <3> QED
      BY <1>0, <3>1, <3>2, SendersStillHold
  <2> QED
    BY <1>3, <2>2, <2>3, <2>4 DEF StableInv
<1>5. ASSUME NEW m \in NeighborMessages, BroadcastNeighbors(n, m) PROVE StableInv'
  <2>1. /\ net' = Transmit(net, n, EagerPush(n, m, DirectScope, n))
        /\ UNCHANGED <<received, cache, eager, lazy, view>>
    BY <1>5 DEF BroadcastNeighbors, protocolVars
  <2>2. ASSUME NEW l \in Links, NEW k \in SwarmMessages, Carries(net'[l], "Gossip", k)
        PROVE  Carries(net[l], "Gossip", k)
    BY <1>0, <1>5, <2>1, <2>2, DirectSends
  <2>3. SendersHold'
    BY <1>0, <2>1, <2>2, SendersStillHold
  <2> QED
    BY <1>2, <1>3, <2>1, <2>3 DEF StableInv
<1>6. CASE OnDispatchTimer(n)
  <2>1. PICK out \in SwarmOut :
          /\ net' = Transmit(net, n, out)
          /\ \A p \in Nodes : \A k : ~Carries(out[p], "Gossip", k)
    BY <1>6, DispatchSends
  <2>2. UNCHANGED <<received, cache, eager, lazy, view>>
    BY <1>6 DEF OnDispatchTimer
  <2>3. \A l \in Links, k \in SwarmMessages :
          Carries(net'[l], "Gossip", k) => Carries(net[l], "Gossip", k)
    BY <1>0, <1>1, <2>1, TransmitCarries
  <2>4. SendersHold'
    BY <1>0, <2>2, <2>3, SendersStillHold
  <2> QED
    BY <1>2, <1>3, <2>2, <2>4 DEF StableInv
<1>7. ASSUME NEW m \in SwarmMessages, OnSendGraftTimer(n, m) PROVE StableInv'
  <2>1. UNCHANGED <<received, cache, view>>
    BY <1>7 DEF OnSendGraftTimer
  <2>2. CASE UNCHANGED <<eager, lazy, missing, net>>
    BY <1>2, <1>3, <2>1, <2>2 DEF StableInv, SendersHold
  <2>3. ASSUME NEW first \in missing[n][m], NEW out \in SwarmOut,
               net' = Transmit(net, n, out), first.peer \in Near(n),
               AddEager(n, first.peer),
               \A p \in Nodes : \A k : ~Carries(out[p], "Gossip", k)
        PROVE  StableInv'
    <3>1. \A l \in Links, k \in SwarmMessages :
            Carries(net'[l], "Gossip", k) => Carries(net[l], "Gossip", k)
      BY <1>0, <1>1, <2>3, TransmitCarries
    <3>2. SendersHold'
      BY <1>0, <2>1, <3>1, SendersStillHold
    <3>3. PeersKept'
      BY <2>1, <2>3, NearLinks, PeersStayKept
    <3> QED
      BY <1>2, <2>1, <3>2, <3>3 DEF StableInv
  <2> QED
    BY <1>7, <2>2, <2>3, SendGraftSends
<1> QED
  BY <1>4, <1>5, <1>6, <1>7 DEF Timer
\* What keeps a payload on its way, unless the message in hand was about it.
LEMMA WayStays ==
  ASSUME NEW s \in Nodes, NEW n \in Nodes, LosesHead(s, n),
         NEW x \in Nodes, NEW p \in Near(x), NEW k \in SwarmMessages, OnTheWay(x, p, k),
         Queued(x, p, k) => OnTheWay(x, p, k)',
         Claimed(x, p, k) => OnTheWay(x, p, k)'
  PROVE  \/ OnTheWay(x, p, k)'
         \/ x = s /\ p = n /\ Matches(Head(net[<<s, n>>]), "Gossip", k)
         \/ x = s /\ p = n /\ Matches(Head(net[<<s, n>>]), "IHave", k)
         \/ p = s /\ x = n /\ Matches(Head(net[<<s, n>>]), "Graft", k)
<1>1. <<x, p>> \in Links /\ <<p, x>> \in Links
  BY NearLinks
<1>2. /\ Carries(net'[<<x, p>>], "Gossip", k) => OnTheWay(x, p, k)'
      /\ Carries(net'[<<x, p>>], "IHave", k) => OnTheWay(x, p, k)'
      /\ Carries(net'[<<p, x>>], "Graft", k) => OnTheWay(x, p, k)'
  BY DEF OnTheWay
<1>3. CASE Carries(net[<<x, p>>], "Gossip", k)
  <2>1. \/ Carries(net'[<<x, p>>], "Gossip", k)
        \/ <<x, p>> = <<s, n>> /\ Matches(Head(net[<<x, p>>]), "Gossip", k)
    BY <1>1, <1>3 DEF LosesHead
  <2> QED
    BY <1>2, <2>1
<1>4. CASE Carries(net[<<x, p>>], "IHave", k)
  <2>1. \/ Carries(net'[<<x, p>>], "IHave", k)
        \/ <<x, p>> = <<s, n>> /\ Matches(Head(net[<<x, p>>]), "IHave", k)
    BY <1>1, <1>4 DEF LosesHead
  <2> QED
    BY <1>2, <2>1
<1>5. CASE Carries(net[<<p, x>>], "Graft", k)
  <2>1. \/ Carries(net'[<<p, x>>], "Graft", k)
        \/ <<p, x>> = <<s, n>> /\ Matches(Head(net[<<p, x>>]), "Graft", k)
    BY <1>1, <1>5 DEF LosesHead
  <2> QED
    BY <1>2, <2>1
<1> QED
  BY <1>3, <1>4, <1>5 DEF OnTheWay

\* A step that takes no message and only adds to the queues and the claims.
LEMMA WayGrows ==
  ASSUME LosesNothing, NEW x \in Nodes, NEW p \in Near(x), NEW k \in SwarmMessages,
         OnTheWay(x, p, k),
         Queued(x, p, k) => OnTheWay(x, p, k)',
         Claimed(x, p, k) => OnTheWay(x, p, k)'
  PROVE  OnTheWay(x, p, k)'
<1>1. <<x, p>> \in Links /\ <<p, x>> \in Links
  BY NearLinks
<1>2. /\ Carries(net[<<x, p>>], "Gossip", k) => Carries(net'[<<x, p>>], "Gossip", k)
      /\ Carries(net[<<x, p>>], "IHave", k) => Carries(net'[<<x, p>>], "IHave", k)
      /\ Carries(net[<<p, x>>], "Graft", k) => Carries(net'[<<p, x>>], "Graft", k)
  BY <1>1 DEF LosesNothing
<1> QED
  BY <1>2 DEF OnTheWay

\* A handler that receives nothing new keeps every payload on its way.
LEMMA WaySettled ==
  ASSUME WayInv, received' = received,
         \A x \in Nodes : \A p \in Near(x), k \in SwarmMessages :
           k \in received[x] \ received[p] /\ OnTheWay(x, p, k) => OnTheWay(x, p, k)'
  PROVE  WayInv'
BY DEF WayInv

\* on_gossip with a payload that was received before, or is for direct
\* neighbours, and on_prune: what is taken was not needed any more.
LEMMA WayIgnored ==
  ASSUME TypeInv, NearInv, StableInv, WayInv, NEW s \in Nodes, NEW n \in Nodes,
         \/ OnGossipEcho(s, n) \/ OnGossipDuplicate(s, n)
         \/ OnGossipNeighbors(s, n) \/ OnPrune(s, n)
  PROVE  WayInv'
<1>0. net \in Streams
  BY TypedStreams
<1>1. UNCHANGED <<received, queue, missing>>
  BY DEF OnGossipEcho, OnGossipDuplicate, OnGossipNeighbors, OnPrune, protocolVars
<1>2. LosesHead(s, n)
  <2>1. CASE OnGossipEcho(s, n)
    BY <1>0, <2>1, ReceivingLosesHead DEF OnGossipEcho
  <2>2. CASE OnGossipDuplicate(s, n)
    <3>1. Incoming(s, n, "Gossip")
      BY <2>2 DEF OnGossipDuplicate
    <3> QED
      BY <1>0, <2>2, <3>1, DuplicateSends, ReceivingLosesHead
  <2>3. CASE OnGossipNeighbors(s, n)
    BY <1>0, <2>3, ReceivingLosesHead DEF OnGossipNeighbors
  <2>4. CASE OnPrune(s, n)
    BY <1>0, <2>4, ReceivingLosesHead DEF OnPrune
  <2> QED
    BY <2>1, <2>2, <2>3, <2>4
<1>3. /\ Head(net[<<s, n>>]).kind \in {"Gossip", "Prune"}
      /\ Head(net[<<s, n>>]).kind = "Gossip" =>
           Head(net[<<s, n>>]).id \in received[n] \cup NeighborMessages
  BY DEF OnGossipEcho, OnGossipDuplicate, OnGossipNeighbors, OnPrune, Incoming
<1>4. ASSUME NEW x \in Nodes, NEW p \in Near(x), NEW k \in SwarmMessages,
             k \in received[x] \ received[p], OnTheWay(x, p, k)
      PROVE  OnTheWay(x, p, k)'
  <2>1. /\ Queued(x, p, k) => OnTheWay(x, p, k)'
        /\ Claimed(x, p, k) => OnTheWay(x, p, k)'
    BY <1>1 DEF Queued, Claimed, OnTheWay
  <2>2. /\ p = n => ~Matches(Head(net[<<s, n>>]), "Gossip", k)
        /\ ~Matches(Head(net[<<s, n>>]), "IHave", k)
        /\ ~Matches(Head(net[<<s, n>>]), "Graft", k)
    BY <1>3, <1>4, PlumtreeAssumption DEF Matches
  <2> QED
    BY <1>2, <1>4, <2>1, <2>2, WayStays
<1> QED
  BY <1>1, <1>4, WaySettled

\* on_ihave records every announced payload the node lacks.
LEMMA WayOnIHave ==
  ASSUME TypeInv, NearInv, StableInv, WayInv, NEW s \in Nodes, NEW n \in Nodes,
         OnIHave(s, n)
  PROVE  WayInv'
<1> DEFINE list == Head(net[<<s, n>>]).list
           lacked == {list[i].id : i \in DOMAIN list} \ received[n]
<1>0. net \in Streams /\ Incoming(s, n, "IHave") /\ net' = Taken(s, n)
  BY TypedStreams DEF OnIHave
<1>1. received' = received /\ queue' = queue
  BY DEF OnIHave
<1>2. PICK last \in LastArrival(n) :
        missing' = [missing EXCEPT ![n] =
          [m \in SwarmMessages |-> missing[n][m] \cup
             (IF m \in lacked THEN NewClaims(list, m, s, last) ELSE {})]]
  BY DEF OnIHave
<1>3. LosesHead(s, n)
  BY <1>0, ReceivingLosesHead
<1>4. ASSUME NEW p \in Nodes, NEW k \in SwarmMessages
      PROVE  /\ missing[p][k] \subseteq missing'[p][k]
             /\ p = n /\ k \in lacked => NewClaims(list, k, s, last) \subseteq missing'[p][k]
  <2> HIDE DEF list, lacked
  <2> QED
    BY <1>2 DEF TypeInv, LocalInv
<1>5. ASSUME NEW k \in SwarmMessages \ received[n],
             Matches(Head(net[<<s, n>>]), "IHave", k)
      PROVE  Claimed(s, n, k)'
  <2>1. PICK i \in DOMAIN list : list[i].id = k
    BY <1>5 DEF Matches
  <2>2. k \in lacked
    BY <2>1
  <2> DEFINE c == [at |-> last + i, peer |-> s, round |-> list[i].round]
  <2>3. c \in NewClaims(list, k, s, last)
    BY <2>1 DEF NewClaims
  <2>4. c.peer = s
    OBVIOUS
  <2>5. c \in missing'[n][k]
    BY <1>4, <2>2, <2>3
  <2> HIDE DEF c, list, lacked
  <2> QED
    BY <2>4, <2>5 DEF Claimed
<1>6. ASSUME NEW x \in Nodes, NEW p \in Near(x), NEW k \in SwarmMessages,
             k \in received[x] \ received[p], OnTheWay(x, p, k)
      PROVE  OnTheWay(x, p, k)'
  <2>0. p \in Nodes
    BY NearLinks
  <2>1. /\ Queued(x, p, k) => OnTheWay(x, p, k)'
        /\ Claimed(x, p, k) => OnTheWay(x, p, k)'
        /\ Claimed(x, p, k)' => OnTheWay(x, p, k)'
    BY <1>1, <1>4, <2>0 DEF Queued, Claimed, OnTheWay
  <2>2. /\ ~Matches(Head(net[<<s, n>>]), "Gossip", k)
        /\ ~Matches(Head(net[<<s, n>>]), "Graft", k)
    BY <1>0 DEF Matches, Incoming
  <2>3. p = n /\ x = s /\ Matches(Head(net[<<s, n>>]), "IHave", k) => Claimed(x, p, k)'
    BY <1>5, <1>6
  <2> QED
    BY <1>3, <1>6, <2>1, <2>2, <2>3, WayStays
<1> QED
  BY <1>1, <1>6, WaySettled
\* on_graft answers a request with the payload: over a stable overlay it is
\* still in the cache of whoever received it.
LEMMA WayOnGraft ==
  ASSUME TypeInv, NearInv, StableInv, WayInv, NEW s \in Nodes, NEW n \in Nodes,
         OnGraft(s, n)
  PROVE  WayInv'
<1>0. net \in Streams /\ Incoming(s, n, "Graft")
  BY TypedStreams DEF OnGraft
<1>1. UNCHANGED <<received, queue, missing>>
  BY DEF OnGraft
<1>2. PICK out \in SwarmOut :
        /\ net' = Transmit(Taken(s, n), n, out) /\ SentNear(n, out)
        /\ \A m \in SwarmMessages :
             /\ Carries(out[s], "Gossip", m) => cache[n][m] # NotCached
             /\ Matches(Head(net[<<s, n>>]), "Graft", m) /\ cache[n][m] # NotCached
                  => Carries(out[s], "Gossip", m)
        /\ \A p \in Nodes \ {s}, m \in SwarmMessages : ~Carries(out[p], "Gossip", m)
  BY GraftSends
<1>3. LosesHead(s, n)
  BY <1>0, <1>2, ReceivingLosesHead
<1>4. ASSUME NEW k \in SwarmMessages, k \in received[n],
             Matches(Head(net[<<s, n>>]), "Graft", k)
      PROVE  Carries(net'[<<n, s>>], "Gossip", k)
  <2>1. cache[n][k] # NotCached
    BY <1>4 DEF StableInv, PayloadsKept
  <2>2. Carries(out[s], "Gossip", k)
    BY <1>2, <1>4, <2>1
  <2>3. Taken(s, n) \in Streams /\ <<n, s>> \in Links
    BY <1>0, TakenIs DEF Links
  <2> QED
    BY <1>2, <2>2, <2>3, TransmitCarries
<1>5. ASSUME NEW x \in Nodes, NEW p \in Near(x), NEW k \in SwarmMessages,
             k \in received[x] \ received[p], OnTheWay(x, p, k)
      PROVE  OnTheWay(x, p, k)'
  <2>1. /\ Queued(x, p, k) => OnTheWay(x, p, k)'
        /\ Claimed(x, p, k) => OnTheWay(x, p, k)'
        /\ Carries(net'[<<x, p>>], "Gossip", k) => OnTheWay(x, p, k)'
    BY <1>1 DEF Queued, Claimed, OnTheWay
  <2>2. /\ ~Matches(Head(net[<<s, n>>]), "Gossip", k)
        /\ ~Matches(Head(net[<<s, n>>]), "IHave", k)
    BY <1>0 DEF Matches, Incoming
  <2>3. p = s /\ x = n /\ Matches(Head(net[<<s, n>>]), "Graft", k)
          => Carries(net'[<<x, p>>], "Gossip", k)
    BY <1>4, <1>5
  <2> QED
    BY <1>3, <1>5, <2>1, <2>2, <2>3, WayStays
<1> QED
  BY <1>1, <1>5, WaySettled

\* A payload that is new to n goes to every neighbour but the one it came from.
LEMMA WayOpens ==
  ASSUME StableInv, NEW n \in Nodes, NEW m \in SwarmMessages, NEW from,
         \A p \in lazy[n] \ {from} : Queued(n, p, m)',
         \A p \in eager[n] \ {n, from} : Carries(net'[<<n, p>>], "Gossip", m),
         NEW p \in Near(n), p # from
  PROVE  OnTheWay(n, p, m)'
<1>1. p # n /\ p \in eager[n] \cup lazy[n]
  BY NearLinks DEF StableInv, PeersKept
<1> QED
  BY <1>1 DEF OnTheWay

\* on_gossip with a new payload: the sender has it, the eager peers are sent
\* it, the lazy ones are told, and the claims that are dropped are its own.
LEMMA WayOnGossipSwarm ==
  ASSUME TypeInv, NearInv, StableInv, WayInv, NEW s \in Nodes, NEW n \in Nodes,
         OnGossipSwarm(s, n)
  PROVE  WayInv'
<1>0. net \in Streams
  BY TypedStreams
<1>a. PICK m, round : /\ m = Head(net[<<s, n>>]).id
                      /\ round = Head(net[<<s, n>>]).scope + 1
  OBVIOUS
<1>1. /\ Incoming(s, n, "Gossip") /\ m \in SwarmMessages
      /\ received' = [received EXCEPT ![n] = @ \cup {m}]
      /\ missing' = [missing EXCEPT ![n][m] = {}]
      /\ LazyPush(n, m, round, s)
  BY <1>a DEF OnGossipSwarm
<1>2. PICK out \in SwarmOut :
        /\ net' = Transmit(Taken(s, n), n, out) /\ SentNear(n, out)
        /\ \A p \in eager[n] \ {n, s} : Carries(out[p], "Gossip", m)
        /\ \A p \in Nodes, k \in SwarmMessages : Carries(out[p], "Gossip", k) => k = m
  BY <1>a, SwarmSends
<1>3. LosesHead(s, n)
  BY <1>0, <1>1, <1>2, ReceivingLosesHead
<1>4. m \in received[s]
  <2>1. Matches(Head(net[<<s, n>>]), "Gossip", m) /\ <<s, n>> \in Links
    BY <1>a, <1>1 DEF Matches, Incoming
  <2>2. Carries(net[<<s, n>>], "Gossip", m)
    BY <1>0, <1>1, <2>1, TakenCarries
  <2> QED
    BY <1>1, <2>1, <2>2 DEF StableInv, SendersHold
<1>5. \A k : Matches(Head(net[<<s, n>>]), "Gossip", k) => k = m
  BY <1>a DEF Matches
<1>6. \A k : /\ ~Matches(Head(net[<<s, n>>]), "IHave", k)
             /\ ~Matches(Head(net[<<s, n>>]), "Graft", k)
  BY <1>1 DEF Matches, Incoming
<1>7. /\ \A x, p \in Nodes : \A k : Queued(x, p, k) => Queued(x, p, k)'
      /\ \A p \in lazy[n] \ {s} : Queued(n, p, m)'
  BY <1>1, LazyPushQueues
<1>8. ASSUME NEW p \in eager[n] \ {n, s} PROVE Carries(net'[<<n, p>>], "Gossip", m)
  <2>1. Taken(s, n) \in Streams /\ <<n, p>> \in Links
    BY <1>0, <1>1, TakenIs, TypedStreams DEF Links
  <2> QED
    BY <1>2, <2>1, TransmitCarries
<1>9. /\ \A x \in Nodes : received[x] \subseteq received'[x]
      /\ m \in received'[n]
      /\ \A x \in Nodes : \A k \in received'[x] : k \in received[x] \/ (x = n /\ k = m)
  BY <1>1 DEF TypeInv, LocalInv
<1>10. \A p \in Nodes, k \in SwarmMessages :
         p # n \/ k # m => missing'[p][k] = missing[p][k]
  BY <1>1 DEF TypeInv, LocalInv
<1>11. ASSUME NEW x \in Nodes, NEW p \in Near(x), NEW k \in SwarmMessages,
              k \in received[x], k \notin received'[p]
       PROVE  OnTheWay(x, p, k)'
  <2>0. p \in Nodes
    BY NearLinks
  <2>1. k \notin received[p] /\ (p # n \/ k # m)
    BY <1>9, <1>11, <2>0
  <2>2. OnTheWay(x, p, k)
    BY <1>11, <2>1 DEF WayInv
  <2>3. Queued(x, p, k) => OnTheWay(x, p, k)'
    BY <1>7, <2>0 DEF OnTheWay
  <2>4. Claimed(x, p, k) => OnTheWay(x, p, k)'
    BY <1>10, <2>0, <2>1 DEF Claimed, OnTheWay
  <2> QED
    BY <1>3, <1>5, <1>6, <2>1, <2>2, <2>3, <2>4, WayStays
<1>12. ASSUME NEW p \in Near(n), m \notin received'[p]
       PROVE  OnTheWay(n, p, m)'
  <2>1. p # s
    BY <1>4, <1>9, <1>12
  <2> QED
    BY <1>1, <1>7, <1>8, <2>1, WayOpens
<1> QED
  BY <1>9, <1>11, <1>12 DEF WayInv

\* broadcast, Scope::Swarm.
LEMMA WayBroadcastSwarm ==
  ASSUME TypeInv, NearInv, StableInv, WayInv, NEW n \in Nodes, NEW m \in SwarmMessages,
         BroadcastSwarm(n, m)
  PROVE  WayInv'
<1>0. net \in Streams
  BY TypedStreams
<1>1. /\ received' = [received EXCEPT ![n] = @ \cup {m}] /\ missing' = missing
      /\ LazyPush(n, m, 0, n)
  BY DEF BroadcastSwarm
<1>2. PICK out \in SwarmOut :
        /\ net' = Transmit(net, n, out) /\ SentNear(n, out)
        /\ \A p \in eager[n] \ {n} : Carries(out[p], "Gossip", m)
        /\ \A p \in Nodes : \A k : Carries(out[p], "Gossip", k) => k = m
  BY BroadcastSwarmSends
<1>3. LosesNothing
  BY <1>0, <1>2, SendingLosesNothing
<1>4. /\ \A x, p \in Nodes : \A k : Queued(x, p, k) => Queued(x, p, k)'
      /\ \A p \in lazy[n] \ {n} : Queued(n, p, m)'
  BY <1>1, LazyPushQueues
<1>5. ASSUME NEW p \in eager[n] \ {n} PROVE Carries(net'[<<n, p>>], "Gossip", m)
  <2>1. <<n, p>> \in Links
    BY TypedStreams DEF Links
  <2> QED
    BY <1>0, <1>2, <2>1, TransmitCarries
<1>6. /\ \A x \in Nodes : received[x] \subseteq received'[x]
      /\ \A x \in Nodes : \A k \in received'[x] : k \in received[x] \/ (x = n /\ k = m)
  BY <1>1 DEF TypeInv, LocalInv
<1>7. ASSUME NEW x \in Nodes, NEW p \in Near(x), NEW k \in SwarmMessages,
             k \in received[x], k \notin received'[p]
      PROVE  OnTheWay(x, p, k)'
  <2>0. p \in Nodes
    BY NearLinks
  <2>1. OnTheWay(x, p, k)
    BY <1>6, <1>7, <2>0 DEF WayInv
  <2>2. /\ Queued(x, p, k) => OnTheWay(x, p, k)'
        /\ Claimed(x, p, k) => OnTheWay(x, p, k)'
    BY <1>1, <1>4, <2>0 DEF Claimed, OnTheWay
  <2> QED
    BY <1>3, <2>1, <2>2, WayGrows
<1>8. ASSUME NEW p \in Near(n) PROVE OnTheWay(n, p, m)'
  <2>1. p # n /\ \A q \in eager[n] \ {n, n} : Carries(net'[<<n, q>>], "Gossip", m)
    BY <1>5, NearLinks
  <2> QED
    BY <1>4, <2>1, WayOpens
<1> QED
  BY <1>6, <1>7, <1>8 DEF WayInv

\* What else a node does of its own accord: the dispatch timer turns what was
\* queued into an announcement, the graft timer turns a claim into a request.
LEMMA WayTimers ==
  ASSUME TypeInv, NearInv, StableInv, WayInv, NEW n \in Nodes,
         Timer(n) \/ \E m \in NeighborMessages : BroadcastNeighbors(n, m)
  PROVE  WayInv'
<1>0. net \in Streams
  BY TypedStreams
<1>1. ASSUME NEW m \in NeighborMessages, BroadcastNeighbors(n, m) PROVE WayInv'
  <2>1. /\ net' = Transmit(net, n, EagerPush(n, m, DirectScope, n))
        /\ UNCHANGED <<received, queue, missing>>
    BY <1>1 DEF BroadcastNeighbors, protocolVars
  <2>2. LosesNothing
    BY <1>0, <2>1, DirectSends DEF LosesNothing
  <2>3. ASSUME NEW x \in Nodes, NEW p \in Near(x), NEW k \in SwarmMessages,
               OnTheWay(x, p, k)
        PROVE  OnTheWay(x, p, k)'
    <3>1. /\ Queued(x, p, k) => OnTheWay(x, p, k)'
          /\ Claimed(x, p, k) => OnTheWay(x, p, k)'
      BY <2>1 DEF Queued, Claimed, OnTheWay
    <3> QED
      BY <2>2, <2>3, <3>1, WayGrows
  <2> QED
    BY <2>1, <2>3, WaySettled
<1>2. CASE OnDispatchTimer(n)
  <2>1. PICK out \in SwarmOut :
          /\ net' = Transmit(net, n, out) /\ SentNear(n, out)
          /\ \A p \in Nodes : \A m : Queued(n, p, m) => Carries(out[p], "IHave", m)
    BY <1>2, DispatchSends DEF Queued
  <2>2. /\ UNCHANGED <<received, missing>>
        /\ \A x \in Nodes \ {n} : queue'[x] = queue[x]
    BY <1>2 DEF OnDispatchTimer, TypeInv, QueueInv
  <2>3. LosesNothing
    BY <1>0, <2>1, SendingLosesNothing
  <2>4. ASSUME NEW x \in Nodes, NEW p \in Near(x), NEW k \in SwarmMessages,
               OnTheWay(x, p, k)
        PROVE  OnTheWay(x, p, k)'
    <3>1. p \in Nodes /\ <<x, p>> \in Links
      BY NearLinks
    <3>2. Claimed(x, p, k) => OnTheWay(x, p, k)'
      BY <2>2 DEF Claimed, OnTheWay
    <3>3. ASSUME Queued(x, p, k) PROVE OnTheWay(x, p, k)'
      <4>1. CASE x = n
        <5>1. Carries(out[p], "IHave", k)
          BY <2>1, <3>1, <3>3, <4>1
        <5>2. Carries(net'[<<x, p>>], "IHave", k)
          BY <1>0, <2>1, <3>1, <4>1, <5>1, TransmitCarries
        <5> QED
          BY <5>2 DEF OnTheWay
      <4>2. CASE x # n
        BY <2>2, <3>3, <4>2 DEF Queued, OnTheWay
      <4> QED
        BY <4>1, <4>2
    <3> QED
      BY <2>3, <2>4, <3>2, <3>3, WayGrows
  <2> QED
    BY <2>2, <2>4, WaySettled
<1>3. ASSUME NEW m \in SwarmMessages, OnSendGraftTimer(n, m) PROVE WayInv'
  <2>1. UNCHANGED <<received, queue>>
    BY <1>3 DEF OnSendGraftTimer
  <2>2. CASE UNCHANGED <<eager, lazy, missing, net>>
    BY <2>1, <2>2 DEF WayInv, OnTheWay, Queued, Claimed
  <2>3. ASSUME NEW first \in missing[n][m], NEW out \in SwarmOut,
               net' = Transmit(net, n, out), first.peer \in Near(n),
               missing' = [missing EXCEPT ![n][m] = @ \ {first}],
               Carries(out[first.peer], "Graft", m)
        PROVE  WayInv'
    <3>1. LosesNothing
      BY <1>0, <2>3, SendingLosesNothing
    <3>2. Carries(net'[<<n, first.peer>>], "Graft", m)
      <4>1. <<n, first.peer>> \in Links
        BY <2>3, NearLinks
      <4> QED
        BY <1>0, <2>3, <4>1, TransmitCarries
    <3>3. ASSUME NEW x \in Nodes, NEW p \in Near(x), NEW k \in SwarmMessages,
                 OnTheWay(x, p, k)
          PROVE  OnTheWay(x, p, k)'
      <4>0. p \in Nodes
        BY NearLinks
      <4>1. Queued(x, p, k) => OnTheWay(x, p, k)'
        BY <2>1 DEF Queued, OnTheWay
      <4>2. ASSUME NEW c \in missing[p][k], c.peer = x PROVE OnTheWay(x, p, k)'
        <5>1. CASE p = n /\ k = m /\ c = first
          BY <3>2, <4>2, <5>1 DEF OnTheWay
        <5>2. CASE ~(p = n /\ k = m /\ c = first)
          <6>1. c \in missing'[p][k]
            BY <2>3, <4>0, <4>2, <5>2 DEF TypeInv, LocalInv
          <6> QED
            BY <4>2, <6>1 DEF OnTheWay, Claimed
        <5> QED
          BY <5>1, <5>2
      <4> QED
        BY <3>1, <3>3, <4>1, <4>2, WayGrows DEF Claimed
    <3> QED
      BY <2>1, <3>3, WaySettled
  <2> QED
    BY <1>3, <2>2, <2>3, SendGraftSends
<1> QED
  BY <1>1, <1>2, <1>3 DEF Timer

\* Over a stable overlay every step keeps both.
LEMMA StableStep ==
  ASSUME Stable, TypeInv, NearInv, StableInv, WayInv, [Next]_vars
  PROVE  StableInv' /\ WayInv'
<1>1. ASSUME NEW n \in Nodes,
             \/ \E m \in SwarmMessages : BroadcastSwarm(n, m)
             \/ \E m \in NeighborMessages : BroadcastNeighbors(n, m)
             \/ Timer(n)
      PROVE  StableInv' /\ WayInv'
  BY <1>1, StableSend, WayBroadcastSwarm, WayTimers
<1>2. ASSUME NEW s \in Nodes, NEW n \in Nodes, Receive(s, n)
      PROVE  StableInv' /\ WayInv'
  BY <1>2, StableReceive, WayIgnored, WayOnIHave, WayOnGraft, WayOnGossipSwarm DEF Receive
<1>3. CASE UNCHANGED vars
  BY <1>3 DEF vars, protocolVars, StableInv, PeersKept, PayloadsKept, SendersHold,
     WayInv, OnTheWay, Queued, Claimed
<1> QED
  BY <1>1, <1>2, <1>3, NoDisturbance DEF Next

\* Before the first broadcast nobody holds anything.
LEMMA StableInit == Init => StableInv /\ WayInv
<1> SUFFICES ASSUME Init PROVE StableInv /\ WayInv
  OBVIOUS
<1>1. PeersKept
  BY DEF Init, PeersKept, Near
<1>2. PayloadsKept
  BY DEF Init, PayloadsKept
<1>3. SendersHold
  BY ShortStreams DEF Init, SendersHold
<1>4. WayInv
  BY DEF Init, WayInv
<1> QED
  BY <1>1, <1>2, <1>3, <1>4 DEF StableInv

\* Over a stable overlay, of any shape and size, no handler and no timer of
\* plumtree.rs forgets a payload a neighbour lacks: it travels, is announced,
\* is asked for, is queued or is recorded as missing, whatever the order of
\* duplicates, prunes, announcements, grafts and timers.
THEOREM PayloadsAreNotForgotten ==
  MaxChurn = 0 /\ MaxEvictions = 0 /\ Spec => []PayloadUnderWay
<1>1. WayInv => PayloadUnderWay
  <2> SUFFICES ASSUME WayInv, NEW l \in Overlay, NEW m \in SwarmMessages,
                      m \in received[l[1]] \ received[l[2]]
               PROVE  \/ Travels(l[1], l[2], "Gossip", m)
                      \/ Travels(l[1], l[2], "IHave", m)
                      \/ Travels(l[2], l[1], "Graft", m)
                      \/ \E i \in DOMAIN queue[l[1]][l[2]] : queue[l[1]][l[2]][i].id = m
                      \/ \E c \in missing[l[2]][m] : c.peer = l[1]
    BY DEF PayloadUnderWay
  <2>1. l[1] \in Nodes /\ l[2] \in Near(l[1])
    BY PlumtreeAssumption DEF Near
  <2>2. OnTheWay(l[1], l[2], m)
    BY <2>1 DEF WayInv
  <2> QED
    BY <2>2, Zenon DEF OnTheWay, Queued, Claimed, Carries, Matches, Travels
<1>2. CASE Stable
  <2>1. Init => StableInv /\ WayInv
    BY StableInit
  <2>2. TypeInv /\ NearInv /\ StableInv /\ WayInv /\ [Next]_vars => StableInv' /\ WayInv'
    BY <1>2, StableStep
  <2> QED
    BY <1>1, <2>1, <2>2, TypeInit, TypeStep, NearInit, NearStep, PTL DEF Spec
<1>3. CASE ~Stable
  BY <1>3 DEF Stable
<1> QED
  BY <1>2, <1>3

=============================================================================
