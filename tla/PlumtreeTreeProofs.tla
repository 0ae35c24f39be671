------------------------- MODULE PlumtreeTreeProofs -------------------------
(***************************************************************************)
(* Theorems about what the broadcasts of Plumtree achieve.  Over a stable  *)
(* and connected overlay of any size, a broadcast does not stop before     *)
(* everyone has it, the first one leaves a spanning tree of eager links,   *)
(* and so does any later one that runs alone over links whose ends agree.  *)
(* Through any churn and eviction, members get messages only the way       *)
(* Flooding allows.                                                        *)
(***************************************************************************)
EXTENDS PlumtreeStreamProofs, PlumtreeRepair, WellFoundedInduction

\* The overlay is not in two parts.
OverlayConnected ==
  \A part \in (SUBSET Nodes) \ {{}, Nodes} :
    \E l \in Overlay : l[1] \in part /\ l[2] \notin part

-----------------------------------------------------------------------------
(* No broadcast stops short. *)

\* The author of a message has it.
AuthorInv == \A m \in SwarmMessages : author[m] \in Nodes => m \in received[author[m]]

\* What was received is not forgotten.
LEMMA ReceivedGrows ==
  ASSUME Stable, TypeInv, NearInv, StableInv, [Next]_vars
  PROVE  \A n \in Nodes : received[n] \subseteq received'[n]
<1>1. CASE received' = received
  BY <1>1
<1>2. ASSUME NEW n \in Nodes, NEW m, received' = [received EXCEPT ![n] = @ \cup {m}]
      PROVE  \A x \in Nodes : received[x] \subseteq received'[x]
  BY <1>2 DEF TypeInv, LocalInv
<1>3. ASSUME NEW n \in Nodes, NEW m \in SwarmMessages, BroadcastSwarm(n, m)
      PROVE  \A x \in Nodes : received[x] \subseteq received'[x]
  BY <1>2, <1>3 DEF BroadcastSwarm
<1>4. ASSUME NEW s \in Nodes, NEW n \in Nodes, Receive(s, n)
      PROVE  \A x \in Nodes : received[x] \subseteq received'[x]
  <2>1. CASE OnGossipSwarm(s, n)
    BY <1>2, <2>1 DEF OnGossipSwarm
  <2>2. CASE ~OnGossipSwarm(s, n)
    <3>1. received' = received
      BY <1>4, <2>2 DEF Receive, OnGossipEcho, OnGossipDuplicate, OnGossipNeighbors,
         OnPrune, OnIHave, OnGraft, protocolVars
    <3> QED
      BY <1>1, <3>1
  <2> QED
    BY <2>1, <2>2
<1>5. ASSUME NEW n \in Nodes,
             Timer(n) \/ \E m \in NeighborMessages : BroadcastNeighbors(n, m)
      PROVE  received' = received
  BY <1>5 DEF Timer, OnDispatchTimer, OnSendGraftTimer, BroadcastNeighbors, protocolVars
<1>6. CASE UNCHANGED vars
  BY <1>6 DEF vars, protocolVars
<1> QED
  BY <1>1, <1>3, <1>4, <1>5, <1>6, NoDisturbance DEF Next

\* Only a broadcast makes an author, and it is remembered.
LEMMA AuthorStep ==
  ASSUME Stable, TypeInv, NearInv, StableInv, AuthorInv, [Next]_vars
  PROVE  AuthorInv'
<1>0. \A n \in Nodes : received[n] \subseteq received'[n]
  BY ReceivedGrows
<1>1. ASSUME \A m \in SwarmMessages : author'[m] = author[m] PROVE AuthorInv'
  BY <1>0, <1>1 DEF AuthorInv
<1>2. ASSUME NEW n \in Nodes, NEW m \in SwarmMessages, BroadcastSwarm(n, m)
      PROVE  AuthorInv'
  <2>1. /\ author' = [author EXCEPT ![m] = n]
        /\ received' = [received EXCEPT ![n] = @ \cup {m}]
    BY <1>2 DEF BroadcastSwarm
  <2>2. \A k \in SwarmMessages : k = m \/ author'[k] = author[k]
    BY <2>1 DEF TypeInv, CounterInv, Messages
  <2>3. author'[m] = n /\ m \in received'[n]
    BY <2>1 DEF TypeInv, CounterInv, LocalInv, Messages
  <2> QED
    BY <1>0, <2>2, <2>3 DEF AuthorInv
<1>3. ASSUME NEW n \in Nodes, NEW m \in NeighborMessages, BroadcastNeighbors(n, m)
      PROVE  AuthorInv'
  <2>1. \A k \in SwarmMessages : author'[k] = author[k]
    BY <1>3, PlumtreeAssumption DEF BroadcastNeighbors, TypeInv, CounterInv, Messages
  <2> QED
    BY <1>1, <2>1
<1>4. ASSUME NEW s \in Nodes, NEW n \in Nodes, Receive(s, n) \/ Timer(n)
      PROVE  AuthorInv'
  <2>1. author' = author
    BY <1>4 DEF Receive, OnGossipEcho, OnGossipDuplicate, OnGossipSwarm, OnGossipNeighbors,
       OnPrune, OnIHave, OnGraft, Timer, OnDispatchTimer, OnSendGraftTimer
  <2> QED
    BY <1>1, <2>1
<1>5. CASE UNCHANGED vars
  BY <1>5 DEF vars, protocolVars, AuthorInv
<1> QED
  BY <1>2, <1>3, <1>4, <1>5, NoDisturbance DEF Next

\* When nothing travels and no timer runs, nothing is on its way.
LEMMA QuietIsIdle ==
  ASSUME Quiet, DispatchInv, ChaseInv, NEW n \in Nodes, NEW p \in Near(n),
         NEW m \in SwarmMessages
  PROVE  ~OnTheWay(n, p, m)
<1>1. p \in Nodes /\ net[<<n, p>>] = <<>> /\ net[<<p, n>>] = <<>>
  BY NearLinks DEF Quiet
<1>2. queue[n][p] = <<>>
  BY <1>1 DEF Quiet, DispatchInv
<1>3. missing[p][m] = {}
  <2>1. graftTimers[p][m] = 0
    BY <1>1 DEF Quiet
  <2> QED
    BY <1>1, <2>1 DEF ChaseInv
<1>4. ~Queued(n, p, m) /\ ~Claimed(n, p, m)
  BY <1>2, <1>3 DEF Queued, Claimed
<1>5. /\ ~Carries(net[<<n, p>>], "Gossip", m) /\ ~Carries(net[<<n, p>>], "IHave", m)
      /\ ~Carries(net[<<p, n>>], "Graft", m)
  BY <1>1 DEF Carries
<1> QED
  BY <1>4, <1>5 DEF OnTheWay

\* A connected overlay has no part that lacks what the rest has.
LEMMA QuietSpreads ==
  ASSUME OverlayConnected, TypeInv, DispatchInv, ChaseInv, WayInv, AuthorInv
  PROVE  QuietMeansDelivered
<1> SUFFICES ASSUME Quiet, NEW m \in SwarmMessages, NEW x \in Nodes, author[m] # NoNode,
                    m \notin received[x]
             PROVE  FALSE
  BY DEF QuietMeansDelivered
<1> DEFINE part == {n \in Nodes : m \notin received[n]}
<1>1. author[m] \in Nodes /\ author[m] \notin part
  BY DEF TypeInv, CounterInv, Messages, AuthorInv
<1>2. part \in (SUBSET Nodes) \ {{}, Nodes}
  BY <1>1
<1>3. PICK l \in Overlay : l[1] \in part /\ l[2] \notin part
  BY <1>2 DEF OverlayConnected
<1>4. l[2] \in Nodes /\ l[1] \in Near(l[2]) /\ m \in received[l[2]] \ received[l[1]]
  BY <1>3, PlumtreeAssumption DEF Near
<1> QED
  BY <1>4, QuietIsIdle DEF WayInv

\* Over a stable and connected overlay of any size no broadcast stops short:
\* while a member lacks it, plumtree.rs has a message under way or a timer
\* running, whatever was pruned, announced or grafted so far.
THEOREM BroadcastsDoNotStopShort ==
  MaxChurn = 0 /\ MaxEvictions = 0 /\ OverlayConnected /\ Spec => []QuietMeansDelivered
<1>1. CASE Stable /\ OverlayConnected
  <2>1. Init => StableInv /\ WayInv /\ AuthorInv /\ DispatchInv /\ ChaseInv
    <3>1. Init => AuthorInv
      BY PlumtreeAssumption DEF Init, AuthorInv, Messages
    <3>2. Init => DispatchInv
      BY DispatchInit
    <3>3. Init => ChaseInv
      BY DEF Init, ChaseInv
    <3> QED
      BY <3>1, <3>2, <3>3, StableInit
  <2>2. TypeInv /\ NearInv /\ StableInv /\ WayInv /\ AuthorInv /\ [Next]_vars
          => StableInv' /\ WayInv' /\ AuthorInv'
    BY <1>1, StableStep, AuthorStep
  <2>3. TypeInv /\ DispatchInv /\ ChaseInv /\ WayInv /\ AuthorInv => QuietMeansDelivered
    BY <1>1, QuietSpreads
  <2> QED
    BY <2>1, <2>2, <2>3, TypeInit, TypeStep, NearInit, NearStep, DispatchStep, ChaseStep,
       PTL DEF Spec
<1>2. CASE ~(Stable /\ OverlayConnected)
  BY <1>2 DEF Stable
<1> QED
  BY <1>1, <1>2
-----------------------------------------------------------------------------
(* The first broadcast leaves a spanning tree. *)

\* The packets of a stream.
Packets(s) == {s[i] : i \in DOMAIN s}

\* Nothing but m has been broadcast to the swarm (m is NoMessage before the
\* first broadcast).
Only(m) == \A k \in SwarmMessages \ {m} : author[k] = NoNode

\* Until a second message is broadcast, a link is lazy, an announcement is
\* queued or travels and a Prune travels only between two nodes that have m;
\* nobody has recorded or asked for anything; and a payload travels at most
\* once on each link, with the round its sender got it in.
Reached(l, m) == m \in received[l[1]] /\ m \in received[l[2]]
LazyLate(m) == \A n \in Nodes : \A p \in lazy[n] : Reached(<<n, p>>, m)
QueueLate(m) == \A n, p \in Nodes : queue[n][p] # <<>> => Reached(<<n, p>>, m)
NoClaims == \A n \in Nodes, k \in SwarmMessages : missing[n][k] = {}
Fits(l, pkt, m) ==
  /\ pkt.kind # "Graft"
  /\ pkt.kind \in {"Prune", "IHave"} => Reached(l, m)
  /\ Matches(pkt, "Gossip", m) => pkt.scope = cache[l[1]][m]
NetLate(m) ==
  \A l \in Links : Once(net[l], m) /\ \A pkt \in Packets(net[l]) : Fits(l, pkt, m)

\* The parent of a node is the neighbour it got m from: nearer to the author,
\* and the link between them is eager and stays so, for nothing travels on it
\* that could turn it lazy.
Calm(pkt, m) == pkt.kind # "Prune" /\ ~Matches(pkt, "Gossip", m)
Still(l, m) == \A pkt \in Packets(net[l]) : Calm(pkt, m)
Parent(p, n, m) ==
  /\ m \in received[p] /\ cache[p][m] < cache[n][m]
  /\ EagerLink(n, p)
  /\ Still(<<p, n>>, m) /\ Still(<<n, p>>, m)
ParentInv(m) ==
  \A n \in Nodes :
    m \in received[n] /\ author[m] # n => \E p \in Near(n) : Parent(p, n, m)

TreeOf(m) == LazyLate(m) /\ QueueLate(m) /\ NoClaims /\ NetLate(m) /\ ParentInv(m)
TreeInv == \A m \in SwarmMessages \cup {NoMessage} : Only(m) => TreeOf(m)

\* The packets of streams that are joined or shortened.
LEMMA ConcatPackets ==
  ASSUME NEW s \in Seq(Packet), NEW t \in Seq(Packet)
  PROVE  Packets(s \o t) \subseteq Packets(s) \cup Packets(t)
<1> SUFFICES ASSUME NEW i \in DOMAIN (s \o t)
             PROVE  (s \o t)[i] \in Packets(s) \cup Packets(t)
  BY DEF Packets
<1>1. /\ Len(s) \in Nat /\ Len(t) \in Nat /\ i \in 1..(Len(s) + Len(t))
      /\ DOMAIN s = 1..Len(s) /\ DOMAIN t = 1..Len(t)
      /\ \A j \in 1..Len(s) : (s \o t)[j] = s[j]
      /\ \A j \in 1..Len(t) : (s \o t)[Len(s) + j] = t[j]
  OBVIOUS
<1>2. CASE i <= Len(s)
  BY <1>1, <1>2 DEF Packets
<1>3. CASE i > Len(s)
  <2>1. i - Len(s) \in 1..Len(t) /\ Len(s) + (i - Len(s)) = i
    BY <1>1, <1>3
  <2>2. (s \o t)[i] = t[i - Len(s)]
    BY <1>1, <2>1
  <2> QED
    BY <1>1, <2>1, <2>2 DEF Packets
<1> QED
  BY <1>1, <1>2, <1>3

LEMMA TailPackets ==
  ASSUME NEW s \in Seq(Packet), s # <<>>
  PROVE  Head(s) \in Packets(s) /\ Packets(Tail(s)) \subseteq Packets(s)
<1>1. /\ Len(s) \in Nat \ {0} /\ DOMAIN s = 1..Len(s) /\ DOMAIN Tail(s) = 1..(Len(s) - 1)
      /\ Head(s) = s[1]
      /\ \A i \in 1..(Len(s) - 1) : Tail(s)[i] = s[i + 1]
  OBVIOUS
<1>2. 1 \in DOMAIN s /\ \A i \in DOMAIN Tail(s) : i + 1 \in DOMAIN s
  BY <1>1
<1> QED
  BY <1>1, <1>2 DEF Packets

LEMMA ShortPackets ==
  ASSUME NEW pkt
  PROVE  Packets(<<>>) = {} /\ Packets(<<pkt>>) = {pkt}
BY DEF Packets

\* A stream carries what is among its packets.
LEMMA CarriesPackets ==
  ASSUME NEW s, NEW kind, NEW m
  PROVE  Carries(s, kind, m) <=> \E pkt \in Packets(s) : Matches(pkt, kind, m)
BY DEF Carries, Packets

\* What a node sends, and what is left when it takes a message.
LEMMA TransmitPackets ==
  ASSUME NEW w \in Streams, NEW n \in Nodes, NEW out \in [Nodes -> Seq(Packet)],
         NEW l \in Links
  PROVE  /\ Packets(Transmit(w, n, out)[l]) \subseteq
              Packets(w[l]) \cup (IF l[1] = n THEN Packets(out[l[2]]) ELSE {})
         /\ \A m : Once(w[l], m) /\ (l[1] = n => Once(out[l[2]], m)
                     /\ (~Carries(w[l], "Gossip", m) \/ ~Carries(out[l[2]], "Gossip", m)))
                   => Once(Transmit(w, n, out)[l], m)
<1>1. /\ w[l] \in Seq(Packet) /\ out[l[2]] \in Seq(Packet)
      /\ Transmit(w, n, out)[l] = IF l[1] = n THEN w[l] \o out[l[2]] ELSE w[l]
  BY TransmitIs
<1>2. CASE l[1] = n
  <2>1. Transmit(w, n, out)[l] = w[l] \o out[l[2]]
    BY <1>1, <1>2
  <2>2. Packets(w[l] \o out[l[2]]) \subseteq Packets(w[l]) \cup Packets(out[l[2]])
    BY <1>1, ConcatPackets
  <2> QED
    BY <1>1, <1>2, <2>1, <2>2, ConcatOnce
<1>3. CASE l[1] # n
  BY <1>1, <1>3
<1> QED
  BY <1>2, <1>3

LEMMA TakenPackets ==
  ASSUME net \in Streams, NEW s \in Nodes, NEW n \in Nodes, NEW kind,
         Incoming(s, n, kind)
  PROVE  /\ Head(net[<<s, n>>]) \in Packets(net[<<s, n>>])
         /\ Head(net[<<s, n>>]).kind = kind
         /\ \A l \in Links :
              /\ Packets(Taken(s, n)[l]) \subseteq Packets(net[l])
              /\ \A m : Once(net[l], m) => Once(Taken(s, n)[l], m)
         /\ \A m : Once(net[<<s, n>>], m) /\ Matches(Head(net[<<s, n>>]), "Gossip", m)
                     => ~Carries(Taken(s, n)[<<s, n>>], "Gossip", m)
<1>1. /\ net[<<s, n>>] \in Seq(Packet) /\ net[<<s, n>>] # <<>>
      /\ Taken(s, n)[<<s, n>>] = Tail(net[<<s, n>>])
      /\ \A l \in Links : l # <<s, n>> => Taken(s, n)[l] = net[l]
  BY TakenIs
<1>2. /\ Head(net[<<s, n>>]) \in Packets(net[<<s, n>>])
      /\ Packets(Tail(net[<<s, n>>])) \subseteq Packets(net[<<s, n>>])
  BY <1>1, TailPackets
<1>3. Head(net[<<s, n>>]).kind = kind
  BY DEF Incoming
<1>4. ASSUME NEW m, Once(net[<<s, n>>], m)
      PROVE  /\ Once(Taken(s, n)[<<s, n>>], m)
             /\ Matches(Head(net[<<s, n>>]), "Gossip", m)
                  => ~Carries(Taken(s, n)[<<s, n>>], "Gossip", m)
  BY <1>1, <1>4, TailOnce
<1>5. ASSUME NEW l \in Links
      PROVE  /\ Packets(Taken(s, n)[l]) \subseteq Packets(net[l])
             /\ \A m : Once(net[l], m) => Once(Taken(s, n)[l], m)
  <2>1. CASE l = <<s, n>>
    BY <1>1, <1>2, <1>4, <2>1
  <2>2. CASE l # <<s, n>>
    BY <1>1, <2>2
  <2> QED
    BY <2>1, <2>2
<1> QED
  BY <1>2, <1>3, <1>4, <1>5

\* While only m was broadcast, only m is known.
LEMMA OnlyKnown ==
  ASSUME TypeInv, NEW m \in SwarmMessages \cup {NoMessage}, Only(m)
  PROVE  /\ \A k \in SwarmMessages \cap Known : k = m
         /\ \A n \in Nodes : \A k \in received[n] : k = m /\ k \in SwarmMessages
         /\ \A l \in Links : \A pkt \in Packets(net[l]) :
              /\ pkt \in PacketOf(Known)
              /\ pkt.kind = "Gossip" /\ pkt.id \in SwarmMessages => pkt.id = m
<1>1. \A k \in SwarmMessages \cap Known : k = m
  BY DEF Only, Known
<1>2. \A n \in Nodes : received[n] \subseteq SwarmMessages \cap Known
  BY DEF TypeInv, LocalInv
<1>3. ASSUME NEW l \in Links, NEW pkt \in Packets(net[l])
      PROVE  pkt \in PacketOf(Known)
  <2>1. net[l] \in Seq(PacketOf(Known))
    BY DEF TypeInv, NetInv
  <2> QED
    BY <1>3, <2>1 DEF Packets
<1>4. ASSUME NEW l \in Links, NEW pkt \in Packets(net[l]), pkt.kind = "Gossip",
             pkt.id \in SwarmMessages
      PROVE  pkt.id = m
  <2>1. pkt.id \in SwarmMessages \cap Known
    BY <1>3, <1>4, PacketFields, PlumtreeAssumption
  <2> QED
    BY <1>1, <2>1
<1> QED
  BY <1>1, <1>2, <1>3, <1>4

\* What the streams gained fits, and nobody's round of m changed.
LEMMA NetLateKept ==
  ASSUME NEW m, NetLate(m),
         \A n \in Nodes : received[n] \subseteq received'[n],
         \A l \in Links : Carries(net[l], "Gossip", m) => cache'[l[1]][m] = cache[l[1]][m],
         \A l \in Links : Once(net'[l], m),
         \A l \in Links : \A pkt \in Packets(net'[l]) :
           pkt \in Packets(net[l]) \/ Fits(l, pkt, m)'
  PROVE  NetLate(m)'
<1> SUFFICES ASSUME NEW l \in Links, NEW pkt \in Packets(net'[l])
             PROVE  Fits(l, pkt, m)'
  BY DEF NetLate
<1>1. CASE pkt \in Packets(net[l])
  <2>1. Fits(l, pkt, m)
    BY <1>1 DEF NetLate
  <2>2. l[1] \in Nodes /\ l[2] \in Nodes
    BY DEF Links
  <2>3. Reached(l, m) => Reached(l, m)'
    BY <2>2 DEF Reached
  <2>4. Matches(pkt, "Gossip", m) => pkt.scope = cache'[l[1]][m]
    BY <1>1, <2>1, CarriesPackets DEF Fits
  <2> QED
    BY <2>1, <2>3, <2>4 DEF Fits
<1> QED
  BY <1>1

\* A node keeps its parent while the link stays eager and calm.
LEMMA ParentKept ==
  ASSUME NEW m, NEW n \in Nodes, NEW p \in Near(n), Parent(p, n, m),
         m \in received'[p], cache'[p][m] = cache[p][m], cache'[n][m] = cache[n][m],
         EagerLink(n, p)',
         \A l \in {<<p, n>>, <<n, p>>} : \A pkt \in Packets(net'[l]) :
           pkt \in Packets(net[l]) \/ Calm(pkt, m)
  PROVE  Parent(p, n, m)'
<1>1. Still(<<p, n>>, m)' /\ Still(<<n, p>>, m)'
  BY DEF Parent, Still
<1> QED
  BY <1>1 DEF Parent

\* Steps that receive nothing and leave the peers alone.
LEMMA TreeIdle ==
  ASSUME TypeInv, NEW m \in SwarmMessages \cup {NoMessage}, TreeOf(m),
         UNCHANGED <<eager, lazy, missing, received, cache>>,
         m \in Messages => author'[m] = author[m],
         QueueLate(m)',
         \A l \in Links : Once(net'[l], m),
         \A l \in Links : \A pkt \in Packets(net'[l]) :
           \/ pkt \in Packets(net[l])
           \/ pkt.kind # "Graft" /\ Calm(pkt, m) /\ (pkt.kind = "IHave" => Reached(l, m))
  PROVE  TreeOf(m)'
<1>1. LazyLate(m)' /\ NoClaims'
  BY DEF TreeOf, LazyLate, NoClaims, Reached
<1>2. NetLate(m)'
  <2>1. ASSUME NEW l \in Links, NEW pkt \in Packets(net'[l]), pkt \notin Packets(net[l])
        PROVE  Fits(l, pkt, m)'
    BY <2>1 DEF Fits, Calm, Reached
  <2> QED
    BY <2>1, NetLateKept DEF TreeOf
<1>3. ParentInv(m)'
  <2> SUFFICES ASSUME NEW n \in Nodes, m \in received[n], author'[m] # n
               PROVE  \E p \in Near(n) : Parent(p, n, m)'
    BY DEF ParentInv
  <2>1. m \in Messages
    BY DEF TypeInv, LocalInv, Messages
  <2>2. PICK p \in Near(n) : Parent(p, n, m)
    BY <2>1 DEF TreeOf, ParentInv
  <2>3. <<p, n>> \in Links /\ <<n, p>> \in Links
    BY NearLinks
  <2>4. EagerLink(n, p)' /\ m \in received'[p]
    BY <2>2 DEF Parent, EagerLink
  <2> QED
    BY <2>2, <2>3, <2>4, ParentKept
<1> QED
  BY <1>1, <1>2, <1>3 DEF TreeOf

\* A message that is taken with no further effect on the tree.
LEMMA TreeTaken ==
  ASSUME TypeInv, NEW m \in SwarmMessages \cup {NoMessage}, TreeOf(m),
         NEW s \in Nodes, NEW n \in Nodes, NEW kind, Incoming(s, n, kind),
         net' = Taken(s, n),
         UNCHANGED <<eager, lazy, queue, missing, received, cache, author>>
  PROVE  TreeOf(m)'
<1>1. net \in Streams
  BY TypedStreams
<1>2. \A l \in Links : Once(net'[l], m) /\ Packets(net'[l]) \subseteq Packets(net[l])
  BY <1>1, TakenPackets DEF TreeOf, NetLate
<1>3. QueueLate(m)'
  BY DEF TreeOf, QueueLate, Reached
<1> QED
  BY <1>2, <1>3, TreeIdle

\* on_ihave: whoever hears an announcement has the payload.
LEMMA TreeOnIHave ==
  ASSUME TypeInv, NEW m \in SwarmMessages \cup {NoMessage}, Only(m), TreeOf(m),
         NEW s \in Nodes, NEW n \in Nodes, OnIHave(s, n)
  PROVE  TreeOf(m)'
<1> DEFINE list == Head(net[<<s, n>>]).list
           lacked == {list[i].id : i \in DOMAIN list} \ received[n]
<1>1. Incoming(s, n, "IHave") /\ net \in Streams
  BY TypedStreams DEF OnIHave
<1>2. /\ <<s, n>> \in Links
      /\ Head(net[<<s, n>>]) \in Packets(net[<<s, n>>])
      /\ Head(net[<<s, n>>]).kind = "IHave"
  BY <1>1, TakenPackets, TakenIs
<1>3. m \in received[n]
  BY <1>2 DEF TreeOf, NetLate, Fits, Reached
<1>4. list \in Seq(AnnouncementOf(Known))
  BY <1>2, OnlyKnown, PacketFields
<1>5. \A i \in DOMAIN list : list[i].id = m
  <2>1. \A i \in DOMAIN list : list[i] \in AnnouncementOf(Known)
    BY <1>4
  <2> QED
    BY <2>1, OnlyKnown DEF AnnouncementOf
<1>6. lacked = {}
  BY <1>3, <1>5
<1> HIDE DEF list, lacked
<1>7. PICK last : missing' = [missing EXCEPT ![n] =
                 [k \in SwarmMessages |-> missing[n][k] \cup
                    (IF k \in lacked THEN NewClaims(list, k, s, last) ELSE {})]]
  BY DEF OnIHave, list, lacked
<1>8. missing' = missing
  <2>1. [k \in SwarmMessages |-> missing[n][k] \cup
           (IF k \in lacked THEN NewClaims(list, k, s, last) ELSE {})] = missing[n]
    <3>1. missing[n] \in [SwarmMessages -> SUBSET Claim]
      BY DEF TypeInv, LocalInv
    <3>2. \A k \in SwarmMessages : missing[n][k] \cup
            (IF k \in lacked THEN NewClaims(list, k, s, last) ELSE {}) = missing[n][k]
      BY <1>6
    <3> QED
      BY <3>1, <3>2
  <2> QED
    BY <1>7, <2>1 DEF TypeInv, LocalInv
<1>9. /\ net' = Taken(s, n)
      /\ UNCHANGED <<eager, lazy, queue, received, cache, author>>
  BY DEF OnIHave
<1> QED
  BY <1>1, <1>8, <1>9, TreeTaken

\* Streams after a node sent packets, if no second copy of m joins a first.
LEMMA StreamsSent ==
  ASSUME NEW w \in Streams, NEW n \in Nodes, NEW out \in [Nodes -> Seq(Packet)],
         NEW l \in Links, NEW m, Once(w[l], m), Once(out[l[2]], m),
         ~(l[1] = n /\ Carries(w[l], "Gossip", m) /\ Carries(out[l[2]], "Gossip", m))
  PROVE  /\ Once(Transmit(w, n, out)[l], m)
         /\ \A pkt \in Packets(Transmit(w, n, out)[l]) :
              pkt \in Packets(w[l]) \/ (l[1] = n /\ pkt \in Packets(out[l[2]]))
<1>1. Once(Transmit(w, n, out)[l], m)
  BY TransmitPackets
<1>2. Packets(Transmit(w, n, out)[l]) \subseteq
        Packets(w[l]) \cup (IF l[1] = n THEN Packets(out[l[2]]) ELSE {})
  BY TransmitPackets
<1> QED
  BY <1>1, <1>2

\* Nothing, or just this packet.
Posts(t, pkt) ==
  /\ t \in Seq(Packet)
  /\ \A m : Once(t, m)
  /\ \A x \in Packets(t) : x = pkt /\ t # <<>>

LEMMA OneOrNone ==
  ASSUME NEW pkt \in Packet
  PROVE  Posts(<<pkt>>, pkt) /\ Posts(<<>>, pkt)
<1>1. <<pkt>> \in Seq(Packet) /\ <<>> \in Seq(Packet) /\ <<pkt>> # <<>>
  OBVIOUS
<1>2. \A m : Once(<<pkt>>, m) /\ Once(<<>>, m)
  BY ShortStreams
<1>3. Packets(<<>>) = {} /\ Packets(<<pkt>>) = {pkt}
  BY ShortPackets
<1> QED
  BY <1>1, <1>2, <1>3, Zenon DEF Posts

\* A step that only sends, nothing of m and nothing that could turn a link lazy.
LEMMA TreeSent ==
  ASSUME TypeInv, NEW m \in SwarmMessages \cup {NoMessage}, TreeOf(m),
         NEW n \in Nodes, NEW out \in [Nodes -> Seq(Packet)], net' = Transmit(net, n, out),
         UNCHANGED <<eager, lazy, missing, received, cache>>,
         m \in Messages => author'[m] = author[m],
         QueueLate(m)',
         \A p \in Nodes : \A pkt \in Packets(out[p]) :
           pkt.kind # "Graft" /\ Calm(pkt, m) /\ (pkt.kind = "IHave" => Reached(<<n, p>>, m)),
         \A p \in Nodes : Once(out[p], m)
  PROVE  TreeOf(m)'
<1>1. ASSUME NEW l \in Links
      PROVE  /\ Once(net'[l], m)
             /\ \A pkt \in Packets(net'[l]) :
                  pkt \in Packets(net[l]) \/ (l[1] = n /\ pkt \in Packets(out[l[2]]))
  <2>1. net \in Streams /\ Once(net[l], m) /\ l[2] \in Nodes
    BY TypedStreams DEF TreeOf, NetLate, Links
  <2>2. ~Carries(out[l[2]], "Gossip", m)
    BY <2>1, CarriesPackets DEF Calm
  <2> QED
    BY <2>1, <2>2, StreamsSent
<1>2. ASSUME NEW l \in Links, NEW pkt \in Packets(net'[l]), pkt \notin Packets(net[l])
      PROVE  pkt.kind # "Graft" /\ Calm(pkt, m) /\ (pkt.kind = "IHave" => Reached(l, m))
  <2>1. l[1] = n /\ l[2] \in Nodes /\ pkt \in Packets(out[l[2]])
    BY <1>1, <1>2 DEF Links
  <2> QED
    BY <2>1 DEF Reached
<1> QED
  BY <1>1, <1>2, TreeIdle

\* broadcast, Scope::Neighbors.
LEMMA TreeBroadcastNeighbors ==
  ASSUME TypeInv, NEW m \in SwarmMessages \cup {NoMessage}, TreeOf(m),
         NEW n \in Nodes, NEW k \in NeighborMessages, BroadcastNeighbors(n, k)
  PROVE  TreeOf(m)'
<1> DEFINE pkt == Gossip(k, DirectScope)
<1>1. PICK out : /\ out = EagerPush(n, k, DirectScope, n) /\ net' = Transmit(net, n, out)
                 /\ author' = [author EXCEPT ![k] = n]
                 /\ UNCHANGED <<eager, lazy, queue, missing, received, cache>>
  BY DEF BroadcastNeighbors, protocolVars
<1>2. m # k
  BY PlumtreeAssumption DEF Messages
<1>3. pkt \in Packet /\ pkt.kind = "Gossip" /\ ~Matches(pkt, "Gossip", m)
  BY <1>2 DEF Gossip, Packet, Matches
<1>4. \A p \in Nodes : out[p] = <<pkt>> \/ out[p] = <<>>
  BY <1>1 DEF EagerPush
<1> HIDE DEF pkt
<1>5. \A p \in Nodes : Posts(out[p], pkt)
  BY <1>3, <1>4, OneOrNone, Zenon
<1>6. /\ out \in [Nodes -> Seq(Packet)]
      /\ \A p \in Nodes : (\A x \in Packets(out[p]) : x = pkt) /\ Once(out[p], m)
  BY <1>1, <1>5 DEF EagerPush, Posts
<1>7. QueueLate(m)'
  BY <1>1 DEF TreeOf, QueueLate, Reached
<1>8. m \in Messages => author'[m] = author[m]
  BY <1>1, <1>2 DEF TypeInv, CounterInv
<1>9. pkt.kind # "Graft" /\ Calm(pkt, m) /\ pkt.kind # "IHave"
  BY <1>3 DEF Calm
<1> QED
  BY <1>1, <1>6, <1>7, <1>8, <1>9, TreeSent

\* on_dispatch_timer announces m to nodes that have it.
LEMMA TreeOnDispatchTimer ==
  ASSUME TypeInv, NEW m \in SwarmMessages \cup {NoMessage}, TreeOf(m),
         NEW n \in Nodes, OnDispatchTimer(n)
  PROVE  TreeOf(m)'
<1>1. PICK out : /\ net' = Transmit(net, n, out)
                 /\ out = [p \in Nodes |-> IF queue[n][p] # <<>>
                             THEN <<IHave(queue[n][p])>> ELSE <<>>]
                 /\ queue' = [queue EXCEPT ![n] = [p \in Nodes |-> <<>>]]
                 /\ UNCHANGED <<eager, lazy, missing, received, cache, author>>
  BY DEF OnDispatchTimer
<1>2. ASSUME NEW p \in Nodes
      PROVE  /\ out[p] \in Seq(Packet)
             /\ \A x \in Packets(out[p]) : x.kind = "IHave" /\ queue[n][p] # <<>>
             /\ Once(out[p], m)
  <2>1. queue[n][p] \in Seq(Announcement)
    BY TypedStreams
  <2>2. PICK pkt \in Packet : pkt = IHave(queue[n][p]) /\ pkt.kind = "IHave"
    <3>1. IHave(queue[n][p]) \in Packet
      BY <2>1, SwarmPackets DEF SwarmPacket, Packet
    <3>2. IHave(queue[n][p]).kind = "IHave"
      BY DEF IHave
    <3> QED
      BY <3>1, <3>2
  <2>3. <<pkt>> \in Seq(Packet) /\ <<>> \in Seq(Packet)
    OBVIOUS
  <2>4. out[p] = IF queue[n][p] # <<>> THEN <<pkt>> ELSE <<>>
    BY <1>1, <2>2, Zenon
  <2>5. CASE queue[n][p] # <<>>
    <3>1. out[p] = <<pkt>>
      BY <2>4, <2>5
    <3> QED
      BY <2>2, <2>3, <2>5, <3>1, ShortStreams, ShortPackets
  <2>6. CASE queue[n][p] = <<>>
    <3>1. out[p] = <<>>
      BY <2>4, <2>6
    <3> QED
      BY <2>3, <3>1, ShortStreams, ShortPackets
  <2> QED
    BY <2>5, <2>6
<1>3. out \in [Nodes -> Seq(Packet)]
  BY <1>1, <1>2
<1>4. ASSUME NEW p \in Nodes, NEW x \in Packets(out[p])
      PROVE  x.kind # "Graft" /\ Calm(x, m) /\ Reached(<<n, p>>, m)
  BY <1>2, <1>4 DEF Calm, Matches, TreeOf, QueueLate
<1>5. QueueLate(m)'
  <2>1. \A x, p \in Nodes : queue'[x][p] # <<>> => queue[x][p] # <<>>
    BY <1>1 DEF TypeInv, QueueInv
  <2> QED
    BY <1>1, <2>1 DEF TreeOf, QueueLate, Reached
<1> QED
  BY <1>1, <1>2, <1>3, <1>4, <1>5, TreeSent

\* on_send_graft_timer finds nothing to ask for.
LEMMA TreeOnSendGraftTimer ==
  ASSUME TypeInv, NEW m \in SwarmMessages \cup {NoMessage}, TreeOf(m),
         NEW n \in Nodes, NEW k \in SwarmMessages, OnSendGraftTimer(n, k)
  PROVE  TreeOf(m)'
<1>1. missing[n][k] = {}
  BY DEF TreeOf, NoClaims
<1>2. UNCHANGED <<eager, lazy, queue, missing, received, cache, author, net>>
  BY <1>1 DEF OnSendGraftTimer
<1>3. QueueLate(m)' /\ \A l \in Links : Once(net'[l], m)
  BY <1>2 DEF TreeOf, QueueLate, NetLate, Reached
<1> QED
  BY <1>2, <1>3, TreeIdle
\* add_lazy on a link whose two ends have m, and over which something still
\* travelled that turns links lazy: it is nobody's link to a parent.
LEMMA TreeTurnsLazy ==
  ASSUME TypeInv, NEW m \in SwarmMessages \cup {NoMessage}, TreeOf(m),
         NEW s \in Nodes, NEW n \in Nodes, AddLazy(n, s),
         UNCHANGED <<queue, missing, received, cache, author>>,
         Reached(<<n, s>>, m), ~Still(<<s, n>>, m),
         \A l \in Links : Once(net'[l], m),
         \A l \in Links : \A pkt \in Packets(net'[l]) :
           pkt \in Packets(net[l]) \/ (l = <<n, s>> /\ pkt = Prune)
  PROVE  TreeOf(m)'
<1>1. /\ \A x \in Nodes : eager'[x] = IF x = n THEN eager[x] \ {s} ELSE eager[x]
      /\ \A x \in Nodes : lazy'[x] = IF x = n THEN lazy[x] \cup {s} ELSE lazy[x]
  BY DEF AddLazy, TypeInv, PeerInv
<1>2. LazyLate(m)'
  <2> SUFFICES ASSUME NEW x \in Nodes, NEW p \in lazy'[x] PROVE Reached(<<x, p>>, m)
    BY DEF LazyLate, Reached
  <2>1. p \in lazy[x] \/ (x = n /\ p = s)
    BY <1>1
  <2> QED
    BY <2>1 DEF TreeOf, LazyLate
<1>3. QueueLate(m)' /\ NoClaims'
  BY DEF TreeOf, QueueLate, NoClaims, Reached
<1>4. NetLate(m)'
  <2>1. ASSUME NEW l \in Links, NEW pkt \in Packets(net'[l]), pkt \notin Packets(net[l])
        PROVE  Fits(l, pkt, m)'
    <3>1. l = <<n, s>> /\ pkt.kind = "Prune"
      BY <2>1 DEF Prune
    <3> QED
      BY <3>1 DEF Fits, Reached, Matches
  <2> QED
    BY <2>1, NetLateKept DEF TreeOf
<1>5. ParentInv(m)'
  <2> SUFFICES ASSUME NEW x \in Nodes, m \in received[x], author[m] # x
               PROVE  \E p \in Near(x) : Parent(p, x, m)'
    BY DEF ParentInv
  <2>1. PICK p \in Near(x) : Parent(p, x, m)
    BY DEF TreeOf, ParentInv
  <2>2. p \in Nodes /\ <<p, x>> \in Links /\ <<x, p>> \in Links
    BY NearLinks
  <2>3. <<p, x>> # <<s, n>> /\ <<x, p>> # <<s, n>>
    BY <2>1 DEF Parent
  <2>4. EagerLink(x, p)'
    BY <1>1, <2>1, <2>2, <2>3 DEF Parent, EagerLink
  <2>5. \A l \in {<<p, x>>, <<x, p>>} : \A pkt \in Packets(net'[l]) : pkt \in Packets(net[l])
    BY <2>2, <2>3
  <2>6. m \in received'[p]
    BY <2>1 DEF Parent
  <2> QED
    BY <2>1, <2>4, <2>5, <2>6, ParentKept
<1> QED
  BY <1>2, <1>3, <1>4, <1>5 DEF TreeOf

\* on_prune.
LEMMA TreeOnPrune ==
  ASSUME TypeInv, NEW m \in SwarmMessages \cup {NoMessage}, TreeOf(m),
         NEW s \in Nodes, NEW n \in Nodes, OnPrune(s, n)
  PROVE  TreeOf(m)'
<1>1. /\ Incoming(s, n, "Prune") /\ net' = Taken(s, n) /\ net \in Streams /\ AddLazy(n, s)
      /\ UNCHANGED <<queue, missing, received, cache, author>>
  BY TypedStreams DEF OnPrune
<1>2. /\ <<s, n>> \in Links
      /\ Head(net[<<s, n>>]) \in Packets(net[<<s, n>>])
      /\ Head(net[<<s, n>>]).kind = "Prune"
  BY <1>1, TakenPackets, TakenIs
<1>3. Reached(<<n, s>>, m)
  BY <1>2 DEF TreeOf, NetLate, Fits, Reached
<1>4. ~Still(<<s, n>>, m)
  BY <1>2 DEF Still, Calm
<1>5. \A l \in Links : Once(net'[l], m) /\ Packets(net'[l]) \subseteq Packets(net[l])
  BY <1>1, TakenPackets DEF TreeOf, NetLate
<1> QED
  BY <1>1, <1>3, <1>4, <1>5, TreeTurnsLazy

\* on_gossip with a duplicate, which can only be m.
LEMMA TreeOnGossipDuplicate ==
  ASSUME TypeInv, StableInv, NEW m \in SwarmMessages \cup {NoMessage}, Only(m), TreeOf(m),
         NEW s \in Nodes, NEW n \in Nodes, OnGossipDuplicate(s, n)
  PROVE  TreeOf(m)'
<1>1. PICK out : /\ net' = Transmit(Taken(s, n), n, out)
                 /\ out = [p \in Nodes |-> IF p \in {s} THEN <<Prune>> ELSE <<>>]
  BY DEF OnGossipDuplicate
<1>2. /\ Incoming(s, n, "Gossip") /\ net \in Streams /\ AddLazy(n, s)
      /\ Head(net[<<s, n>>]).id \in received[n]
      /\ UNCHANGED <<queue, missing, received, cache, author>>
  BY TypedStreams DEF OnGossipDuplicate
<1>3. /\ <<s, n>> \in Links /\ Taken(s, n) \in Streams
      /\ Head(net[<<s, n>>]) \in Packets(net[<<s, n>>])
      /\ Head(net[<<s, n>>]).kind = "Gossip"
  BY <1>2, TakenPackets, TakenIs
<1>4. m \in received[n] /\ m \in SwarmMessages /\ Head(net[<<s, n>>]).id = m
  BY <1>2, OnlyKnown
<1>5. Matches(Head(net[<<s, n>>]), "Gossip", m)
  BY <1>3, <1>4 DEF Matches
<1>6. Reached(<<n, s>>, m)
  <2>1. Carries(net[<<s, n>>], "Gossip", m)
    BY <1>3, <1>5, CarriesPackets
  <2> QED
    BY <1>3, <1>4, <2>1 DEF StableInv, SendersHold, Reached
<1>7. ~Still(<<s, n>>, m)
  BY <1>3, <1>5 DEF Still, Calm
<1>8. Prune \in Packet
  BY SwarmPackets DEF SwarmPacket, Packet
<1>9. /\ out \in [Nodes -> Seq(Packet)]
      /\ \A p \in Nodes : /\ \A x \in Packets(out[p]) : x = Prune /\ p = s
                          /\ Once(out[p], m) /\ ~Carries(out[p], "Gossip", m)
  <2>1. \A p \in Nodes : (out[p] = <<Prune>> /\ p = s) \/ out[p] = <<>>
    BY <1>1
  <2>2. \A p \in Nodes : Posts(out[p], Prune)
    BY <1>8, <2>1, OneOrNone, Zenon
  <2>3. /\ out \in [Nodes -> Seq(Packet)]
        /\ \A p \in Nodes : Once(out[p], m) /\ \A x \in Packets(out[p]) : x = Prune /\ p = s
    BY <1>1, <2>1, <2>2 DEF Posts
  <2>4. ~Matches(Prune, "Gossip", m)
    BY DEF Matches, Prune
  <2>5. \A p \in Nodes : ~Carries(out[p], "Gossip", m)
    BY <2>3, <2>4, CarriesPackets
  <2> QED
    BY <2>3, <2>5
<1>10. ASSUME NEW l \in Links
       PROVE  /\ Once(net'[l], m)
              /\ \A pkt \in Packets(net'[l]) :
                   pkt \in Packets(net[l]) \/ (l = <<n, s>> /\ pkt = Prune)
  <2>1. l[2] \in Nodes /\ l = <<l[1], l[2]>>
    BY DEF Links
  <2>2. Once(Taken(s, n)[l], m) /\ Packets(Taken(s, n)[l]) \subseteq Packets(net[l])
    BY <1>2, TakenPackets DEF TreeOf, NetLate
  <2>3. /\ Once(net'[l], m)
        /\ \A pkt \in Packets(net'[l]) :
             pkt \in Packets(Taken(s, n)[l]) \/ (l[1] = n /\ pkt \in Packets(out[l[2]]))
    <3>1. Once(out[l[2]], m) /\ ~Carries(out[l[2]], "Gossip", m)
      BY <1>9, <2>1
    <3>2. /\ Once(Transmit(Taken(s, n), n, out)[l], m)
          /\ \A pkt \in Packets(Transmit(Taken(s, n), n, out)[l]) :
               pkt \in Packets(Taken(s, n)[l]) \/ (l[1] = n /\ pkt \in Packets(out[l[2]]))
      BY <1>3, <1>9, <2>2, <3>1, StreamsSent
    <3> QED
      BY <1>1, <3>2
  <2> QED
    BY <1>9, <2>1, <2>2, <2>3
<1> QED
  BY <1>2, <1>6, <1>7, <1>10, TreeTurnsLazy

\* lazy_push queues only for lazy peers.
LEMMA LazyPushLate ==
  ASSUME TypeInv, NEW m, TreeOf(m), NEW n \in Nodes, NEW k, NEW round, NEW from,
         LazyPush(n, k, round, from), \A x \in Nodes : received[x] \subseteq received'[x]
  PROVE  QueueLate(m)'
<1> SUFFICES ASSUME NEW x \in Nodes, NEW p \in Nodes, queue'[x][p] # <<>>
             PROVE  Reached(<<x, p>>, m)'
  BY DEF QueueLate
<1>1. queue[x][p] # <<>> \/ (x = n /\ p \in lazy[n])
  BY DEF LazyPush, TypeInv, QueueInv
<1>2. Reached(<<x, p>>, m)
  BY <1>1 DEF TreeOf, QueueLate, LazyLate
<1> QED
  BY <1>2 DEF Reached

\* eager_push, as the packets it sends.
Pushes(out, m, round, from) ==
  /\ out \in [Nodes -> Seq(Packet)]
  /\ \A p \in Nodes : /\ Once(out[p], m)
                      /\ \A x \in Packets(out[p]) :
                           x.kind = "Gossip" /\ x.id = m /\ x.scope = round
                      /\ p = from => Packets(out[p]) = {}

LEMMA PushSends ==
  ASSUME NEW n \in Nodes, NEW m \in SwarmMessages, NEW round \in Nat, NEW from
  PROVE  Pushes(EagerPush(n, m, round, from), m, round, from)
<1>0. PICK out : out = EagerPush(n, m, round, from)
  OBVIOUS
<1>1. PICK pkt : pkt = Gossip(m, round)
  OBVIOUS
<1>2. pkt \in Packet /\ pkt.kind = "Gossip" /\ pkt.id = m /\ pkt.scope = round
  BY <1>1 DEF Gossip, Packet
<1>3. \A p \in Nodes : (out[p] = <<pkt>> /\ p # from) \/ out[p] = <<>>
  BY <1>0, <1>1 DEF EagerPush
<1>4. \A p \in Nodes : Posts(out[p], pkt)
  BY <1>2, <1>3, OneOrNone, Zenon
<1>5. out \in [Nodes -> Seq(Packet)]
  BY <1>0, <1>4 DEF EagerPush, Posts
<1>6. Pushes(out, m, round, from)
  BY <1>2, <1>3, <1>4, <1>5 DEF Posts, Pushes
<1> QED
  BY <1>0, <1>6

\* on_gossip with a new payload while nothing was announced: optimize_tree has
\* nobody to promote.
LEMMA FirstSwarm ==
  ASSUME TypeInv, NoClaims, NEW s \in Nodes, NEW n \in Nodes, OnGossipSwarm(s, n),
         NEW m, m = Head(net[<<s, n>>]).id, NEW round, round = Head(net[<<s, n>>]).scope + 1
  PROVE  /\ UNCHANGED <<eager, lazy>>
         /\ NoClaims'
         /\ \E out : out = EagerPush(n, m, round, s) /\ net' = Transmit(Taken(s, n), n, out)
<1> DEFINE better == Promoted(missing[n][m], round)
           worse == IF better = {} THEN {} ELSE {s}
           push == EagerPush(n, m, round, s)
           graft == [p \in Nodes |-> IF p \in better \ eager[n]
                                     THEN <<Graft(NoMessage)>> ELSE <<>>]
           prune == [p \in Nodes |-> IF p \in worse THEN <<Prune>> ELSE <<>>]
<1>1. /\ m \in SwarmMessages /\ missing' = [missing EXCEPT ![n][m] = {}]
      /\ eager' = [eager EXCEPT ![n] = (@ \cup better) \ worse]
      /\ lazy' = [lazy EXCEPT ![n] = (@ \ better) \cup worse]
      /\ net' = Transmit(Taken(s, n), n, [p \in Nodes |-> push[p] \o graft[p] \o prune[p]])
  BY DEF OnGossipSwarm
<1>2. better = {} /\ worse = {}
  BY <1>1 DEF NoClaims, Promoted
<1>3. UNCHANGED <<eager, lazy>>
  BY <1>1, <1>2 DEF TypeInv, PeerInv
<1>4. NoClaims'
  BY <1>1 DEF NoClaims, TypeInv, LocalInv
<1>5. [p \in Nodes |-> push[p] \o graft[p] \o prune[p]] = push
  <2>1. ASSUME NEW p \in Nodes PROVE push[p] \o graft[p] \o prune[p] = push[p]
    <3>1. graft[p] = <<>> /\ prune[p] = <<>>
      BY <1>2
    <3>2. PICK pkt : push[p] = <<pkt>> \/ push[p] = <<>>
      BY DEF EagerPush
    <3> HIDE DEF push, graft, prune
    <3>3. push[p] \o <<>> = push[p]
      <4>1. <<pkt>> \o <<>> = <<pkt>> /\ <<>> \o <<>> = <<>>
        OBVIOUS
      <4> QED
        BY <3>2, <4>1
    <3> QED
      BY <3>1, <3>3
  <2>2. push = [p \in Nodes |-> push[p]]
    BY DEF EagerPush
  <2> HIDE DEF push, graft, prune
  <2> QED
    BY <2>1, <2>2, Zenon
<1> QED
  BY <1>1, <1>3, <1>4, <1>5

\* on_gossip with a new payload: the sender becomes the parent.
LEMMA TreeOnGossipSwarm ==
  ASSUME TypeInv, NearInv, StableInv, NEW m \in SwarmMessages \cup {NoMessage},
         Only(m), TreeOf(m), NEW s \in Nodes, NEW n \in Nodes, OnGossipSwarm(s, n)
  PROVE  TreeOf(m)'
<1>a. PICK k, round : /\ k = Head(net[<<s, n>>]).id
                      /\ round = Head(net[<<s, n>>]).scope + 1
  OBVIOUS
<1>1. /\ Incoming(s, n, "Gossip") /\ k \in SwarmMessages \ received[n] /\ net \in Streams
      /\ received' = [received EXCEPT ![n] = @ \cup {k}]
      /\ cache' = [cache EXCEPT ![n][k] = round]
      /\ LazyPush(n, k, round, s) /\ author' = author
  BY <1>a, TypedStreams DEF OnGossipSwarm
<1>2. /\ <<s, n>> \in Links /\ s # n /\ Taken(s, n) \in Streams
      /\ Head(net[<<s, n>>]) \in Packets(net[<<s, n>>])
      /\ Head(net[<<s, n>>]).kind = "Gossip"
  BY <1>1, TakenPackets, TakenIs
<1>3. k = m
  BY <1>a, <1>1, <1>2, OnlyKnown
<1>4. Matches(Head(net[<<s, n>>]), "Gossip", m)
  BY <1>a, <1>2, <1>3 DEF Matches
<1>5. round = cache[s][m] + 1 /\ round \in Nat /\ cache[s][m] \in Nat
  <2>1. Head(net[<<s, n>>]).scope = cache[s][m]
    BY <1>2, <1>4 DEF TreeOf, NetLate, Fits
  <2>2. Head(net[<<s, n>>]).scope \in Nat
    BY <1>a, <1>1, <1>2, OnlyKnown, PacketFields, PlumtreeAssumption
  <2> QED
    BY <1>a, <2>1, <2>2
<1>6. m \in received[s] /\ m \notin received[n] /\ m \in SwarmMessages
  <2>1. Carries(net[<<s, n>>], "Gossip", m)
    BY <1>2, <1>4, CarriesPackets
  <2> QED
    BY <1>1, <1>2, <1>3, <2>1 DEF StableInv, SendersHold
<1>7. PICK out : /\ out = EagerPush(n, m, round, s) /\ net' = Transmit(Taken(s, n), n, out)
                 /\ UNCHANGED <<eager, lazy>> /\ NoClaims'
  BY <1>a, <1>3, FirstSwarm DEF TreeOf
<1>8. /\ out \in [Nodes -> Seq(Packet)]
      /\ \A p \in Nodes : /\ Once(out[p], m)
                          /\ \A x \in Packets(out[p]) :
                               x.kind = "Gossip" /\ x.id = m /\ x.scope = round
                          /\ p = s => Packets(out[p]) = {}
  <2>1. Pushes(out, m, round, s)
    BY <1>5, <1>6, <1>7, PushSends
  <2> QED
    BY <2>1 DEF Pushes
<1>9. /\ \A x \in Nodes : received[x] \subseteq received'[x]
      /\ \A x \in Nodes \ {n} : received'[x] = received[x] /\ cache'[x] = cache[x]
      /\ cache'[n][m] = round
  BY <1>1, <1>3, <1>6 DEF TypeInv, LocalInv
<1>10. ASSUME NEW l \in Links, l[1] = n
       PROVE  ~Carries(net[l], "Gossip", m) /\ ~Reached(l, m)
  BY <1>6, <1>10 DEF StableInv, SendersHold, Reached
<1>11. ASSUME NEW l \in Links
       PROVE  /\ Once(net'[l], m)
              /\ \A pkt \in Packets(net'[l]) :
                   pkt \in Packets(Taken(s, n)[l]) \/ (l[1] = n /\ pkt \in Packets(out[l[2]]))
              /\ Packets(Taken(s, n)[l]) \subseteq Packets(net[l])
              /\ l[2] \in Nodes
  <2>1. Once(Taken(s, n)[l], m) /\ Packets(Taken(s, n)[l]) \subseteq Packets(net[l])
    BY <1>1, TakenPackets DEF TreeOf, NetLate
  <2>2. l[2] \in Nodes
    BY DEF Links
  <2>3. Once(out[l[2]], m) /\ ~(l[1] = n /\ Carries(Taken(s, n)[l], "Gossip", m))
    BY <1>8, <1>10, <2>1, <2>2, CarriesPackets
  <2>4. /\ Once(Transmit(Taken(s, n), n, out)[l], m)
        /\ \A pkt \in Packets(Transmit(Taken(s, n), n, out)[l]) :
             pkt \in Packets(Taken(s, n)[l]) \/ (l[1] = n /\ pkt \in Packets(out[l[2]]))
    <3>1. /\ Taken(s, n) \in Streams /\ out \in [Nodes -> Seq(Packet)]
          /\ ~(l[1] = n /\ Carries(Taken(s, n)[l], "Gossip", m)
                        /\ Carries(out[l[2]], "Gossip", m))
      BY <1>2, <1>8, <2>3
    <3> QED
      BY <2>1, <2>3, <3>1, StreamsSent
  <2> QED
    BY <1>7, <2>1, <2>2, <2>4
<1>12. LazyLate(m)'
  <2> SUFFICES ASSUME NEW x \in Nodes, NEW p \in lazy[x] PROVE Reached(<<x, p>>, m)'
    BY <1>7 DEF LazyLate
  <2>1. Reached(<<x, p>>, m) /\ p \in Nodes
    BY TypedStreams DEF TreeOf, LazyLate
  <2> QED
    BY <1>9, <2>1 DEF Reached
<1>13. QueueLate(m)'
  BY <1>1, <1>9, LazyPushLate
<1>14. NetLate(m)'
  <2>1. ASSUME NEW l \in Links, NEW pkt \in Packets(net'[l]), pkt \notin Packets(net[l])
        PROVE  Fits(l, pkt, m)'
    <3>1. l[1] = n /\ l[2] \in Nodes /\ pkt \in Packets(out[l[2]])
      BY <1>11, <2>1
    <3>2. pkt.kind = "Gossip" /\ pkt.scope = round
      BY <1>8, <3>1
    <3> QED
      BY <1>9, <3>1, <3>2 DEF Fits
  <2>2. \A l \in Links : Carries(net[l], "Gossip", m) => cache'[l[1]][m] = cache[l[1]][m]
    <3>1. \A l \in Links : l[1] \in Nodes
      BY DEF Links
    <3> QED
      BY <1>9, <1>10, <3>1
  <2>3. NetLate(m) /\ \A l \in Links : Once(net'[l], m)
    BY <1>11 DEF TreeOf
  <2> QED
    BY <1>9, <2>1, <2>2, <2>3, NetLateKept
<1>15. ASSUME NEW x \in Nodes \ {n}, m \in received[x], author[m] # x
       PROVE  \E p \in Near(x) : Parent(p, x, m)'
  <2>1. PICK p \in Near(x) : Parent(p, x, m)
    BY <1>15 DEF TreeOf, ParentInv
  <2>2. p \in Nodes \ {n} /\ <<p, x>> \in Links /\ <<x, p>> \in Links
    BY <1>6, <2>1, NearLinks DEF Parent
  <2>3. EagerLink(x, p)' /\ m \in received'[p] /\ cache'[p] = cache[p] /\ cache'[x] = cache[x]
    BY <1>7, <1>9, <2>1, <2>2 DEF Parent, EagerLink
  <2>4. \A l \in {<<p, x>>, <<x, p>>} : \A pkt \in Packets(net'[l]) : pkt \in Packets(net[l])
    BY <1>11, <2>2
  <2> QED
    BY <2>1, <2>3, <2>4, ParentKept
<1>16. s \in Near(n) /\ Parent(s, n, m)'
  <2>1. s \in Near(n) /\ n \in Near(s) /\ <<n, s>> \in Links
    BY <1>1, TakenNear, NearLinks DEF NearInv
  <2>2. ~Reached(<<s, n>>, m) /\ ~Reached(<<n, s>>, m)
    BY <1>6 DEF Reached
  <2>3. EagerLink(n, s)'
    <3>1. s \notin lazy[n] /\ n \notin lazy[s]
      BY <2>2 DEF TreeOf, LazyLate
    <3> QED
      BY <1>7, <2>1, <3>1 DEF StableInv, PeersKept, EagerLink
  <2>4. \A l \in {<<s, n>>, <<n, s>>} : \A pkt \in Packets(net[l]) : pkt.kind # "Prune"
    BY <1>2, <2>1, <2>2 DEF TreeOf, NetLate, Fits
  <2>5. Still(<<s, n>>, m)'
    <3>1. \A pkt \in Packets(net'[<<s, n>>]) : pkt \in Packets(Taken(s, n)[<<s, n>>])
                                             /\ pkt \in Packets(net[<<s, n>>])
      BY <1>2, <1>11
    <3>2. ~Carries(Taken(s, n)[<<s, n>>], "Gossip", m)
      BY <1>1, <1>2, <1>4, TakenPackets DEF TreeOf, NetLate
    <3> QED
      BY <2>4, <3>1, <3>2, CarriesPackets DEF Still, Calm
  <2>6. Still(<<n, s>>, m)'
    <3>1. \A pkt \in Packets(net'[<<n, s>>]) : pkt \in Packets(net[<<n, s>>])
      BY <1>8, <1>11, <2>1
    <3>2. ~Carries(net[<<n, s>>], "Gossip", m)
      BY <1>10, <2>1
    <3> QED
      BY <2>4, <3>1, <3>2, CarriesPackets DEF Still, Calm
  <2>7. m \in received'[s] /\ cache'[s][m] < cache'[n][m]
    BY <1>2, <1>5, <1>6, <1>9
  <2> QED
    BY <2>1, <2>3, <2>5, <2>6, <2>7 DEF Parent
<1>17. ParentInv(m)'
  BY <1>1, <1>9, <1>15, <1>16 DEF ParentInv
<1> QED
  BY <1>7, <1>12, <1>13, <1>14, <1>17 DEF TreeOf

\* broadcast, Scope::Swarm: nobody had m before its author does.
LEMMA TreeBroadcastSwarm ==
  ASSUME TypeInv, StableInv, NEW m \in SwarmMessages, Only(m), TreeOf(m),
         NEW n \in Nodes, BroadcastSwarm(n, m)
  PROVE  TreeOf(m)'
<1>1. PICK out : out = EagerPush(n, m, 0, n) /\ net' = Transmit(net, n, out)
  BY DEF BroadcastSwarm
<1>2. /\ author[m] = NoNode /\ author' = [author EXCEPT ![m] = n] /\ net \in Streams
      /\ received' = [received EXCEPT ![n] = @ \cup {m}]
      /\ cache' = [cache EXCEPT ![n][m] = 0]
      /\ LazyPush(n, m, 0, n) /\ UNCHANGED <<eager, lazy, missing>>
  BY TypedStreams DEF BroadcastSwarm
<1>3. \A x \in Nodes : m \notin received[x]
  BY <1>2 DEF TypeInv, LocalInv, Known
<1>4. \A l \in Links : ~Carries(net[l], "Gossip", m)
  <2>1. \A l \in Links : l[1] \in Nodes
    BY DEF Links
  <2> QED
    BY <1>3, <2>1 DEF StableInv, SendersHold
<1>5. /\ \A x \in Nodes : received[x] \subseteq received'[x]
      /\ \A x \in Nodes \ {n} : received'[x] = received[x]
      /\ cache'[n][m] = 0 /\ author'[m] = n
  BY <1>2 DEF TypeInv, LocalInv, CounterInv, Messages
<1>6. Pushes(out, m, 0, n)
  BY <1>1, PushSends
<1>7. ASSUME NEW l \in Links
      PROVE  /\ Once(net'[l], m)
             /\ \A pkt \in Packets(net'[l]) : pkt \in Packets(net[l]) \/ Fits(l, pkt, m)'
  <2>1. Once(net[l], m) /\ l[2] \in Nodes
    BY DEF TreeOf, NetLate, Links
  <2>2. out \in [Nodes -> Seq(Packet)] /\ Once(out[l[2]], m)
    BY <1>6, <2>1 DEF Pushes
  <2>3. /\ Once(Transmit(net, n, out)[l], m)
        /\ \A pkt \in Packets(Transmit(net, n, out)[l]) :
             pkt \in Packets(net[l]) \/ (l[1] = n /\ pkt \in Packets(out[l[2]]))
    BY <1>2, <1>4, <2>1, <2>2, StreamsSent
  <2>4. ASSUME NEW pkt \in Packets(out[l[2]]), l[1] = n
        PROVE  Fits(l, pkt, m)'
    <3>1. pkt.kind = "Gossip" /\ pkt.scope = 0
      BY <1>6, <2>1, <2>4 DEF Pushes
    <3> QED
      BY <1>5, <2>4, <3>1 DEF Fits
  <2> QED
    BY <1>1, <2>3, <2>4
<1>8. LazyLate(m)' /\ NoClaims'
  BY <1>2, <1>3 DEF TreeOf, LazyLate, NoClaims, Reached
<1>9. QueueLate(m)'
  BY <1>2, <1>5, LazyPushLate
<1>10. NetLate(m)'
  BY <1>4, <1>5, <1>7, NetLateKept DEF TreeOf
<1>11. ParentInv(m)'
  BY <1>3, <1>5 DEF ParentInv
<1> QED
  BY <1>8, <1>9, <1>10, <1>11 DEF TreeOf

\* Every step.
LEMMA TreeStep ==
  ASSUME Stable, TypeInv, NearInv, StableInv, TreeInv, [Next]_vars
  PROVE  TreeInv'
<1> SUFFICES ASSUME NEW m \in SwarmMessages \cup {NoMessage}, Only(m)'
             PROVE  TreeOf(m)'
  BY DEF TreeInv
<1>1. ASSUME NEW n \in Nodes, NEW k \in SwarmMessages, BroadcastSwarm(n, k)
      PROVE  TreeOf(m)'
  <2>1. author[k] = NoNode /\ author' = [author EXCEPT ![k] = n]
    BY <1>1 DEF BroadcastSwarm
  <2>2. author'[k] = n /\ \A x \in SwarmMessages \ {k} : author'[x] = author[x]
    BY <2>1 DEF TypeInv, CounterInv, Messages
  <2>3. k = m
    BY <2>2, PlumtreeAssumption DEF Only
  <2>4. Only(m)
    BY <2>2, <2>3 DEF Only
  <2> QED
    BY <1>1, <2>3, <2>4, TreeBroadcastSwarm DEF TreeInv
<1>2. CASE \A k \in SwarmMessages : author'[k] = author[k]
  <2>1. Only(m) /\ TreeOf(m)
    BY <1>2 DEF Only, TreeInv
  <2>2. ASSUME NEW n \in Nodes, NEW k \in NeighborMessages, BroadcastNeighbors(n, k)
        PROVE  TreeOf(m)'
    BY <2>1, <2>2, TreeBroadcastNeighbors
  <2>3. ASSUME NEW s \in Nodes, NEW n \in Nodes, Receive(s, n)
        PROVE  TreeOf(m)'
    <3>1. CASE OnGossipEcho(s, n) \/ OnGossipNeighbors(s, n)
      <4>1. /\ Incoming(s, n, "Gossip") /\ net' = Taken(s, n)
            /\ UNCHANGED <<eager, lazy, queue, missing, received, cache, author>>
        BY <3>1 DEF OnGossipEcho, OnGossipNeighbors, protocolVars
      <4> QED
        BY <2>1, <4>1, TreeTaken
    <3>2. CASE OnGraft(s, n)
      <4>1. Incoming(s, n, "Graft") /\ net \in Streams
        BY <3>2, TypedStreams DEF OnGraft
      <4>2. /\ <<s, n>> \in Links
            /\ Head(net[<<s, n>>]) \in Packets(net[<<s, n>>])
            /\ Head(net[<<s, n>>]).kind = "Graft"
        BY <4>1, TakenPackets, TakenIs
      <4> QED
        BY <2>1, <4>2 DEF TreeOf, NetLate, Fits
    <3>3. CASE OnGossipDuplicate(s, n)
      BY <2>1, <3>3, TreeOnGossipDuplicate
    <3>4. CASE OnGossipSwarm(s, n)
      BY <2>1, <3>4, TreeOnGossipSwarm
    <3>5. CASE OnPrune(s, n)
      BY <2>1, <3>5, TreeOnPrune
    <3>6. CASE OnIHave(s, n)
      BY <2>1, <3>6, TreeOnIHave
    <3> QED
      BY <2>3, <3>1, <3>2, <3>3, <3>4, <3>5, <3>6 DEF Receive
  <2>4. ASSUME NEW n \in Nodes, Timer(n)
        PROVE  TreeOf(m)'
    BY <2>1, <2>4, TreeOnDispatchTimer, TreeOnSendGraftTimer DEF Timer
  <2>5. CASE UNCHANGED vars
    <3>1. UNCHANGED <<eager, lazy, queue, missing, received, cache, author, net>>
      BY <2>5 DEF vars, protocolVars
    <3> QED
      BY <2>1, <3>1 DEF TreeOf, LazyLate, QueueLate, NoClaims, NetLate, ParentInv, Parent,
         Reached, Fits, Still, EagerLink
  <2> QED
    BY <1>1, <2>2, <2>3, <2>4, <2>5, NoDisturbance DEF Next
<1>3. ASSUME ~\E n \in Nodes, k \in SwarmMessages : BroadcastSwarm(n, k)
      PROVE  \A k \in SwarmMessages : author'[k] = author[k]
  <2>1. ASSUME NEW n \in Nodes, NEW k \in NeighborMessages, BroadcastNeighbors(n, k)
        PROVE  \A x \in SwarmMessages : author'[x] = author[x]
    BY <2>1, PlumtreeAssumption DEF BroadcastNeighbors, TypeInv, CounterInv, Messages
  <2>2. ASSUME NEW s \in Nodes, NEW n \in Nodes, Receive(s, n) \/ Timer(n)
        PROVE  author' = author
    BY <2>2 DEF Receive, OnGossipEcho, OnGossipDuplicate, OnGossipSwarm, OnGossipNeighbors,
       OnPrune, OnIHave, OnGraft, Timer, OnDispatchTimer, OnSendGraftTimer
  <2>3. CASE UNCHANGED vars
    BY <2>3 DEF vars
  <2> QED
    BY <1>3, <2>1, <2>2, <2>3, NoDisturbance DEF Next
<1> QED
  BY <1>1, <1>2, <1>3

LEMMA TreeInit == Init => TreeInv
<1> SUFFICES ASSUME Init, NEW m \in SwarmMessages \cup {NoMessage} PROVE TreeOf(m)
  BY DEF TreeInv
<1>1. /\ \A n \in Nodes : lazy[n] = {} /\ received[n] = {}
      /\ \A n, p \in Nodes : queue[n][p] = <<>>
      /\ \A n \in Nodes, k \in SwarmMessages : missing[n][k] = {}
      /\ \A l \in Links : net[l] = <<>>
  BY DEF Init
<1>2. \A l \in Links : Once(net[l], m) /\ Packets(net[l]) = {}
  BY <1>1, ShortStreams, ShortPackets
<1> QED
  BY <1>1, <1>2 DEF TreeOf, LazyLate, QueueLate, NoClaims, NetLate, ParentInv

\* A set of numbers has a least one.
LEMMA Least ==
  ASSUME NEW S \in SUBSET Nat, S # {}
  PROVE  \E r \in S : \A k \in S : ~(k < r)
<1>1. PICK R : R = {ss \in Nat \X Nat : ss[1] < ss[2]}
  OBVIOUS
<1>2. IsWellFoundedOn(R, Nat)
  BY <1>1, NatLessThanWellFounded DEF OpToRel
<1>3. PICK r \in S : \A k \in S : <<k, r>> \notin R
  BY <1>2, WFMin, Zenon
<1> QED
  BY <1>1, <1>3

\* A set of nodes that have m, not its author, has a member whose parent is
\* outside: the one nearest to the author.
LEMMA ParentOutside ==
  ASSUME TypeInv, StableInv, NEW m \in SwarmMessages, ParentInv(m),
         NEW side \in SUBSET Nodes, side # {}, author[m] \notin side,
         \A n \in side : m \in received[n]
  PROVE  \E n \in side : \E p \in Nodes \ side : EagerLink(n, p)
<1> DEFINE rounds == {cache[n][m] : n \in side}
<1>1. ASSUME NEW n \in side PROVE cache[n][m] \in Nat
  <2>1. cache[n][m] # NotCached
    BY DEF StableInv, PayloadsKept
  <2>2. cache[n][m] \in Nat \cup {NotCached}
    BY DEF TypeInv, LocalInv
  <2> QED
    BY <2>1, <2>2
<1>2. rounds \subseteq Nat /\ rounds # {}
  BY <1>1
<1>3. PICK r \in rounds : \A k \in rounds : ~(k < r)
  <2> HIDE DEF rounds
  <2> QED
    BY <1>2, Least
<1>4. PICK n \in side : r = cache[n][m]
  BY <1>3
<1>5. PICK p \in Near(n) : Parent(p, n, m)
  BY DEF ParentInv
<1>6. p \in Nodes /\ EagerLink(n, p) /\ cache[p][m] < cache[n][m]
  BY <1>5 DEF Near, Parent
<1> QED
  BY <1>3, <1>4, <1>6

\* Of the two sides of a cut the one without the author has a member whose
\* parent is on the other.
LEMMA ParentsSpan ==
  ASSUME TypeInv, StableInv, NEW m \in SwarmMessages, ParentInv(m),
         \A n \in Nodes : m \in received[n], NEW part \in (SUBSET Nodes) \ {{}, Nodes}
  PROVE  \E n \in part, p \in Nodes \ part : EagerLink(n, p)
<1>1. CASE author[m] \notin part
  BY <1>1, ParentOutside
<1>2. CASE author[m] \in part
  <2> DEFINE rest == Nodes \ part
  <2>1. rest \in SUBSET Nodes /\ rest # {} /\ author[m] \notin rest
    BY <1>2
  <2>2. PICK n \in rest : \E p \in Nodes \ rest : EagerLink(n, p)
    <3> HIDE DEF rest
    <3> QED
      BY <2>1, ParentOutside
  <2>3. PICK p \in Nodes \ rest : EagerLink(n, p)
    BY <2>2
  <2> QED
    BY <2>3 DEF EagerLink
<1> QED
  BY <1>1, <1>2

\* The parents connect every cut; before the first broadcast all links are eager.
LEMMA TreeSpans ==
  ASSUME TypeInv, StableInv, TreeInv, QuietMeansDelivered, OverlayConnected
  PROVE  FirstBroadcastSpans
<1> SUFFICES ASSUME Quiet, NEW part \in (SUBSET Nodes) \ {{}, Nodes},
                    \A m, k \in SwarmMessages :
                      author[m] # NoNode /\ author[k] # NoNode => m = k
             PROVE  \E n \in part, p \in Nodes \ part : EagerLink(n, p)
  BY DEF FirstBroadcastSpans, EagerTreeSpans
<1>1. CASE \E m \in SwarmMessages : author[m] # NoNode
  <2>1. PICK m \in SwarmMessages : author[m] # NoNode
    BY <1>1
  <2>2. Only(m)
    BY <2>1 DEF Only
  <2>3. ParentInv(m) /\ \A n \in Nodes : m \in received[n]
    BY <2>1, <2>2 DEF TreeInv, TreeOf, QuietMeansDelivered
  <2> QED
    BY <2>3, ParentsSpan
<1>2. CASE \A m \in SwarmMessages : author[m] = NoNode
  <2>1. TreeOf(NoMessage)
    BY <1>2 DEF Only, TreeInv
  <2>2. \A n \in Nodes : NoMessage \notin received[n]
    BY PlumtreeAssumption DEF TypeInv, LocalInv, Messages
  <2>3. \A n \in Nodes : lazy[n] = {}
    BY <2>1, <2>2 DEF TreeOf, LazyLate, Reached
  <2>4. PICK l \in Overlay : l[1] \in part /\ l[2] \notin part
    BY DEF OverlayConnected
  <2>5. l[1] \in Nodes /\ l[2] \in Near(l[1])
    BY PlumtreeAssumption DEF Near
  <2>6. l[2] \in Nodes /\ l[1] \in Near(l[2])
    BY <2>5, NearLinks
  <2> QED
    BY <2>3, <2>4, <2>5, <2>6 DEF StableInv, PeersKept, EagerLink
<1> QED
  BY <1>1, <1>2

\* Over a stable and connected overlay of any size, the eager links that are
\* left once the first broadcast has settled still connect everyone: on_gossip
\* prunes, and on_prune turns lazy, only links that are no parent's.
THEOREM FirstBroadcastLeavesTree ==
  MaxChurn = 0 /\ MaxEvictions = 0 /\ OverlayConnected /\ Spec => []FirstBroadcastSpans
<1>1. CASE Stable /\ OverlayConnected
  <2>1. TypeInv /\ NearInv /\ StableInv /\ WayInv /\ TreeInv /\ [Next]_vars
          => StableInv' /\ WayInv' /\ TreeInv'
    BY <1>1, StableStep, TreeStep
  <2>2. TypeInv /\ StableInv /\ TreeInv /\ QuietMeansDelivered => FirstBroadcastSpans
    BY <1>1, TreeSpans
  <2>3. MaxChurn = 0 /\ MaxEvictions = 0 /\ OverlayConnected
    BY <1>1 DEF Stable
  <2> QED
    BY <2>1, <2>2, <2>3, BroadcastsDoNotStopShort, TreeInit, StableInit, TypeInit, TypeStep,
       NearInit, NearStep, PTL DEF Spec
<1>2. CASE ~(Stable /\ OverlayConnected)
  BY <1>2 DEF Stable
<1> QED
  BY <1>1, <1>2

-----------------------------------------------------------------------------
(* A broadcast that runs alone repairs the tree. *)

\* Nothing is spoken of but Lone: no packet, queued announcement or claim is
\* about another message.
About(pkt) ==
  /\ pkt.kind = "Gossip" => pkt.id = Lone
  /\ pkt.kind = "Graft" => pkt.id \in {Lone, NoMessage}
  /\ pkt.kind = "IHave" => \A i \in DOMAIN pkt.list : pkt.list[i].id = Lone
LoneTalk ==
  /\ \A l \in Links : \A pkt \in Packets(net[l]) : About(pkt)
  /\ \A n, p \in Nodes : \A i \in DOMAIN queue[n][p] : queue[n][p][i].id = Lone
  /\ \A n \in Nodes, k \in SwarmMessages \ {Lone} : missing[n][k] = {}

\* What b recorded of the announcements of a, and what is between the two.
Claims(a, b) == {c \in missing[b][Lone] : c.peer = a}
Between(a, b, there, back, waiting) ==
  net[<<a, b>>] = there /\ net[<<b, a>>] = back /\ queue[a][b] = waiting
LazyLink(a, b) == b \notin eager[a] /\ a \notin eager[b]
Notice(a) == [id |-> Lone, round |-> cache[a][Lone]]

\* As long as neither end has Lone, a link is idle and its ends agree.
Untold(a, b) ==
  /\ Between(a, b, <<>>, <<>>, <<>>) /\ Claims(a, b) = {}
  /\ b \in eager[a] <=> a \in eager[b]

\* When a has it and b does not, the link is in one of five stages.
Pushed(a, b) ==
  /\ EagerLink(a, b) /\ Claims(a, b) = {}
  /\ Between(a, b, <<Gossip(Lone, cache[a][Lone])>>, <<>>, <<>>)
Noted(a, b) ==
  LazyLink(a, b) /\ Claims(a, b) = {} /\ Between(a, b, <<>>, <<>>, <<Notice(a)>>)
Announced(a, b) ==
  LazyLink(a, b) /\ Claims(a, b) = {} /\ Between(a, b, <<IHave(<<Notice(a)>>)>>, <<>>, <<>>)
Recorded(a, b) ==
  /\ LazyLink(a, b) /\ Between(a, b, <<>>, <<>>, <<>>)
  /\ \E c \in missing[b][Lone] : Claims(a, b) = {c} /\ c.round = cache[a][Lone]
Asked(a, b) ==
  /\ b \notin eager[a] /\ a \in eager[b] /\ Claims(a, b) = {}
  /\ Between(a, b, <<>>, <<Graft(Lone)>>, <<>>)
Told(a, b) ==
  /\ queue[b][a] = <<>>
  /\ Pushed(a, b) \/ Noted(a, b) \/ Announced(a, b) \/ Recorded(a, b) \/ Asked(a, b)
LinkOf(a, b) ==
  /\ Lone \notin received[a] /\ Lone \notin received[b] => Untold(a, b)
  /\ Lone \in received[a] /\ Lone \notin received[b] => Told(a, b)
LinkInv == \A a \in Nodes : \A b \in Near(a) : LinkOf(a, b)

\* The parent of a node is the neighbour it got Lone from or, if optimize_tree
\* preferred another, the one it promoted: nearer to the author, eager at the
\* node, eager at the parent as well once a Graft under way arrives, and
\* nothing travels between them that could turn the link lazy.
Harmless(pkt) == Calm(pkt, Lone) /\ ~Matches(pkt, "Graft", Lone)
Bond(p, n) ==
  /\ Lone \in received[p] /\ cache[p][Lone] < cache[n][Lone]
  /\ p \in eager[n]
  /\ \A pkt \in Packets(net[<<p, n>>]) \cup Packets(net[<<n, p>>]) : Harmless(pkt)
  /\ n \in eager[p] \/ \E pkt \in Packets(net[<<n, p>>]) : pkt.kind = "Graft"
BondInv ==
  \A n \in Nodes :
    Lone \in received[n] /\ author[Lone] # n => \E p \in Near(n) : Bond(p, n)

LoneOf == LoneTalk /\ LinkInv /\ BondInv
LoneInv == author[Lone] # NoNode => LoneOf

\* The packets of a stream are its first one and the others.
LEMMA HeadAndTail ==
  ASSUME NEW s \in Seq(Packet), s # <<>>
  PROVE  Packets(s) = {Head(s)} \cup Packets(Tail(s))
<1>1. /\ Len(s) \in Nat \ {0} /\ DOMAIN s = 1..Len(s) /\ DOMAIN Tail(s) = 1..(Len(s) - 1)
      /\ Head(s) = s[1]
      /\ \A i \in 1..(Len(s) - 1) : Tail(s)[i] = s[i + 1]
  OBVIOUS
<1>2. \A i \in DOMAIN s : i = 1 \/ (i - 1 \in DOMAIN Tail(s) /\ Tail(s)[i - 1] = s[i])
  BY <1>1
<1>3. Packets(s) \subseteq {Head(s)} \cup Packets(Tail(s))
  BY <1>1, <1>2 DEF Packets
<1> QED
  BY <1>3, TailPackets

\* A step that touches nothing but the link between s and n.
LocalStep(s, n) ==
  /\ UNCHANGED <<queue, received, cache, author>>
  /\ \A a, b \in Nodes : <<a, b>> # <<n, s>> => (b \in eager'[a] <=> b \in eager[a])
  /\ \A a, b \in Nodes : <<a, b>> # <<s, n>> => Claims(a, b)' = Claims(a, b)
  /\ \A l \in Links : l # <<s, n>> /\ l # <<n, s>> => net'[l] = net[l]

\* A link on which nothing changed.
LEMMA LinkSame ==
  ASSUME NEW a \in Nodes, NEW b \in Nodes, LinkOf(a, b),
         Lone \in received'[a] <=> Lone \in received[a],
         Lone \in received'[b] <=> Lone \in received[b],
         b \in eager'[a] <=> b \in eager[a], a \in eager'[b] <=> a \in eager[b],
         net'[<<a, b>>] = net[<<a, b>>], net'[<<b, a>>] = net[<<b, a>>],
         queue'[a][b] = queue[a][b], queue'[b][a] = queue[b][a],
         Claims(a, b)' = Claims(a, b), cache'[a][Lone] = cache[a][Lone]
  PROVE  LinkOf(a, b)'
<1>1. Untold(a, b) => Untold(a, b)'
  BY DEF Untold, Between
<1>2. Pushed(a, b) => Pushed(a, b)'
  BY DEF Pushed, EagerLink, Between
<1>3. Noted(a, b) => Noted(a, b)'
  BY DEF Noted, LazyLink, Between, Notice
<1>4. Announced(a, b) => Announced(a, b)'
  BY DEF Announced, LazyLink, Between, Notice
<1>5. Recorded(a, b) => Recorded(a, b)'
  BY DEF Recorded, LazyLink, Between, Claims
<1>6. Asked(a, b) => Asked(a, b)'
  BY DEF Asked, Between
<1> QED
  BY <1>1, <1>2, <1>3, <1>4, <1>5, <1>6 DEF LinkOf, Told

\* After such a step only that link has to be looked at.
LEMMA LocalLinks ==
  ASSUME LinkInv, NEW n \in Nodes, NEW s \in Near(n), LocalStep(s, n),
         LinkOf(s, n)', LinkOf(n, s)'
  PROVE  LinkInv'
<1> SUFFICES ASSUME NEW a \in Nodes, NEW b \in Near(a) PROVE LinkOf(a, b)'
  BY DEF LinkInv, Near
<1>1. CASE <<a, b>> \in {<<s, n>>, <<n, s>>}
  BY <1>1
<1>2. CASE <<a, b>> \notin {<<s, n>>, <<n, s>>}
  <2>1. b \in Nodes /\ <<a, b>> \in Links /\ <<b, a>> \in Links
    BY NearLinks
  <2>2. <<b, a>> \notin {<<s, n>>, <<n, s>>}
    BY <1>2
  <2>3. LinkOf(a, b)
    BY DEF LinkInv
  <2> QED
    BY <1>2, <2>1, <2>2, <2>3, LinkSame DEF LocalStep
<1> QED
  BY <1>1, <1>2

\* The same for the parents.
LEMMA LocalBonds ==
  ASSUME BondInv, NEW n \in Nodes, NEW s \in Near(n), LocalStep(s, n),
         Bond(s, n) => Bond(s, n)', Bond(n, s) => Bond(n, s)'
  PROVE  BondInv'
<1> SUFFICES ASSUME NEW x \in Nodes, Lone \in received[x], author[Lone] # x
             PROVE  \E p \in Near(x) : Bond(p, x)'
  BY DEF BondInv, LocalStep, Near
<1>1. PICK p \in Near(x) : Bond(p, x)
  BY DEF BondInv
<1>2. p \in Nodes /\ <<p, x>> \in Links /\ <<x, p>> \in Links
  BY NearLinks
<1>3. CASE <<p, x>> \in {<<s, n>>, <<n, s>>}
  BY <1>1, <1>3
<1>4. CASE <<p, x>> \notin {<<s, n>>, <<n, s>>}
  <2>1. <<x, p>> \notin {<<s, n>>, <<n, s>>}
    BY <1>4
  <2>2. Bond(p, x)'
    BY <1>1, <1>2, <1>4, <2>1 DEF LocalStep, Bond
  <2> QED
    BY <2>2
<1> QED
  BY <1>3, <1>4

\* An empty stream.
LEMMA NoPackets == Packets(<<>>) = {} /\ <<>> \in Seq(Packet)
BY DEF Packets

\* A message that arrives, and the streams of its link.
LEMMA Arriving ==
  ASSUME TypeInv, NEW s \in Nodes, NEW n \in Nodes, NEW kind, Incoming(s, n, kind)
  PROVE  /\ <<s, n>> \in Links /\ <<n, s>> \in Links /\ s # n
         /\ Head(net[<<s, n>>]) \in Packets(net[<<s, n>>])
         /\ Head(net[<<s, n>>]).kind = kind
         /\ net[<<s, n>>] \in Seq(Packet) /\ net[<<n, s>>] \in Seq(Packet)
<1>1. net \in Streams
  BY TypedStreams
<1>2. <<s, n>> \in Links /\ <<n, s>> \in Links /\ s # n
  BY <1>1, TakenIs DEF Links
<1>3. /\ Head(net[<<s, n>>]) \in Packets(net[<<s, n>>])
      /\ Head(net[<<s, n>>]).kind = kind
  BY <1>1, TakenPackets
<1> QED
  BY <1>1, <1>2, <1>3 DEF Streams

\* What may arrive, by who has Lone.
LEMMA Arrives ==
  ASSUME TypeInv, NearInv, LinkInv, NEW s \in Nodes, NEW n \in Nodes, NEW kind,
         Incoming(s, n, kind)
  PROVE  /\ s \in Near(n) /\ n \in Near(s)
         /\ Lone \in received[n] =>
              Lone \in received[s] \/ (kind = "Graft" /\ Asked(n, s))
         /\ Lone \notin received[n] =>
              /\ Lone \in received[s]
              /\ \/ kind = "Gossip" /\ Pushed(s, n)
                 \/ kind = "IHave" /\ Announced(s, n)
<1>1. net \in Streams
  BY TypedStreams
<1>2. net[<<s, n>>] # <<>> /\ Head(net[<<s, n>>]).kind = kind
  BY DEF Incoming
<1>3. s \in Near(n) /\ n \in Near(s)
  BY <1>1, TakenNear, NearLinks DEF NearInv
<1>4. LinkOf(s, n) /\ LinkOf(n, s)
  BY <1>3 DEF LinkInv
<1>5. CASE Lone \notin received[n] /\ Lone \notin received[s]
  BY <1>2, <1>4, <1>5 DEF LinkOf, Untold, Between
<1>6. CASE Lone \notin received[n] /\ Lone \in received[s]
  <2>1. Told(s, n)
    BY <1>4, <1>6 DEF LinkOf
  <2>2. CASE Pushed(s, n)
    <3>1. net[<<s, n>>] = <<Gossip(Lone, cache[s][Lone])>>
      BY <2>2 DEF Pushed, Between
    <3>2. kind = "Gossip"
      BY <1>2, <3>1 DEF Gossip
    <3> QED
      BY <1>3, <1>6, <2>2, <3>2
  <2>3. CASE Announced(s, n)
    <3>1. net[<<s, n>>] = <<IHave(<<Notice(s)>>)>>
      BY <2>3 DEF Announced, Between
    <3>2. kind = "IHave"
      BY <1>2, <3>1 DEF IHave
    <3> QED
      BY <1>3, <1>6, <2>3, <3>2
  <2>4. CASE Noted(s, n) \/ Recorded(s, n) \/ Asked(s, n)
    BY <1>2, <2>4 DEF Noted, Recorded, Asked, Between
  <2> QED
    BY <2>1, <2>2, <2>3, <2>4 DEF Told
<1>7. CASE Lone \in received[n] /\ Lone \notin received[s]
  <2>1. Told(n, s)
    BY <1>4, <1>7 DEF LinkOf
  <2>2. Asked(n, s)
    BY <1>2, <2>1 DEF Told, Pushed, Noted, Announced, Recorded, Between
  <2>3. net[<<s, n>>] = <<Graft(Lone)>>
    BY <2>2 DEF Asked, Between
  <2>4. kind = "Graft"
    BY <1>2, <2>3 DEF Graft
  <2> QED
    BY <1>3, <1>7, <2>2, <2>4
<1> QED
  BY <1>3, <1>5, <1>6, <1>7

\* n takes a message from s and answers with t.
Exchange(s, n, t) ==
  /\ net'[<<s, n>>] = Tail(net[<<s, n>>])
  /\ net'[<<n, s>>] = net[<<n, s>>] \o t
  /\ \A l \in Links : l # <<s, n>> /\ l # <<n, s>> => net'[l] = net[l]

\* A handler that answers with t, and one that does not answer.
LEMMA Exchanged ==
  ASSUME TypeInv, NEW s \in Nodes, NEW n \in Nodes, NEW kind, Incoming(s, n, kind),
         NEW t \in Seq(Packet),
         net' = Transmit(Taken(s, n), n, [p \in Nodes |-> IF p = s THEN t ELSE <<>>])
  PROVE  Exchange(s, n, t)
<1>1. net \in Streams
  BY TypedStreams
<1>2. /\ Taken(s, n) \in Streams /\ s # n /\ <<s, n>> \in Links /\ <<n, s>> \in Links
      /\ Taken(s, n)[<<s, n>>] = Tail(net[<<s, n>>])
      /\ \A l \in Links : l # <<s, n>> => Taken(s, n)[l] = net[l]
  BY <1>1, TakenIs DEF Links
<1> DEFINE out == [p \in Nodes |-> IF p = s THEN t ELSE <<>>]
<1>3. /\ out \in [Nodes -> Seq(Packet)] /\ out[s] = t
      /\ \A p \in Nodes : p # s => out[p] = <<>>
      /\ net' = Transmit(Taken(s, n), n, out)
  OBVIOUS
<1> HIDE DEF out
<1>4. \A l \in Links : /\ Taken(s, n)[l] \in Seq(Packet) /\ l[2] \in Nodes
                       /\ net'[l] = IF l[1] = n THEN Taken(s, n)[l] \o out[l[2]]
                                    ELSE Taken(s, n)[l]
  <2>1. Taken(s, n) \in Streams /\ out \in [Nodes -> Seq(Packet)]
    BY <1>2, <1>3
  <2>2. net' = Transmit(Taken(s, n), n, out)
    BY <1>3
  <2> QED
    BY <2>1, <2>2, TransmitIs
<1>5. net'[<<s, n>>] = Tail(net[<<s, n>>]) /\ net'[<<n, s>>] = net[<<n, s>>] \o t
  <2>1. net'[<<s, n>>] = Taken(s, n)[<<s, n>>]
    BY <1>2, <1>4
  <2>2. net'[<<n, s>>] = Taken(s, n)[<<n, s>>] \o out[s]
    BY <1>2, <1>4
  <2>3. <<n, s>> # <<s, n>>
    BY <1>2
  <2> QED
    BY <1>2, <1>3, <2>1, <2>2, <2>3
<1>6. ASSUME NEW l \in Links, l # <<s, n>>, l # <<n, s>> PROVE net'[l] = net[l]
  <2>1. CASE l[1] = n
    <3>1. l[2] # s /\ l[2] \in Nodes
      BY <1>6, <2>1 DEF Links
    <3>2. out[l[2]] = <<>> /\ net[l] \in Seq(Packet)
      BY <1>2, <1>3, <1>4, <1>6, <3>1
    <3>3. net[l] \o <<>> = net[l]
      BY <3>2
    <3> QED
      BY <1>2, <1>4, <1>6, <2>1, <3>2, <3>3
  <2>2. CASE l[1] # n
    BY <1>2, <1>4, <1>6, <2>2
  <2> QED
    BY <2>1, <2>2
<1> QED
  BY <1>5, <1>6 DEF Exchange

LEMMA TakenExchange ==
  ASSUME TypeInv, NEW s \in Nodes, NEW n \in Nodes, NEW kind, Incoming(s, n, kind),
         net' = Taken(s, n)
  PROVE  Exchange(s, n, <<>>)
<1>1. net \in Streams
  BY TypedStreams
<1>2. /\ s # n /\ <<n, s>> \in Links
      /\ Taken(s, n)[<<s, n>>] = Tail(net[<<s, n>>])
      /\ \A l \in Links : l # <<s, n>> => Taken(s, n)[l] = net[l]
  BY <1>1, TakenIs DEF Links
<1>3. net[<<n, s>>] \in Seq(Packet) /\ <<n, s>> # <<s, n>>
  BY <1>1, <1>2 DEF Streams
<1>4. net[<<n, s>>] \o <<>> = net[<<n, s>>]
  BY <1>3
<1> QED
  BY <1>2, <1>3, <1>4 DEF Exchange

\* What an exchange leaves on the streams.
LEMMA ExchangePackets ==
  ASSUME TypeInv, NEW s \in Nodes, NEW n \in Nodes, NEW kind, Incoming(s, n, kind),
         NEW t \in Seq(Packet), Exchange(s, n, t)
  PROVE  /\ Packets(net[<<s, n>>]) = {Head(net[<<s, n>>])} \cup Packets(net'[<<s, n>>])
         /\ Packets(net'[<<n, s>>]) \subseteq Packets(net[<<n, s>>]) \cup Packets(t)
         /\ \A l \in Links : Packets(net'[l]) \subseteq Packets(net[l]) \cup Packets(t)
<1>1. net \in Streams
  BY TypedStreams
<1>2. s # n /\ <<s, n>> \in Links /\ <<n, s>> \in Links /\ net[<<s, n>>] # <<>>
  BY <1>1, TakenIs DEF Links
<1>3. net[<<s, n>>] \in Seq(Packet) /\ net[<<n, s>>] \in Seq(Packet)
  BY <1>1, <1>2 DEF Streams
<1>4. Packets(net[<<s, n>>]) = {Head(net[<<s, n>>])} \cup Packets(net'[<<s, n>>])
  BY <1>2, <1>3, HeadAndTail DEF Exchange
<1>5. Packets(net'[<<n, s>>]) \subseteq Packets(net[<<n, s>>]) \cup Packets(t)
  BY <1>3, ConcatPackets DEF Exchange
<1>6. ASSUME NEW l \in Links PROVE Packets(net'[l]) \subseteq Packets(net[l]) \cup Packets(t)
  BY <1>4, <1>5, <1>6 DEF Exchange
<1> QED
  BY <1>4, <1>5, <1>6

\* An exchange speaks of nothing new.
LEMMA LocalTalk ==
  ASSUME TypeInv, LoneTalk, NEW s \in Nodes, NEW n \in Nodes, NEW kind,
         Incoming(s, n, kind), NEW t \in Seq(Packet), Exchange(s, n, t),
         \A pkt \in Packets(t) : About(pkt),
         queue' = queue,
         \A x \in Nodes, k \in SwarmMessages \ {Lone} : missing'[x][k] = missing[x][k]
  PROVE  LoneTalk'
<1>1. \A l \in Links : \A pkt \in Packets(net'[l]) : About(pkt)
  BY ExchangePackets DEF LoneTalk
<1> QED
  BY <1>1 DEF LoneTalk, About

\* A duplicate or a Prune: both ends have Lone, and neither is the other's parent.
LEMMA LoneCuts ==
  ASSUME TypeInv, NearInv, LoneOf, NEW s \in Nodes, NEW n \in Nodes, NEW kind,
         Incoming(s, n, kind), kind = "Prune" \/ (kind = "Gossip" /\ Lone \in received[n]),
         NEW t \in Seq(Packet), Exchange(s, n, t), \A pkt \in Packets(t) : About(pkt),
         UNCHANGED <<queue, missing, received, cache, author>>,
         \A a, b \in Nodes : <<a, b>> # <<n, s>> => (b \in eager'[a] <=> b \in eager[a])
  PROVE  LoneOf'
<1>1. s \in Near(n) /\ Lone \in received[n] /\ Lone \in received[s]
  BY Arrives DEF LoneOf
<1>2. LocalStep(s, n)
  BY DEF LocalStep, Claims, Exchange
<1>3. LinkInv'
  <2>1. LinkOf(s, n)' /\ LinkOf(n, s)'
    BY <1>1 DEF LinkOf
  <2> QED
    BY <1>1, <1>2, <2>1, LocalLinks DEF LoneOf
<1>4. ~Harmless(Head(net[<<s, n>>])) /\ Head(net[<<s, n>>]) \in Packets(net[<<s, n>>])
  <2>1. /\ Head(net[<<s, n>>]) \in Packets(net[<<s, n>>])
        /\ Head(net[<<s, n>>]).kind = kind /\ <<s, n>> \in Links
    BY TypedStreams, TakenPackets, TakenIs
  <2>2. kind = "Gossip" => Head(net[<<s, n>>]).id = Lone
    BY <2>1 DEF LoneOf, LoneTalk, About
  <2> QED
    BY <2>1, <2>2 DEF Harmless, Calm, Matches
<1>5. BondInv'
  <2>1. ~Bond(s, n) /\ ~Bond(n, s)
    BY <1>4 DEF Bond
  <2> QED
    BY <1>1, <1>2, <2>1, LocalBonds DEF LoneOf
<1>6. LoneTalk'
  BY LocalTalk DEF LoneOf
<1> QED
  BY <1>3, <1>5, <1>6 DEF LoneOf

\* on_ihave: an announcement is recorded by whoever lacks Lone, once.
LEMMA LoneOnIHave ==
  ASSUME TypeInv, NearInv, LoneOf, NEW s \in Nodes, NEW n \in Nodes, OnIHave(s, n)
  PROVE  LoneOf'
<1> DEFINE list == Head(net[<<s, n>>]).list
           lacked == {list[i].id : i \in DOMAIN list} \ received[n]
<1>0. /\ list = Head(net[<<s, n>>]).list
      /\ lacked = {list[i].id : i \in DOMAIN list} \ received[n]
  OBVIOUS
<1> HIDE DEF list, lacked
<1>1. PICK last : missing' = [missing EXCEPT ![n] =
                 [m \in SwarmMessages |-> missing[n][m] \cup
                    (IF m \in lacked THEN NewClaims(list, m, s, last) ELSE {})]]
  BY DEF OnIHave, list, lacked
<1>2. /\ Incoming(s, n, "IHave") /\ net' = Taken(s, n)
      /\ UNCHANGED <<queue, received, cache, author, eager>>
  BY DEF OnIHave
<1>3. Exchange(s, n, <<>>) /\ <<>> \in Seq(Packet) /\ Packets(<<>>) = {}
  BY <1>2, TakenExchange, NoPackets
<1>4. s \in Near(n) /\ Lone \in received[s] /\ (Lone \in received[n] \/ Announced(s, n))
  BY <1>2, Arrives DEF LoneOf
<1>5. /\ <<s, n>> \in Links /\ <<n, s>> \in Links /\ s # n
      /\ Head(net[<<s, n>>]) \in Packets(net[<<s, n>>])
      /\ Head(net[<<s, n>>]).kind = "IHave" /\ net[<<n, s>>] \in Seq(Packet)
  BY <1>2, Arriving
<1>6. \A i \in DOMAIN list : list[i].id = Lone
  BY <1>0, <1>5 DEF LoneOf, LoneTalk, About
<1>7. /\ missing[n] \in [SwarmMessages -> SUBSET Claim]
      /\ \A x \in Nodes : x # n => missing'[x] = missing[x]
      /\ \A m \in SwarmMessages :
           missing'[n][m] = missing[n][m] \cup
             (IF m \in lacked THEN NewClaims(list, m, s, last) ELSE {})
  BY <1>1 DEF TypeInv, LocalInv
<1>8. \A x \in Nodes, k \in SwarmMessages \ {Lone} : missing'[x][k] = missing[x][k]
  <2>1. \A k \in SwarmMessages \ {Lone} : k \notin lacked
    BY <1>0, <1>6
  <2> QED
    BY <1>7, <2>1
<1>9. LoneTalk'
  BY <1>2, <1>3, <1>8, LocalTalk DEF LoneOf
<1>10. \A c \in NewClaims(list, Lone, s, last) : c.peer = s
  BY DEF NewClaims
<1>11. LocalStep(s, n)
  <2>1. ASSUME NEW a \in Nodes, NEW b \in Nodes, <<a, b>> # <<s, n>>
        PROVE  Claims(a, b)' = Claims(a, b)
    <3>1. CASE b # n
      BY <1>7, <3>1 DEF Claims
    <3>2. CASE b = n
      <4>1. a # s
        BY <2>1, <3>2
      <4> QED
        BY <1>7, <1>10, <3>2, <4>1, LoneAssumption DEF Claims
    <3> QED
      BY <3>1, <3>2
  <2> QED
    BY <1>2, <1>3, <2>1 DEF LocalStep, Exchange
<1>12. CASE Lone \in received[n]
  <2>1. LinkInv'
    <3>1. LinkOf(s, n)' /\ LinkOf(n, s)'
      BY <1>2, <1>4, <1>12 DEF LinkOf
    <3> QED
      BY <1>4, <1>11, <3>1, LocalLinks DEF LoneOf
  <2>2. /\ net'[<<n, s>>] = net[<<n, s>>]
        /\ Packets(net'[<<s, n>>]) \subseteq Packets(net[<<s, n>>])
        /\ \A pkt \in Packets(net[<<s, n>>]) :
             pkt.kind = "Graft" => pkt \in Packets(net'[<<s, n>>])
    <3>1. net[<<n, s>>] \o <<>> = net[<<n, s>>]
      BY <1>5
    <3>2. Packets(net[<<s, n>>]) = {Head(net[<<s, n>>])} \cup Packets(net'[<<s, n>>])
      BY <1>2, <1>3, ExchangePackets
    <3> QED
      BY <1>3, <1>5, <3>1, <3>2 DEF Exchange
  <2>3. (Bond(s, n) => Bond(s, n)') /\ (Bond(n, s) => Bond(n, s)')
    BY <1>2, <2>2 DEF Bond
  <2>4. BondInv'
    BY <1>4, <1>11, <2>3, LocalBonds DEF LoneOf
  <2> QED
    BY <1>9, <2>1, <2>4 DEF LoneOf
<1>13. CASE Lone \notin received[n]
  <2>1. Announced(s, n)
    BY <1>4, <1>13
  <2>2. /\ LazyLink(s, n) /\ Claims(s, n) = {} /\ net[<<s, n>>] = <<IHave(<<Notice(s)>>)>>
        /\ net[<<n, s>>] = <<>> /\ queue[s][n] = <<>>
    BY <2>1 DEF Announced, Between
  <2>3. list = <<Notice(s)>>
    BY <1>0, <2>2 DEF IHave
  <2>4. NewClaims(list, Lone, s, last) =
          {[at |-> last + 1, peer |-> s, round |-> cache[s][Lone]]}
    BY <2>3 DEF NewClaims, Notice
  <2>5. Lone \in lacked
    <3>1. 1 \in DOMAIN list /\ list[1].id = Lone
      BY <2>3 DEF Notice
    <3> QED
      BY <1>0, <1>13, <3>1
  <2>c. PICK c : c = [at |-> last + 1, peer |-> s, round |-> cache[s][Lone]]
    OBVIOUS
  <2>6. /\ missing'[n][Lone] = missing[n][Lone] \cup {c}
        /\ c.peer = s /\ c.round = cache[s][Lone]
    BY <1>7, <2>4, <2>5, <2>c, LoneAssumption
  <2>7. Recorded(s, n)'
    <3>1. Claims(s, n)' = {c} /\ c \in missing'[n][Lone]
      BY <2>2, <2>6 DEF Claims
    <3>2. Between(s, n, <<>>, <<>>, <<>>)'
      BY <1>2, <1>3, <2>2 DEF Between, Exchange
    <3>3. LazyLink(s, n)'
      BY <1>2, <2>2 DEF LazyLink
    <3> QED
      BY <1>2, <2>6, <3>1, <3>2, <3>3 DEF Recorded
  <2>8. queue'[n][s] = <<>>
    BY <1>2, <1>4, <1>13, NearLinks DEF LoneOf, LinkInv, LinkOf, Told
  <2>9. LinkInv'
    <3>1. LinkOf(s, n)' /\ LinkOf(n, s)'
      BY <1>2, <1>4, <1>13, <2>7, <2>8 DEF LinkOf, Told
    <3> QED
      BY <1>4, <1>11, <3>1, LocalLinks DEF LoneOf
  <2>10. BondInv'
    <3>1. ~Bond(s, n) /\ ~Bond(n, s)
      BY <1>13, <2>2 DEF Bond, LazyLink
    <3> QED
      BY <1>4, <1>11, <3>1, LocalBonds DEF LoneOf
  <2> QED
    BY <1>9, <2>9, <2>10 DEF LoneOf
<1> QED
  BY <1>12, <1>13

\* on_graft: the payload for whoever lacks Lone, and an eager link in any case.
LEMMA LoneOnGraft ==
  ASSUME TypeInv, NearInv, StableInv, LoneOf, NEW s \in Nodes, NEW n \in Nodes,
         OnGraft(s, n)
  PROVE  LoneOf'
<1>0. PICK m : m = Head(net[<<s, n>>]).id
  OBVIOUS
<1> DEFINE held == m # NoMessage /\ cache[n][m] # NotCached
<1>1. PICK t : t = IF held THEN <<Gossip(m, cache[n][m])>> ELSE <<>>
  OBVIOUS
<1>2. /\ Incoming(s, n, "Graft") /\ AddEager(n, s)
      /\ UNCHANGED <<queue, missing, received, cache, author>>
  BY DEF OnGraft
<1>3. s \in Near(n) /\ Lone \in received[n] /\ (Lone \in received[s] \/ Asked(n, s))
  BY <1>2, Arrives DEF LoneOf
<1>4. /\ <<s, n>> \in Links /\ <<n, s>> \in Links /\ s # n
      /\ Head(net[<<s, n>>]) \in Packets(net[<<s, n>>])
      /\ Head(net[<<s, n>>]).kind = "Graft" /\ net[<<n, s>>] \in Seq(Packet)
  BY <1>2, Arriving
<1>5. m \in {Lone, NoMessage} /\ Lone \in SwarmMessages /\ Lone # NoMessage
  BY <1>0, <1>4, LoneAssumption, PlumtreeAssumption DEF LoneOf, LoneTalk, About, Messages
<1>6. cache[n][Lone] # NotCached /\ cache[n][Lone] \in Nat
  BY <1>3, <1>5 DEF StableInv, PayloadsKept, TypeInv, LocalInv
<1>7. t \in Seq(Packet) /\ \A pkt \in Packets(t) : About(pkt)
  <2>1. CASE held
    <3>1. m = Lone
      BY <1>1, <1>5, <2>1
    <3>2. Gossip(Lone, cache[n][Lone]) \in Packet /\ About(Gossip(Lone, cache[n][Lone]))
      BY <1>5, <1>6 DEF Gossip, Packet, About
    <3>3. t = <<Gossip(Lone, cache[n][Lone])>>
      BY <1>1, <2>1, <3>1
    <3> QED
      BY <3>2, <3>3, ShortPackets
  <2>2. CASE ~held
    BY <1>1, <2>2, NoPackets
  <2> QED
    BY <2>1, <2>2
<1>8. Exchange(s, n, t)
  <2>1. net' = Transmit(Taken(s, n), n, [p \in Nodes |-> IF held /\ p = s
                           THEN <<Gossip(m, cache[n][m])>> ELSE <<>>])
    BY <1>0 DEF OnGraft
  <2>2. [p \in Nodes |-> IF held /\ p = s THEN <<Gossip(m, cache[n][m])>> ELSE <<>>]
          = [p \in Nodes |-> IF p = s THEN t ELSE <<>>]
    BY <1>1
  <2> QED
    BY <1>2, <1>7, <2>1, <2>2, Exchanged
<1>9. /\ s \in eager'[n]
      /\ \A a, b \in Nodes : <<a, b>> # <<n, s>> => (b \in eager'[a] <=> b \in eager[a])
  BY <1>2 DEF AddEager, TypeInv, PeerInv
<1>10. LocalStep(s, n)
  BY <1>2, <1>8, <1>9 DEF LocalStep, Claims, Exchange
<1>11. LoneTalk'
  BY <1>2, <1>7, <1>8, LocalTalk DEF LoneOf
<1>12. CASE Lone \in received[s]
  <2>1. LinkInv'
    <3>1. LinkOf(s, n)' /\ LinkOf(n, s)'
      BY <1>2, <1>3, <1>12 DEF LinkOf
    <3> QED
      BY <1>3, <1>10, <3>1, LocalLinks DEF LoneOf
  <2>2. ASSUME Bond(s, n) \/ Bond(n, s)
        PROVE  /\ Packets(net'[<<s, n>>]) \subseteq Packets(net[<<s, n>>])
               /\ net'[<<n, s>>] = net[<<n, s>>]
    <3>1. m # Lone
      BY <1>0, <1>4, <2>2 DEF Bond, Harmless, Matches
    <3>2. t = <<>>
      BY <1>1, <1>5, <3>1
    <3>3. net[<<n, s>>] \o <<>> = net[<<n, s>>]
      BY <1>4
    <3>4. Packets(net[<<s, n>>]) = {Head(net[<<s, n>>])} \cup Packets(net'[<<s, n>>])
      BY <1>2, <1>7, <1>8, ExchangePackets
    <3> QED
      BY <1>8, <3>2, <3>3, <3>4 DEF Exchange
  <2>3. (Bond(s, n) => Bond(s, n)') /\ (Bond(n, s) => Bond(n, s)')
    BY <1>2, <1>4, <1>9, <2>2 DEF Bond
  <2>4. BondInv'
    BY <1>3, <1>10, <2>3, LocalBonds DEF LoneOf
  <2> QED
    BY <1>11, <2>1, <2>4 DEF LoneOf
<1>13. CASE Lone \notin received[s]
  <2>1. /\ s \notin eager[n] /\ n \in eager[s] /\ Claims(n, s) = {}
        /\ net[<<n, s>>] = <<>> /\ net[<<s, n>>] = <<Graft(Lone)>> /\ queue[n][s] = <<>>
    BY <1>3, <1>13 DEF Asked, Between
  <2>2. m = Lone /\ held
    BY <1>0, <1>5, <1>6, <2>1 DEF Graft
  <2>3. t = <<Gossip(Lone, cache[n][Lone])>>
    BY <1>1, <2>2
  <2>4. Pushed(n, s)'
    <3>1. EagerLink(n, s)'
      BY <1>4, <1>9, <2>1 DEF EagerLink
    <3>2. Claims(n, s)' = {}
      BY <1>2, <2>1 DEF Claims
    <3>3. Between(n, s, <<Gossip(Lone, cache[n][Lone])>>, <<>>, <<>>)'
      <4>1. <<>> \o t = t
        BY <1>7
      <4> QED
        BY <1>2, <1>8, <2>1, <2>3, <4>1 DEF Between, Exchange
    <3> QED
      BY <3>1, <3>2, <3>3 DEF Pushed
  <2>5. queue'[s][n] = <<>>
    BY <1>2, <1>3, <1>13, NearLinks DEF LoneOf, LinkInv, LinkOf, Told
  <2>6. LinkInv'
    <3>1. LinkOf(s, n)' /\ LinkOf(n, s)'
      BY <1>2, <1>3, <1>13, <2>4, <2>5 DEF LinkOf, Told
    <3> QED
      BY <1>3, <1>10, <3>1, LocalLinks DEF LoneOf
  <2>7. BondInv'
    <3>1. ~Bond(s, n) /\ ~Bond(n, s)
      <4>1. ~Harmless(Graft(Lone)) /\ Graft(Lone) \in Packets(net[<<s, n>>])
        BY <2>1, ShortPackets DEF Harmless, Matches, Graft
      <4> QED
        BY <4>1 DEF Bond
    <3> QED
      BY <1>3, <1>10, <3>1, LocalBonds DEF LoneOf
  <2> QED
    BY <1>11, <2>6, <2>7 DEF LoneOf
<1> QED
  BY <1>12, <1>13

\* What is sent leaves what travels already.
LEMMA ConcatKeeps ==
  ASSUME NEW s \in Seq(Packet), NEW t \in Seq(Packet)
  PROVE  Packets(s) \subseteq Packets(s \o t)
<1>1. /\ DOMAIN s = 1..Len(s) /\ DOMAIN (s \o t) = 1..(Len(s) + Len(t))
      /\ Len(s) \in Nat /\ Len(t) \in Nat
      /\ \A i \in DOMAIN s : (s \o t)[i] = s[i]
  OBVIOUS
<1>2. \A i \in DOMAIN s : i \in DOMAIN (s \o t)
  BY <1>1
<1> QED
  BY <1>1, <1>2 DEF Packets

\* Nothing that matters changes.
LEMMA LoneIdle ==
  ASSUME LoneOf, UNCHANGED <<eager, queue, missing, received, cache, author, net>>
  PROVE  LoneOf'
<1>1. LoneTalk'
  BY DEF LoneOf, LoneTalk, About
<1>2. LinkInv'
  <2> SUFFICES ASSUME NEW a \in Nodes, NEW b \in Near(a) PROVE LinkOf(a, b)'
    BY DEF LinkInv, Near
  <2>1. b \in Nodes /\ LinkOf(a, b) /\ Claims(a, b)' = Claims(a, b)
    BY DEF LoneOf, LinkInv, Near, Claims
  <2> QED
    BY <2>1, LinkSame
<1>3. BondInv'
  BY DEF LoneOf, BondInv, Bond, Near
<1> QED
  BY <1>1, <1>2, <1>3 DEF LoneOf

\* n sends t to s.
LEMMA SentToOne ==
  ASSUME TypeInv, NEW s \in Nodes, NEW n \in Nodes, s # n, NEW t \in Seq(Packet),
         net' = Transmit(net, n, [p \in Nodes |-> IF p = s THEN t ELSE <<>>])
  PROVE  /\ net'[<<n, s>>] = net[<<n, s>>] \o t
         /\ \A l \in Links : l # <<n, s>> => net'[l] = net[l]
         /\ \A l \in Links : Packets(net'[l]) \subseteq Packets(net[l]) \cup Packets(t)
<1>1. net \in Streams /\ <<n, s>> \in Links
  BY TypedStreams DEF Links
<1> DEFINE out == [p \in Nodes |-> IF p = s THEN t ELSE <<>>]
<1>2. /\ out \in [Nodes -> Seq(Packet)] /\ out[s] = t
      /\ \A p \in Nodes : p # s => out[p] = <<>>
      /\ net' = Transmit(net, n, out)
  OBVIOUS
<1> HIDE DEF out
<1>3. \A l \in Links : /\ net[l] \in Seq(Packet) /\ l[2] \in Nodes
                       /\ net'[l] = IF l[1] = n THEN net[l] \o out[l[2]] ELSE net[l]
  BY <1>1, <1>2, TransmitIs
<1>4. net'[<<n, s>>] = net[<<n, s>>] \o t
  BY <1>1, <1>2, <1>3
<1>5. ASSUME NEW l \in Links, l # <<n, s>> PROVE net'[l] = net[l]
  <2>1. CASE l[1] = n
    <3>1. l[2] # s /\ l[2] \in Nodes
      BY <1>5, <2>1 DEF Links
    <3>2. out[l[2]] = <<>> /\ net[l] \in Seq(Packet)
      BY <1>2, <1>3, <3>1
    <3>3. net[l] \o <<>> = net[l]
      BY <3>2
    <3> QED
      BY <1>3, <2>1, <3>2, <3>3
  <2>2. CASE l[1] # n
    BY <1>3, <2>2
  <2> QED
    BY <2>1, <2>2
<1>6. Packets(net'[<<n, s>>]) \subseteq Packets(net[<<n, s>>]) \cup Packets(t)
  BY <1>1, <1>3, <1>4, ConcatPackets
<1> QED
  BY <1>4, <1>5, <1>6

\* on_send_graft_timer asks the first announcer.
LEMMA LoneOnSendGraftTimer ==
  ASSUME TypeInv, NearInv, LoneOf, NEW n \in Nodes, NEW k \in SwarmMessages,
         OnSendGraftTimer(n, k)
  PROVE  LoneOf'
<1>1. UNCHANGED <<queue, received, cache, author>>
  BY DEF OnSendGraftTimer
<1>2. CASE k \in received[n] \/ missing[n][k] = {}
  <2>1. UNCHANGED <<eager, missing, net>>
    BY <1>2 DEF OnSendGraftTimer
  <2> QED
    BY <1>1, <2>1, LoneIdle
<1>3. CASE ~(k \in received[n] \/ missing[n][k] = {})
  <2>1. k = Lone /\ Lone \notin received[n]
    BY <1>3 DEF LoneOf, LoneTalk
  <2>a. PICK first \in missing[n][k] :
          /\ missing' = [missing EXCEPT ![n][k] = @ \ {first}]
          /\ AddEager(n, first.peer)
          /\ net' = Transmit(net, n, [p \in Nodes |-> IF p = first.peer
                                        THEN <<Graft(k)>> ELSE <<>>])
    BY <1>3, Zenon DEF OnSendGraftTimer
  <2>2. /\ first \in missing[n][Lone]
        /\ missing' = [missing EXCEPT ![n][Lone] = @ \ {first}]
        /\ AddEager(n, first.peer)
        /\ net' = Transmit(net, n, [p \in Nodes |-> IF p = first.peer
                                      THEN <<Graft(Lone)>> ELSE <<>>])
    BY <2>1, <2>a
  <2>3. PICK s : s = first.peer
    OBVIOUS
  <2>4. s \in Near(n)
    BY <2>2, <2>3, LoneAssumption DEF NearInv, ClaimsNear
  <2>5. s \in Nodes /\ s # n /\ n \in Near(s) /\ <<s, n>> \in Links /\ <<n, s>> \in Links
    BY <2>4, NearLinks
  <2>6. first \in Claims(s, n)
    BY <2>2, <2>3 DEF Claims
  <2>7. Lone \in received[s] /\ Recorded(s, n) /\ queue[n][s] = <<>>
    <3>1. LinkOf(s, n)
      BY <2>5 DEF LoneOf, LinkInv
    <3>2. Lone \in received[s]
      BY <2>1, <2>6, <3>1 DEF LinkOf, Untold
    <3>3. Told(s, n)
      BY <2>1, <3>1, <3>2 DEF LinkOf
    <3> QED
      BY <2>6, <3>2, <3>3 DEF Told, Pushed, Noted, Announced, Asked
  <2>8. /\ LazyLink(s, n) /\ Claims(s, n) = {first}
        /\ net[<<s, n>>] = <<>> /\ net[<<n, s>>] = <<>> /\ queue[s][n] = <<>>
    BY <2>6, <2>7 DEF Recorded, Between
  <2>9. Graft(Lone) \in Packet /\ About(Graft(Lone))
    BY LoneAssumption DEF Graft, Packet, About
  <2>10. /\ net'[<<n, s>>] = net[<<n, s>>] \o <<Graft(Lone)>>
         /\ \A l \in Links : l # <<n, s>> => net'[l] = net[l]
         /\ \A l \in Links : Packets(net'[l]) \subseteq Packets(net[l]) \cup Packets(<<Graft(Lone)>>)
    <3>1. <<Graft(Lone)>> \in Seq(Packet)
      BY <2>9
    <3> QED
      BY <2>2, <2>3, <2>5, <3>1, SentToOne
  <2>11. net'[<<n, s>>] = <<Graft(Lone)>> /\ net'[<<s, n>>] = <<>>
    <3>1. <<>> \o <<Graft(Lone)>> = <<Graft(Lone)>>
      OBVIOUS
    <3> QED
      BY <2>5, <2>8, <2>10, <3>1
  <2>12. /\ s \in eager'[n] /\ n \notin eager'[s]
         /\ \A a, b \in Nodes : <<a, b>> # <<n, s>> => (b \in eager'[a] <=> b \in eager[a])
    <3>1. \A a, b \in Nodes : <<a, b>> # <<n, s>> => (b \in eager'[a] <=> b \in eager[a])
      BY <2>2, <2>3 DEF AddEager, TypeInv, PeerInv
    <3>2. s \in eager'[n]
      BY <2>2, <2>3 DEF AddEager, TypeInv, PeerInv
    <3> QED
      BY <2>5, <2>8, <3>1, <3>2 DEF LazyLink
  <2>13. /\ missing'[n][Lone] = missing[n][Lone] \ {first}
         /\ \A x \in Nodes, m \in SwarmMessages :
              <<x, m>> # <<n, Lone>> => missing'[x][m] = missing[x][m]
    BY <2>2, LoneAssumption DEF TypeInv, LocalInv
  <2>14. Claims(s, n)' = {}
    BY <2>8, <2>13 DEF Claims
  <2>15. LocalStep(s, n)
    <3>1. ASSUME NEW a \in Nodes, NEW b \in Nodes, <<a, b>> # <<s, n>>
          PROVE  Claims(a, b)' = Claims(a, b)
      <4>1. CASE b # n
        BY <2>13, <4>1, LoneAssumption DEF Claims
      <4>2. CASE b = n
        <5>1. a # s
          BY <3>1, <4>2
        <5> QED
          BY <2>3, <2>13, <4>2, <5>1 DEF Claims
      <4> QED
        BY <4>1, <4>2
    <3> QED
      BY <1>1, <2>10, <2>12, <3>1 DEF LocalStep
  <2>16. LinkInv'
    <3>1. Asked(s, n)'
      BY <1>1, <2>8, <2>11, <2>12, <2>14 DEF Asked, Between
    <3>2. LinkOf(s, n)' /\ LinkOf(n, s)'
      BY <1>1, <2>1, <2>7, <3>1 DEF LinkOf, Told
    <3> QED
      BY <2>4, <2>15, <3>2, LocalLinks DEF LoneOf
  <2>17. BondInv'
    <3>1. ~Bond(s, n) /\ ~Bond(n, s)
      BY <2>1, <2>8 DEF Bond, LazyLink
    <3> QED
      BY <2>4, <2>15, <3>1, LocalBonds DEF LoneOf
  <2>18. LoneTalk'
    <3>1. \A l \in Links : \A pkt \in Packets(net'[l]) : About(pkt)
      BY <2>9, <2>10, ShortPackets DEF LoneOf, LoneTalk
    <3> QED
      BY <1>1, <2>13, <3>1 DEF LoneOf, LoneTalk, About
  <2> QED
    BY <2>16, <2>17, <2>18 DEF LoneOf
<1> QED
  BY <1>2, <1>3

\* on_dispatch_timer announces Lone to those it was noted for.
LEMMA LoneOnDispatchTimer ==
  ASSUME TypeInv, NearInv, LoneOf, NEW n \in Nodes, OnDispatchTimer(n)
  PROVE  LoneOf'
<1>1. PICK out : /\ net' = Transmit(net, n, out)
                 /\ out = [p \in Nodes |-> IF queue[n][p] # <<>>
                             THEN <<IHave(queue[n][p])>> ELSE <<>>]
  BY DEF OnDispatchTimer
<1>2. /\ queue' = [queue EXCEPT ![n] = [p \in Nodes |-> <<>>]]
      /\ UNCHANGED <<eager, missing, received, cache, author>>
  BY DEF OnDispatchTimer
<1>3. ASSUME NEW p \in Nodes
      PROVE  /\ out[p] \in Seq(Packet)
             /\ queue[n][p] = <<>> => out[p] = <<>>
             /\ queue[n][p] # <<>> => out[p] = <<IHave(queue[n][p])>>
             /\ \A x \in Packets(out[p]) : x.kind = "IHave" /\ About(x)
  <2>1. queue[n][p] \in Seq(Announcement)
    BY TypedStreams
  <2>2. IHave(queue[n][p]) \in Packet
    BY <2>1, SwarmPackets DEF SwarmPacket, Packet
  <2>3. IHave(queue[n][p]).kind = "IHave" /\ About(IHave(queue[n][p]))
    BY DEF IHave, About, LoneOf, LoneTalk
  <2>4. CASE queue[n][p] # <<>>
    <3>1. out[p] = <<IHave(queue[n][p])>>
      BY <1>1, <2>4
    <3> QED
      BY <2>2, <2>3, <2>4, <3>1, ShortPackets
  <2>5. CASE queue[n][p] = <<>>
    <3>1. out[p] = <<>>
      BY <1>1, <2>5
    <3> QED
      BY <2>5, <3>1, NoPackets
  <2> QED
    BY <2>4, <2>5
<1>4. out \in [Nodes -> Seq(Packet)] /\ net \in Streams
  BY <1>1, <1>3, TypedStreams
<1>5. ASSUME NEW l \in Links
      PROVE  /\ l[1] \in Nodes /\ l[2] \in Nodes /\ net[l] \in Seq(Packet)
             /\ l[1] = n => net'[l] = net[l] \o out[l[2]]
             /\ l[1] # n \/ queue[n][l[2]] = <<>> => net'[l] = net[l]
             /\ Packets(net[l]) \subseteq Packets(net'[l])
             /\ \A x \in Packets(net'[l]) :
                  x \in Packets(net[l]) \/ (x.kind = "IHave" /\ About(x))
  <2>1. /\ l[1] \in Nodes /\ l[2] \in Nodes /\ net[l] \in Seq(Packet)
        /\ out[l[2]] \in Seq(Packet)
        /\ net'[l] = IF l[1] = n THEN net[l] \o out[l[2]] ELSE net[l]
    <3>1. l[1] \in Nodes /\ l[2] \in Nodes
      BY DEF Links
    <3>2. net' = Transmit(net, n, out)
      BY <1>1
    <3>3. /\ net[l] \in Seq(Packet) /\ out[l[2]] \in Seq(Packet)
          /\ Transmit(net, n, out)[l] = IF l[1] = n THEN net[l] \o out[l[2]] ELSE net[l]
      BY <1>4, TransmitIs
    <3> QED
      BY <3>1, <3>2, <3>3
  <2>2. CASE l[1] = n
    <3>1. /\ Packets(net[l]) \subseteq Packets(net[l] \o out[l[2]])
          /\ Packets(net[l] \o out[l[2]]) \subseteq Packets(net[l]) \cup Packets(out[l[2]])
      BY <2>1, ConcatKeeps, ConcatPackets
    <3>2. net[l] \o <<>> = net[l]
      BY <2>1
    <3>3. net'[l] = net[l] \o out[l[2]]
      BY <2>1, <2>2
    <3>4. queue[n][l[2]] = <<>> => net'[l] = net[l]
      BY <1>3, <2>1, <3>2, <3>3
    <3>5. \A x \in Packets(out[l[2]]) : x.kind = "IHave" /\ About(x)
      BY <1>3, <2>1
    <3> QED
      BY <2>1, <2>2, <3>1, <3>3, <3>4, <3>5
  <2>3. CASE l[1] # n
    BY <2>1, <2>3
  <2> QED
    BY <2>2, <2>3
<1>6. \A x, p \in Nodes : queue'[x][p] = IF x = n THEN <<>> ELSE queue[x][p]
  BY <1>2 DEF TypeInv, QueueInv
<1>7. LinkInv'
  <2> SUFFICES ASSUME NEW a \in Nodes, NEW b \in Near(a) PROVE LinkOf(a, b)'
    BY DEF LinkInv, Near
  <2>1. /\ b \in Nodes /\ a # b /\ a \in Near(b) /\ <<a, b>> \in Links /\ <<b, a>> \in Links
        /\ LinkOf(a, b) /\ LinkOf(b, a)
    BY NearLinks DEF LoneOf, LinkInv
  <2>2. Claims(a, b)' = Claims(a, b)
    BY <1>2 DEF Claims
  <2>3. CASE ~(a = n /\ queue[n][b] # <<>>) /\ ~(b = n /\ queue[n][a] # <<>>)
    <3>1. net'[<<a, b>>] = net[<<a, b>>] /\ net'[<<b, a>>] = net[<<b, a>>]
      BY <1>5, <2>1, <2>3
    <3>2. queue'[a][b] = queue[a][b] /\ queue'[b][a] = queue[b][a]
      BY <1>6, <2>1, <2>3
    <3> QED
      BY <1>2, <2>1, <2>2, <3>1, <3>2, LinkSame
  <2>4. CASE b = n /\ queue[n][a] # <<>>
    <3>1. Lone \in received[n]
      BY <2>1, <2>4 DEF LinkOf, Untold, Told, Between
    <3> QED
      BY <1>2, <2>4, <3>1 DEF LinkOf
  <2>5. CASE a = n /\ queue[n][b] # <<>>
    <3>1. Lone \in received[n]
      BY <2>1, <2>5 DEF LinkOf, Untold, Told, Between
    <3>2. CASE Lone \in received[b]
      BY <1>2, <3>2 DEF LinkOf
    <3>3. CASE Lone \notin received[b]
      <4>1. Told(n, b)
        BY <2>1, <2>5, <3>1, <3>3 DEF LinkOf
      <4>2. Noted(n, b) /\ queue[b][n] = <<>>
        BY <2>5, <4>1 DEF Told, Pushed, Announced, Recorded, Asked, Between
      <4>3. /\ LazyLink(n, b) /\ Claims(n, b) = {} /\ net[<<n, b>>] = <<>>
            /\ net[<<b, n>>] = <<>> /\ queue[n][b] = <<Notice(n)>>
        BY <4>2 DEF Noted, Between
      <4>4. net'[<<n, b>>] = <<IHave(<<Notice(n)>>)>> /\ net'[<<b, n>>] = <<>>
        <5>1. out[b] = <<IHave(<<Notice(n)>>)>> /\ out[b] \in Seq(Packet)
          BY <1>3, <2>1, <2>5, <4>3
        <5>2. <<>> \o out[b] = out[b]
          BY <5>1
        <5>3. net'[<<n, b>>] = net[<<n, b>>] \o out[b]
          BY <1>5, <2>1, <2>5
        <5>4. net'[<<b, n>>] = net[<<b, n>>]
          BY <1>5, <2>1, <2>5
        <5> QED
          BY <4>3, <5>1, <5>2, <5>3, <5>4
      <4>5. Announced(n, b)'
        <5>1. LazyLink(n, b)' /\ Claims(n, b)' = {} /\ Notice(n)' = Notice(n)
          BY <1>2, <4>3 DEF LazyLink, Claims, Notice
        <5>2. queue'[n][b] = <<>>
          BY <1>6, <2>1
        <5> QED
          BY <4>4, <5>1, <5>2 DEF Announced, Between
      <4>6. queue'[b][n] = <<>>
        BY <1>6, <2>1, <2>5, <4>2
      <4> QED
        BY <1>2, <2>5, <3>1, <3>3, <4>5, <4>6 DEF LinkOf, Told
    <3> QED
      BY <3>2, <3>3
  <2> QED
    BY <2>3, <2>4, <2>5
<1>8. BondInv'
  <2> SUFFICES ASSUME NEW x \in Nodes, Lone \in received[x], author[Lone] # x
               PROVE  \E p \in Near(x) : Bond(p, x)'
    BY <1>2 DEF BondInv, Near
  <2>1. PICK p \in Near(x) : Bond(p, x)
    BY DEF LoneOf, BondInv
  <2>2. p \in Nodes /\ <<p, x>> \in Links /\ <<x, p>> \in Links
    BY NearLinks
  <2>3. \A pkt \in Packets(net'[<<p, x>>]) \cup Packets(net'[<<x, p>>]) : Harmless(pkt)
    <3>1. \A pkt : pkt.kind = "IHave" => Harmless(pkt)
      BY DEF Harmless, Calm, Matches
    <3> QED
      BY <1>5, <2>1, <2>2, <3>1 DEF Bond
  <2>4. Bond(p, x)'
    BY <1>2, <1>5, <2>1, <2>2, <2>3 DEF Bond, Harmless
  <2> QED
    BY <2>4
<1>9. LoneTalk'
  <2>1. \A l \in Links : \A pkt \in Packets(net'[l]) : About(pkt)
    BY <1>5 DEF LoneOf, LoneTalk
  <2>2. \A x, p \in Nodes : \A i \in DOMAIN queue'[x][p] : queue'[x][p][i].id = Lone
    BY <1>6 DEF LoneOf, LoneTalk
  <2> QED
    BY <1>2, <2>1, <2>2 DEF LoneOf, LoneTalk, About
<1> QED
  BY <1>7, <1>8, <1>9 DEF LoneOf

\* A stream of one packet about Lone.
LEMMA OneAbout ==
  ASSUME NEW pkt \in Packet, About(pkt)
  PROVE  <<pkt>> \in Seq(Packet) /\ \A x \in Packets(<<pkt>>) : About(x)
<1>1. Packets(<<pkt>>) = {pkt}
  BY ShortPackets
<1>2. \A x \in Packets(<<pkt>>) : x = pkt
  BY <1>1
<1> QED
  BY <1>2

\* What a node that gets Lone from s does: push it on, tell the lazy peers, and
\* ask the promoted ones, who announced it, instead of s.
SwarmOuts(s, n, round, better, out) ==
  \A p \in Nodes :
    /\ p = s => out[p] = IF better = {} THEN <<>> ELSE <<Prune>>
    /\ p \in better => out[p] = <<Graft(NoMessage)>>
    /\ p \in eager[n] /\ p # s => out[p] = <<Gossip(Lone, round)>>
    /\ p \notin better \cup eager[n] => out[p] = <<>>
    /\ out[p] \in Seq(Packet) /\ \A pkt \in Packets(out[p]) : About(pkt)
Better(s, n, round, better) ==
  \A p \in better :
    /\ p \in Near(n) /\ p # s /\ p \notin eager[n] /\ Lone \in received[p]
    /\ cache[p][Lone] < round /\ net[<<p, n>>] = <<>> /\ net[<<n, p>>] = <<>>

\* Whom optimize_tree may promote: a lazy peer that announced Lone and is idle.
LEMMA PromotedAnnounced ==
  ASSUME TypeInv, NearInv, LoneOf, NEW s \in Nodes, NEW n \in Nodes,
         Lone \notin received[n], s \in eager[n], NEW round \in Nat
  PROVE  Better(s, n, round, Promoted(missing[n][Lone], round))
<1> SUFFICES ASSUME NEW c \in missing[n][Lone], c.round < round
             PROVE  /\ c.peer \in Near(n) /\ c.peer # s /\ c.peer \notin eager[n]
                    /\ Lone \in received[c.peer] /\ cache[c.peer][Lone] < round
                    /\ net[<<c.peer, n>>] = <<>> /\ net[<<n, c.peer>>] = <<>>
  BY DEF Better, Promoted
<1>1. PICK p : p = c.peer
  OBVIOUS
<1>2. p \in Near(n)
  BY <1>1, LoneAssumption DEF NearInv, ClaimsNear
<1>3. p \in Nodes /\ n \in Near(p)
  BY <1>2, NearLinks
<1>4. LinkOf(p, n) /\ c \in Claims(p, n)
  BY <1>1, <1>3 DEF LoneOf, LinkInv, Claims
<1>5. Lone \in received[p] /\ Recorded(p, n)
  BY <1>4 DEF LinkOf, Untold, Told, Pushed, Noted, Announced, Asked
<1>6. c.round = cache[p][Lone]
  BY <1>4, <1>5 DEF Recorded
<1> QED
  BY <1>1, <1>2, <1>5, <1>6 DEF Recorded, LazyLink, Between

\* What eager_push and optimize_tree send together.
LEMMA SwarmOutsAre ==
  ASSUME TypeInv, NearInv, NEW s \in Nodes, NEW n \in Nodes, NEW round \in Nat,
         NEW better, Better(s, n, round, better), s # n, s \in eager[n], NEW out,
         out = [p \in Nodes |->
                  EagerPush(n, Lone, round, s)[p]
                  \o [x \in Nodes |-> IF x \in better \ eager[n]
                                      THEN <<Graft(NoMessage)>> ELSE <<>>][p]
                  \o [x \in Nodes |-> IF x \in IF better = {} THEN {} ELSE {s}
                                      THEN <<Prune>> ELSE <<>>][p]]
  PROVE  SwarmOuts(s, n, round, better, out)
<1> SUFFICES ASSUME NEW p \in Nodes
             PROVE  /\ p = s => out[p] = IF better = {} THEN <<>> ELSE <<Prune>>
                    /\ p \in better => out[p] = <<Graft(NoMessage)>>
                    /\ p \in eager[n] /\ p # s => out[p] = <<Gossip(Lone, round)>>
                    /\ p \notin better \cup eager[n] => out[p] = <<>>
                    /\ out[p] \in Seq(Packet) /\ \A pkt \in Packets(out[p]) : About(pkt)
  BY DEF SwarmOuts
<1>1. PICK push, graft, prune :
        /\ push = IF p \in eager[n] \ {n, s} THEN <<Gossip(Lone, round)>> ELSE <<>>
        /\ graft = IF p \in better \ eager[n] THEN <<Graft(NoMessage)>> ELSE <<>>
        /\ prune = IF p \in IF better = {} THEN {} ELSE {s} THEN <<Prune>> ELSE <<>>
  OBVIOUS
<1>2. out[p] = push \o graft \o prune
  BY <1>1 DEF EagerPush
<1>3. /\ Gossip(Lone, round) \in Packet /\ Graft(NoMessage) \in Packet /\ Prune \in Packet
      /\ About(Gossip(Lone, round)) /\ About(Graft(NoMessage)) /\ About(Prune)
  BY LoneAssumption DEF Gossip, Graft, Prune, Packet, About
<1>s. \A x \in {Gossip(Lone, round), Graft(NoMessage), Prune} :
        <<x>> \in Seq(Packet) /\ \A pkt \in Packets(<<x>>) : About(pkt)
  BY <1>3, OneAbout
<1>4. \A x : <<x>> \o <<>> \o <<>> = <<x>> /\ <<>> \o <<x>> \o <<>> = <<x>>
             /\ <<>> \o <<>> \o <<x>> = <<x>>
  OBVIOUS
<1>5. <<>> \o <<>> \o <<>> = <<>>
  OBVIOUS
<1>6. p \in eager[n] => p # n
  BY NearLinks DEF NearInv, PeersNear
<1>7. p \in better => p # s /\ p \notin eager[n]
  BY DEF Better
<1>8. CASE p = s
  <2>1. push = <<>> /\ graft = <<>> /\ prune = IF better = {} THEN <<>> ELSE <<Prune>>
    BY <1>1, <1>7, <1>8
  <2>2. out[p] = IF better = {} THEN <<>> ELSE <<Prune>>
    BY <1>2, <1>4, <1>5, <2>1
  <2>3. out[p] \in Seq(Packet) /\ \A pkt \in Packets(out[p]) : About(pkt)
    BY <1>s, <2>2, NoPackets
  <2> QED
    BY <1>7, <1>8, <2>2, <2>3
<1>9. CASE p \in better
  <2>1. push = <<>> /\ graft = <<Graft(NoMessage)>> /\ prune = <<>>
    BY <1>1, <1>7, <1>9
  <2>2. out[p] = <<Graft(NoMessage)>>
    BY <1>2, <1>4, <2>1
  <2>3. out[p] \in Seq(Packet) /\ \A pkt \in Packets(out[p]) : About(pkt)
    BY <1>s, <2>2, NoPackets
  <2> QED
    BY <1>7, <1>9, <2>2, <2>3
<1>10. CASE p \in eager[n] /\ p # s
  <2>1. push = <<Gossip(Lone, round)>> /\ graft = <<>> /\ prune = <<>>
    BY <1>1, <1>6, <1>10
  <2>2. out[p] = <<Gossip(Lone, round)>>
    BY <1>2, <1>4, <2>1
  <2>3. out[p] \in Seq(Packet) /\ \A pkt \in Packets(out[p]) : About(pkt)
    BY <1>s, <2>2, NoPackets
  <2> QED
    BY <1>7, <1>10, <2>2, <2>3
<1>11. CASE p \notin better \cup eager[n]
  <2>1. push = <<>> /\ graft = <<>> /\ prune = <<>>
    BY <1>1, <1>11
  <2>2. out[p] = <<>>
    BY <1>2, <1>5, <2>1
  <2>3. out[p] \in Seq(Packet) /\ \A pkt \in Packets(out[p]) : About(pkt)
    BY <2>2, NoPackets
  <2> QED
    BY <1>11, <2>2, <2>3
<1> QED
  BY <1>8, <1>9, <1>10, <1>11

\* on_gossip with a new payload, as what it leaves behind.
LEMMA LoneArrives ==
  ASSUME TypeInv, NearInv, StableInv, LoneOf, NEW s \in Nodes, NEW n \in Nodes,
         OnGossipSwarm(s, n)
  PROVE  /\ Lone \notin received[n] /\ Lone \in received[s] /\ Pushed(s, n)
         /\ s \in Near(n) /\ cache[s][Lone] \in Nat
         /\ \E better, out :
              /\ Better(s, n, cache[s][Lone] + 1, better)
              /\ SwarmOuts(s, n, cache[s][Lone] + 1, better, out)
              /\ received' = [received EXCEPT ![n] = @ \cup {Lone}]
              /\ cache' = [cache EXCEPT ![n][Lone] = cache[s][Lone] + 1]
              /\ LazyPush(n, Lone, cache[s][Lone] + 1, s)
              /\ missing' = [missing EXCEPT ![n][Lone] = {}]
              /\ eager' = [eager EXCEPT ![n] = (@ \cup better) \ IF better = {} THEN {} ELSE {s}]
              /\ net' = Transmit(Taken(s, n), n, out)
              /\ out \in [Nodes -> Seq(Packet)]
              /\ author' = author
<1>1. PICK m, hops : /\ m = Head(net[<<s, n>>]).id
                     /\ hops = Head(net[<<s, n>>]).scope
  OBVIOUS
<1> DEFINE better == Promoted(missing[n][m], hops + 1)
<1>2. /\ Incoming(s, n, "Gossip") /\ m \in SwarmMessages \ received[n]
      /\ received' = [received EXCEPT ![n] = @ \cup {m}]
      /\ cache' = [cache EXCEPT ![n][m] = hops + 1]
      /\ LazyPush(n, m, hops + 1, s)
      /\ missing' = [missing EXCEPT ![n][m] = {}]
      /\ eager' = [eager EXCEPT ![n] = (@ \cup better) \ IF better = {} THEN {} ELSE {s}]
      /\ author' = author
  BY <1>1, Zenon DEF OnGossipSwarm
<1>3. PICK out :
        /\ net' = Transmit(Taken(s, n), n, out)
        /\ out = [p \in Nodes |->
                  EagerPush(n, m, hops + 1, s)[p]
                  \o [x \in Nodes |-> IF x \in better \ eager[n]
                                      THEN <<Graft(NoMessage)>> ELSE <<>>][p]
                  \o [x \in Nodes |-> IF x \in IF better = {} THEN {} ELSE {s}
                                      THEN <<Prune>> ELSE <<>>][p]]
  BY <1>1, Zenon DEF OnGossipSwarm
<1>4. /\ <<s, n>> \in Links /\ s # n
      /\ Head(net[<<s, n>>]) \in Packets(net[<<s, n>>])
      /\ Head(net[<<s, n>>]).kind = "Gossip"
  BY <1>2, Arriving
<1>5. m = Lone
  BY <1>1, <1>4 DEF LoneOf, LoneTalk, About
<1>6. Lone \notin received[n] /\ Lone \in received[s] /\ Pushed(s, n) /\ s \in Near(n)
  BY <1>2, <1>5, Arrives DEF LoneOf
<1>7. cache[s][Lone] \in Nat
  BY <1>6, LoneAssumption DEF StableInv, PayloadsKept, TypeInv, LocalInv
<1>8. hops = cache[s][Lone]
  <2>1. net[<<s, n>>] = <<Gossip(Lone, cache[s][Lone])>>
    BY <1>6 DEF Pushed, Between
  <2> QED
    BY <1>1, <2>1 DEF Gossip
<1>9. PICK b : b = better
  OBVIOUS
<1>10. b = Promoted(missing[n][Lone], cache[s][Lone] + 1)
  BY <1>5, <1>8, <1>9
<1>11. s \in eager[n]
  BY <1>6 DEF Pushed, EagerLink
<1> HIDE DEF better
<1>12. Better(s, n, cache[s][Lone] + 1, b)
  BY <1>6, <1>7, <1>10, <1>11, PromotedAnnounced
<1>13. SwarmOuts(s, n, cache[s][Lone] + 1, b, out)
  <2>1. out = [p \in Nodes |->
                  EagerPush(n, Lone, cache[s][Lone] + 1, s)[p]
                  \o [x \in Nodes |-> IF x \in b \ eager[n]
                                      THEN <<Graft(NoMessage)>> ELSE <<>>][p]
                  \o [x \in Nodes |-> IF x \in IF b = {} THEN {} ELSE {s}
                                      THEN <<Prune>> ELSE <<>>][p]]
    BY <1>3, <1>5, <1>8, <1>9, Zenon
  <2>2. cache[s][Lone] + 1 \in Nat
    BY <1>7
  <2> QED
    BY <1>4, <1>11, <1>12, <2>1, <2>2, SwarmOutsAre
<1>14. out \in [Nodes -> Seq(Packet)]
  BY <1>3, <1>13 DEF SwarmOuts
<1>15. /\ received' = [received EXCEPT ![n] = @ \cup {Lone}]
       /\ cache' = [cache EXCEPT ![n][Lone] = cache[s][Lone] + 1]
       /\ LazyPush(n, Lone, cache[s][Lone] + 1, s)
       /\ missing' = [missing EXCEPT ![n][Lone] = {}]
       /\ eager' = [eager EXCEPT ![n] = (@ \cup b) \ IF b = {} THEN {} ELSE {s}]
       /\ author' = author
  BY <1>2, <1>5, <1>8, <1>9, Zenon
<1> QED
  BY <1>3, <1>6, <1>7, <1>12, <1>13, <1>14, <1>15, Zenon

\* lazy_push, link by link.
LEMMA LazyPushEntry ==
  ASSUME TypeInv, NEW n \in Nodes, NEW m, NEW round, NEW from, LazyPush(n, m, round, from)
  PROVE  \A x, p \in Nodes :
           queue'[x][p] = IF x = n /\ p \in lazy[n] \ {from}
                          THEN Append(queue[x][p], [id |-> m, round |-> round])
                          ELSE queue[x][p]
BY TypedStreams DEF LazyPush

\* Whoever gets Lone tells the neighbours that lack it, by a push or a note.
LEMMA LoneIsTold ==
  ASSUME TypeInv, StableInv, NEW n \in Nodes, NEW b \in Near(n), Untold(n, b), Untold(b, n),
         NEW round, NEW from, b # from, LazyPush(n, Lone, round, from),
         b \in eager'[n] <=> b \in eager[n], n \in eager'[b] <=> n \in eager[b],
         cache'[n][Lone] = round, Claims(n, b)' = Claims(n, b),
         net'[<<b, n>>] = net[<<b, n>>],
         b \in eager[n] => net'[<<n, b>>] = net[<<n, b>>] \o <<Gossip(Lone, round)>>,
         b \notin eager[n] => net'[<<n, b>>] = net[<<n, b>>]
  PROVE  Told(n, b)'
<1>1. b \in Nodes /\ b # n /\ b \in eager[n] \cup lazy[n]
  BY NearLinks DEF StableInv, PeersKept
<1>2. /\ net[<<n, b>>] = <<>> /\ net[<<b, n>>] = <<>>
      /\ queue[n][b] = <<>> /\ queue[b][n] = <<>>
      /\ Claims(n, b) = {} /\ (b \in eager[n] <=> n \in eager[b])
  BY DEF Untold, Between
<1>q. \A x, p \in Nodes :
        queue'[x][p] = IF x = n /\ p \in lazy[n] \ {from}
                       THEN Append(queue[x][p], [id |-> Lone, round |-> round])
                       ELSE queue[x][p]
  BY LazyPushEntry
<1>3. queue'[b][n] = <<>>
  BY <1>1, <1>2, <1>q
<1>4. CASE b \in eager[n]
  <2>1. b \notin lazy[n]
    BY <1>4 DEF TypeInv, PeerInv
  <2>2. queue'[n][b] = <<>>
    BY <1>1, <1>2, <1>q, <2>1
  <2>3. <<>> \o <<Gossip(Lone, round)>> = <<Gossip(Lone, round)>>
    OBVIOUS
  <2>4. net'[<<n, b>>] = <<Gossip(Lone, round)>>
    BY <1>2, <1>4, <2>3
  <2>5. Pushed(n, b)'
    BY <1>2, <1>4, <2>2, <2>4 DEF Pushed, EagerLink, Between
  <2> QED
    BY <1>3, <2>5 DEF Told
<1>5. CASE b \notin eager[n]
  <2>1. queue'[n][b] = Append(<<>>, [id |-> Lone, round |-> round])
    BY <1>1, <1>2, <1>5, <1>q
  <2>2. Append(<<>>, [id |-> Lone, round |-> round]) = <<[id |-> Lone, round |-> round]>>
    OBVIOUS
  <2>3. queue'[n][b] = <<Notice(n)'>>
    BY <2>1, <2>2 DEF Notice
  <2>4. Noted(n, b)'
    BY <1>2, <1>5, <2>3 DEF Noted, LazyLink, Between
  <2> QED
    BY <1>3, <2>4 DEF Told
<1> QED
  BY <1>4, <1>5

\* A link of which neither end is n.
LEMMA LoneElsewhere ==
  ASSUME TypeInv, LoneOf, NEW n \in Nodes,
         \A x \in Nodes \ {n} :
           /\ received'[x] = received[x] /\ cache'[x] = cache[x] /\ eager'[x] = eager[x]
           /\ missing'[x] = missing[x] /\ queue'[x] = queue[x],
         author'[Lone] = author[Lone] \/ \A x \in Nodes : Lone \notin received[x],
         \A l \in Links : l[1] # n /\ l[2] # n => net'[l] = net[l],
         Lone \notin received[n]
  PROVE  /\ \A a \in Nodes \ {n} : \A b \in Near(a) \ {n} : LinkOf(a, b)'
         /\ \A x \in Nodes \ {n} : Lone \in received'[x] /\ author'[Lone] # x
              => \E p \in Near(x) : Bond(p, x)'
<1>1. ASSUME NEW a \in Nodes \ {n}, NEW b \in Near(a) \ {n} PROVE LinkOf(a, b)'
  <2>1. b \in Nodes \ {n} /\ <<a, b>> \in Links /\ <<b, a>> \in Links /\ LinkOf(a, b)
    BY <1>1, NearLinks DEF LoneOf, LinkInv
  <2>2. net'[<<a, b>>] = net[<<a, b>>] /\ net'[<<b, a>>] = net[<<b, a>>]
    BY <2>1
  <2>3. Claims(a, b)' = Claims(a, b)
    BY <2>1 DEF Claims
  <2> QED
    BY <2>1, <2>2, <2>3, LinkSame
<1>2. ASSUME NEW x \in Nodes \ {n}, Lone \in received'[x], author'[Lone] # x
      PROVE  \E p \in Near(x) : Bond(p, x)'
  <2>1. Lone \in received[x] /\ author[Lone] # x
    BY <1>2
  <2>2. PICK p \in Near(x) : Bond(p, x)
    BY <2>1 DEF LoneOf, BondInv
  <2>3. p \in Nodes /\ p # n /\ <<p, x>> \in Links /\ <<x, p>> \in Links
    BY <2>2, NearLinks DEF Bond
  <2>4. net'[<<p, x>>] = net[<<p, x>>] /\ net'[<<x, p>>] = net[<<x, p>>]
    BY <2>3
  <2>5. Bond(p, x)'
    BY <2>2, <2>3, <2>4 DEF Bond
  <2> QED
    BY <2>5
<1> QED
  BY <1>1, <1>2

\* lazy_push notes nothing but Lone.
LEMMA LoneIsNoted ==
  ASSUME TypeInv, LoneTalk, NEW n \in Nodes, NEW round, NEW from, LazyPush(n, Lone, round, from)
  PROVE  \A x, p \in Nodes : \A i \in DOMAIN queue'[x][p] : queue'[x][p][i].id = Lone
<1> SUFFICES ASSUME NEW x \in Nodes, NEW p \in Nodes, NEW i \in DOMAIN queue'[x][p]
             PROVE  queue'[x][p][i].id = Lone
  OBVIOUS
<1>1. PICK entry : entry = [id |-> Lone, round |-> round]
  OBVIOUS
<1>2. queue'[x][p] = IF x = n /\ p \in lazy[n] \ {from}
                     THEN Append(queue[x][p], [id |-> Lone, round |-> round])
                     ELSE queue[x][p]
  BY LazyPushEntry
<1>3. queue[x][p] \in Seq(Announcement)
  BY TypedStreams
<1>4. ASSUME NEW q \in Seq(Announcement), NEW j \in DOMAIN Append(q, entry)
      PROVE  Append(q, entry)[j] = entry \/ (j \in DOMAIN q /\ Append(q, entry)[j] = q[j])
  OBVIOUS
<1>5. queue'[x][p][i] = entry \/ (i \in DOMAIN queue[x][p] /\ queue'[x][p][i] = queue[x][p][i])
  <2>1. CASE x = n /\ p \in lazy[n] \ {from}
    <3>1. queue'[x][p] = Append(queue[x][p], entry)
      BY <1>1, <1>2, <2>1
    <3> QED
      BY <1>3, <1>4, <3>1
  <2>2. CASE ~(x = n /\ p \in lazy[n] \ {from})
    <3>1. queue'[x][p] = queue[x][p]
      BY <1>2, <2>2
    <3> QED
      BY <3>1
  <2> QED
    BY <2>1, <2>2
<1> QED
  BY <1>1, <1>5 DEF LoneTalk

\* on_gossip with a new payload: told on every link, with s or a promoted peer
\* as the parent.
LEMMA LoneOnGossipSwarm ==
  ASSUME TypeInv, NearInv, StableInv, LoneOf, NEW s \in Nodes, NEW n \in Nodes,
         OnGossipSwarm(s, n)
  PROVE  LoneOf'
<1>1. /\ Lone \notin received[n] /\ Lone \in received[s] /\ Pushed(s, n)
      /\ s \in Near(n) /\ cache[s][Lone] \in Nat
  BY LoneArrives
<1>2. PICK round : round = cache[s][Lone] + 1
  OBVIOUS
<1>3. PICK better, out :
        /\ Better(s, n, round, better) /\ SwarmOuts(s, n, round, better, out)
        /\ received' = [received EXCEPT ![n] = @ \cup {Lone}]
        /\ cache' = [cache EXCEPT ![n][Lone] = round]
        /\ LazyPush(n, Lone, round, s)
        /\ missing' = [missing EXCEPT ![n][Lone] = {}]
        /\ eager' = [eager EXCEPT ![n] = (@ \cup better) \ IF better = {} THEN {} ELSE {s}]
        /\ net' = Transmit(Taken(s, n), n, out)
        /\ out \in [Nodes -> Seq(Packet)] /\ author' = author
  BY <1>2, LoneArrives
<1>4. /\ s # n /\ <<s, n>> \in Links /\ <<n, s>> \in Links /\ s \in Nodes
      /\ n \in Near(s)
  BY <1>1, NearLinks
<1>5. /\ \A x \in Nodes \ {n} :
           /\ received'[x] = received[x] /\ cache'[x] = cache[x] /\ eager'[x] = eager[x]
           /\ missing'[x] = missing[x] /\ queue'[x] = queue[x]
      /\ Lone \in received'[n] /\ cache'[n][Lone] = round
      /\ missing'[n][Lone] = {}
      /\ \A k \in SwarmMessages \ {Lone} : missing'[n][k] = missing[n][k]
      /\ eager'[n] = (eager[n] \cup better) \ IF better = {} THEN {} ELSE {s}
  <2>1. \A x \in Nodes \ {n} : queue'[x] = queue[x]
    BY <1>3 DEF LazyPush, TypeInv, QueueInv
  <2>2. \A x \in Nodes \ {n} :
           /\ received'[x] = received[x] /\ cache'[x] = cache[x] /\ eager'[x] = eager[x]
           /\ missing'[x] = missing[x]
    BY <1>3 DEF TypeInv, LocalInv, PeerInv
  <2>3. Lone \in received'[n] /\ cache'[n][Lone] = round
    BY <1>3, LoneAssumption DEF TypeInv, LocalInv
  <2>4. /\ missing'[n][Lone] = {}
        /\ \A k \in SwarmMessages \ {Lone} : missing'[n][k] = missing[n][k]
    BY <1>3, LoneAssumption DEF TypeInv, LocalInv
  <2>5. eager'[n] = (eager[n] \cup better) \ IF better = {} THEN {} ELSE {s}
    BY <1>3 DEF TypeInv, PeerInv
  <2> QED
    BY <2>1, <2>2, <2>3, <2>4, <2>5
<1>6. /\ EagerLink(s, n) /\ net[<<n, s>>] = <<>>
      /\ net[<<s, n>>] = <<Gossip(Lone, cache[s][Lone])>>
  BY <1>1 DEF Pushed, Between
<1>7. ASSUME NEW l \in Links
      PROVE  /\ l[1] \in Nodes /\ l[2] \in Nodes /\ net[l] \in Seq(Packet)
             /\ l[1] # n /\ l # <<s, n>> => net'[l] = net[l]
             /\ l[1] = n => net'[l] = net[l] \o out[l[2]]
             /\ l = <<s, n>> => net'[l] = <<>>
             /\ \A pkt \in Packets(net'[l]) : About(pkt)
  <2>1. net \in Streams /\ Incoming(s, n, "Gossip")
    BY TypedStreams DEF OnGossipSwarm
  <2>2. /\ Taken(s, n) \in Streams /\ Taken(s, n)[<<s, n>>] = Tail(net[<<s, n>>])
        /\ \A k \in Links : k # <<s, n>> => Taken(s, n)[k] = net[k]
    BY <2>1, TakenIs
  <2>3. l[1] \in Nodes /\ l[2] \in Nodes
    BY DEF Links
  <2>4. net[l] \in Seq(Packet) /\ out[l[2]] \in Seq(Packet)
    BY <1>3, <2>1, <2>3 DEF Streams
  <2>5. net'[l] = IF l[1] = n THEN Taken(s, n)[l] \o out[l[2]] ELSE Taken(s, n)[l]
    <3>1. Transmit(Taken(s, n), n, out)[l]
            = IF l[1] = n THEN Taken(s, n)[l] \o out[l[2]] ELSE Taken(s, n)[l]
      BY <1>3, <2>2, TransmitIs
    <3> QED
      BY <1>3, <3>1
  <2>6. CASE l = <<s, n>>
    <3>1. Tail(<<Gossip(Lone, cache[s][Lone])>>) = <<>>
      OBVIOUS
    <3>2. net'[l] = <<>>
      BY <1>4, <1>6, <2>2, <2>5, <2>6, <3>1
    <3> QED
      BY <1>4, <2>3, <2>4, <2>6, <3>2, NoPackets
  <2>7. CASE l # <<s, n>> /\ l[1] = n
    <3>1. net'[l] = net[l] \o out[l[2]]
      BY <2>2, <2>5, <2>7
    <3>2. Packets(net'[l]) \subseteq Packets(net[l]) \cup Packets(out[l[2]])
      BY <2>4, <3>1, ConcatPackets
    <3>3. \A pkt \in Packets(out[l[2]]) : About(pkt)
      BY <1>3, <2>3 DEF SwarmOuts
    <3> QED
      BY <2>3, <2>4, <2>7, <3>1, <3>2, <3>3 DEF LoneOf, LoneTalk
  <2>8. CASE l # <<s, n>> /\ l[1] # n
    <3>1. net'[l] = net[l]
      BY <2>2, <2>5, <2>8
    <3> QED
      BY <2>3, <2>4, <2>8, <3>1 DEF LoneOf, LoneTalk
  <2> QED
    BY <2>6, <2>7, <2>8
<1>8. LoneTalk'
  <2>1. \A x, p \in Nodes : \A i \in DOMAIN queue'[x][p] : queue'[x][p][i].id = Lone
    BY <1>3, LoneIsNoted DEF LoneOf
  <2>2. \A x \in Nodes, k \in SwarmMessages \ {Lone} : missing'[x][k] = {}
    BY <1>5 DEF LoneOf, LoneTalk
  <2> QED
    BY <1>7, <2>1, <2>2 DEF LoneTalk, About
<1>9. /\ \A a \in Nodes \ {n} : \A b \in Near(a) \ {n} : LinkOf(a, b)'
      /\ \A x \in Nodes \ {n} : Lone \in received'[x] /\ author'[Lone] # x
           => \E p \in Near(x) : Bond(p, x)'
  <2>1. ASSUME NEW l \in Links, l[1] # n, l[2] # n PROVE net'[l] = net[l]
    <3>1. l # <<s, n>>
      BY <2>1
    <3> QED
      BY <1>7, <2>1, <3>1
  <2>2. author'[Lone] = author[Lone]
    BY <1>3
  <2> QED
    BY <1>1, <1>5, <2>1, <2>2, LoneElsewhere
<1>10. ASSUME NEW b \in Near(n) PROVE LinkOf(n, b)'
  <2>1. b \in Nodes /\ b # n /\ n \in Near(b) /\ <<n, b>> \in Links /\ <<b, n>> \in Links
    BY <1>10, NearLinks
  <2>2. CASE Lone \in received[b]
    BY <1>5, <2>1, <2>2 DEF LinkOf
  <2>3. CASE Lone \notin received[b]
    <3>1. Untold(n, b) /\ Untold(b, n)
      BY <1>1, <2>1, <2>3 DEF LoneOf, LinkInv, LinkOf
    <3>2. b # s /\ b \notin better
      BY <1>1, <1>3, <2>3 DEF Better
    <3>3. (b \in eager'[n] <=> b \in eager[n]) /\ (n \in eager'[b] <=> n \in eager[b])
      BY <1>5, <2>1, <3>2
    <3>4. Claims(n, b)' = Claims(n, b)
      BY <1>5, <2>1 DEF Claims
    <3>5. net'[<<b, n>>] = net[<<b, n>>] /\ net'[<<n, b>>] = net[<<n, b>>] \o out[b]
      BY <1>7, <2>1, <3>2
    <3>6. b \in eager[n] => net'[<<n, b>>] = net[<<n, b>>] \o <<Gossip(Lone, round)>>
      BY <1>3, <2>1, <3>2, <3>5 DEF SwarmOuts
    <3>7. b \notin eager[n] => net'[<<n, b>>] = net[<<n, b>>]
      <4>1. net[<<n, b>>] \o <<>> = net[<<n, b>>]
        BY <1>7, <2>1
      <4>2. b \notin eager[n] => out[b] = <<>>
        BY <1>3, <2>1, <3>2 DEF SwarmOuts
      <4> QED
        BY <3>5, <4>1, <4>2
    <3>8. Told(n, b)'
      BY <1>3, <1>5, <1>10, <3>1, <3>2, <3>3, <3>4, <3>5, <3>6, <3>7, LoneIsTold
    <3> QED
      BY <1>5, <3>8 DEF LinkOf
  <2> QED
    BY <2>2, <2>3
<1>11. LinkInv'
  <2> SUFFICES ASSUME NEW a \in Nodes, NEW b \in Near(a) PROVE LinkOf(a, b)'
    BY DEF LinkInv, Near
  <2>1. CASE a = n
    BY <1>10, <2>1
  <2>2. CASE b = n
    BY <1>5, <2>2 DEF LinkOf
  <2>3. CASE a # n /\ b # n
    BY <1>9, <2>3
  <2> QED
    BY <2>1, <2>2, <2>3
<1>12. \E p \in Near(n) : Bond(p, n)'
  <2>1. CASE better = {}
    <3>1. net'[<<s, n>>] = <<>>
      BY <1>4, <1>7
    <3>2. net'[<<n, s>>] = <<>>
      <4>1. out[s] = <<>> /\ net'[<<n, s>>] = net[<<n, s>>] \o out[s]
        BY <1>3, <1>4, <1>7, <2>1 DEF SwarmOuts
      <4>2. <<>> \o <<>> = <<>>
        OBVIOUS
      <4> QED
        BY <1>6, <4>1, <4>2
    <3>3. s \in eager'[n] /\ n \in eager'[s]
      BY <1>4, <1>5, <1>6, <2>1 DEF EagerLink
    <3>4. Lone \in received'[s] /\ cache'[s][Lone] < cache'[n][Lone]
      BY <1>1, <1>2, <1>4, <1>5
    <3>5. Bond(s, n)'
      BY <3>1, <3>2, <3>3, <3>4, NoPackets DEF Bond
    <3> QED
      BY <1>1, <3>5
  <2>2. CASE better # {}
    <3>1. PICK p \in better : TRUE
      BY <2>2
    <3>2. /\ p \in Near(n) /\ p # s /\ p \notin eager[n] /\ Lone \in received[p]
          /\ cache[p][Lone] < round /\ net[<<p, n>>] = <<>> /\ net[<<n, p>>] = <<>>
      BY <1>3, <3>1 DEF Better
    <3>3. p \in Nodes /\ p # n /\ <<p, n>> \in Links /\ <<n, p>> \in Links
      BY <3>2, NearLinks
    <3>4. net'[<<p, n>>] = <<>>
      BY <1>7, <3>2, <3>3
    <3>5. net'[<<n, p>>] = <<Graft(NoMessage)>>
      <4>1. out[p] = <<Graft(NoMessage)>> /\ net'[<<n, p>>] = net[<<n, p>>] \o out[p]
        BY <1>3, <1>7, <3>1, <3>3 DEF SwarmOuts
      <4>2. <<>> \o <<Graft(NoMessage)>> = <<Graft(NoMessage)>>
        OBVIOUS
      <4> QED
        BY <3>2, <4>1, <4>2
    <3>6. p \in eager'[n]
      BY <1>5, <3>1, <3>2
    <3>7. Packets(<<Graft(NoMessage)>>) = {Graft(NoMessage)} /\ Packets(<<>>) = {}
      BY ShortPackets
    <3>8. Harmless(Graft(NoMessage)) /\ Graft(NoMessage).kind = "Graft"
      <4>1. Lone # NoMessage
        BY LoneAssumption, PlumtreeAssumption DEF Messages
      <4> QED
        BY <4>1 DEF Harmless, Calm, Matches, Graft
    <3>9. Lone \in received'[p] /\ cache'[p][Lone] < cache'[n][Lone]
      BY <1>5, <3>2, <3>3
    <3>10. Bond(p, n)'
      BY <3>4, <3>5, <3>6, <3>7, <3>8, <3>9 DEF Bond, Harmless
    <3> QED
      BY <3>2, <3>10
  <2> QED
    BY <2>1, <2>2
<1>13. BondInv'
  <2> SUFFICES ASSUME NEW x \in Nodes, Lone \in received'[x], author'[Lone] # x
               PROVE  \E p \in Near(x) : Bond(p, x)'
    BY DEF BondInv, Near
  <2> QED
    BY <1>9, <1>12
<1> QED
  BY <1>8, <1>11, <1>13 DEF LoneOf

\* When all is quiet and the ends of the links agree, nothing was told of a
\* message that nobody has.
LEMMA QuietIsUntold ==
  ASSUME TypeInv, DispatchInv, ChaseInv, Quiet, LinksAgree,
         \A x \in Nodes : Lone \notin received[x]
  PROVE  LoneOf
<1>1. /\ \A l \in Links : net[l] = <<>> /\ Packets(net[l]) = {}
      /\ \A x, p \in Nodes : queue[x][p] = <<>>
  BY NoPackets DEF Quiet, DispatchInv
<1>2. \A x \in Nodes, m \in SwarmMessages : missing[x][m] = {}
  BY DEF Quiet, ChaseInv
<1>3. LoneTalk
  BY <1>1, <1>2 DEF LoneTalk
<1>4. LinkInv
  <2> SUFFICES ASSUME NEW a \in Nodes, NEW b \in Near(a) PROVE LinkOf(a, b)
    BY DEF LinkInv
  <2>1. b \in Nodes /\ <<a, b>> \in Links /\ <<b, a>> \in Links
    BY NearLinks
  <2>2. Claims(a, b) = {} /\ Between(a, b, <<>>, <<>>, <<>>)
    BY <1>1, <1>2, <2>1, LoneAssumption DEF Claims, Between
  <2>3. Untold(a, b)
    BY <2>1, <2>2 DEF Untold, LinksAgree
  <2> QED
    BY <2>3 DEF LinkOf
<1>5. BondInv
  BY DEF BondInv
<1> QED
  BY <1>3, <1>4, <1>5 DEF LoneOf

\* broadcast: the author tells its neighbours.
LEMMA LoneBroadcast ==
  ASSUME TypeInv, NearInv, StableInv, LoneOf, \A x \in Nodes : Lone \notin received[x],
         NEW n \in Nodes, BroadcastSwarm(n, Lone)
  PROVE  LoneOf'
<1>1. PICK out : out = EagerPush(n, Lone, 0, n) /\ net' = Transmit(net, n, out)
  BY DEF BroadcastSwarm
<1>2. /\ author' = [author EXCEPT ![Lone] = n]
      /\ received' = [received EXCEPT ![n] = @ \cup {Lone}]
      /\ cache' = [cache EXCEPT ![n][Lone] = 0]
      /\ LazyPush(n, Lone, 0, n) /\ UNCHANGED <<eager, lazy, missing>>
  BY DEF BroadcastSwarm
<1>3. /\ \A x \in Nodes \ {n} :
           /\ received'[x] = received[x] /\ cache'[x] = cache[x] /\ queue'[x] = queue[x]
      /\ Lone \in received'[n] /\ cache'[n][Lone] = 0 /\ author'[Lone] = n
  <2>1. \A x \in Nodes \ {n} : queue'[x] = queue[x]
    BY <1>2 DEF LazyPush, TypeInv, QueueInv
  <2>2. \A x \in Nodes \ {n} : received'[x] = received[x] /\ cache'[x] = cache[x]
    BY <1>2 DEF TypeInv, LocalInv
  <2>3. Lone \in received'[n] /\ cache'[n][Lone] = 0
    BY <1>2, LoneAssumption DEF TypeInv, LocalInv
  <2>4. author'[Lone] = n
    BY <1>2, LoneAssumption DEF TypeInv, CounterInv, Messages
  <2> QED
    BY <2>1, <2>2, <2>3, <2>4
<1>4. Gossip(Lone, 0) \in Packet /\ About(Gossip(Lone, 0))
  BY LoneAssumption DEF Gossip, Packet, About
<1>5. ASSUME NEW p \in Nodes
      PROVE  /\ out[p] \in Seq(Packet) /\ \A pkt \in Packets(out[p]) : About(pkt)
             /\ p \in eager[n] => out[p] = <<Gossip(Lone, 0)>>
             /\ p \notin eager[n] => out[p] = <<>>
  <2>1. p \in eager[n] => p # n
    BY NearLinks DEF NearInv, PeersNear
  <2>2. out[p] = IF p \in eager[n] THEN <<Gossip(Lone, 0)>> ELSE <<>>
    BY <1>1, <2>1 DEF EagerPush
  <2>3. <<Gossip(Lone, 0)>> \in Seq(Packet) /\ \A pkt \in Packets(<<Gossip(Lone, 0)>>) : About(pkt)
    BY <1>4, OneAbout
  <2> QED
    BY <2>2, <2>3, NoPackets
<1>6. out \in [Nodes -> Seq(Packet)] /\ net \in Streams
  BY <1>1, <1>5, TypedStreams DEF EagerPush
<1>7. ASSUME NEW l \in Links
      PROVE  /\ l[1] \in Nodes /\ l[2] \in Nodes /\ net[l] \in Seq(Packet)
             /\ l[1] # n => net'[l] = net[l]
             /\ l[1] = n => net'[l] = net[l] \o out[l[2]]
             /\ \A pkt \in Packets(net'[l]) : About(pkt)
  <2>1. l[1] \in Nodes /\ l[2] \in Nodes
    BY DEF Links
  <2>2. /\ net[l] \in Seq(Packet) /\ out[l[2]] \in Seq(Packet)
        /\ Transmit(net, n, out)[l] = IF l[1] = n THEN net[l] \o out[l[2]] ELSE net[l]
    BY <1>6, TransmitIs
  <2>3. CASE l[1] = n
    <3>1. net'[l] = net[l] \o out[l[2]]
      BY <1>1, <2>2, <2>3
    <3>2. Packets(net'[l]) \subseteq Packets(net[l]) \cup Packets(out[l[2]])
      BY <2>2, <3>1, ConcatPackets
    <3>3. \A pkt \in Packets(out[l[2]]) : About(pkt)
      BY <1>5, <2>1
    <3> QED
      BY <2>1, <2>2, <2>3, <3>1, <3>2, <3>3 DEF LoneOf, LoneTalk
  <2>4. CASE l[1] # n
    <3>1. net'[l] = net[l]
      BY <1>1, <2>2, <2>4
    <3> QED
      BY <2>1, <2>2, <2>4, <3>1 DEF LoneOf, LoneTalk
  <2> QED
    BY <2>3, <2>4
<1>8. LoneTalk'
  <2>1. \A x, p \in Nodes : \A i \in DOMAIN queue'[x][p] : queue'[x][p][i].id = Lone
    BY <1>2, LoneIsNoted DEF LoneOf
  <2> QED
    BY <1>2, <1>7, <2>1 DEF LoneOf, LoneTalk, About
<1>9. /\ \A a \in Nodes \ {n} : \A b \in Near(a) \ {n} : LinkOf(a, b)'
      /\ \A x \in Nodes \ {n} : Lone \in received'[x] /\ author'[Lone] # x
           => \E p \in Near(x) : Bond(p, x)'
  <2>1. \A l \in Links : l[1] # n /\ l[2] # n => net'[l] = net[l]
    BY <1>7
  <2> QED
    BY <1>2, <1>3, <2>1, LoneElsewhere
<1>10. ASSUME NEW b \in Near(n) PROVE LinkOf(n, b)'
  <2>1. b \in Nodes /\ b # n /\ n \in Near(b) /\ <<n, b>> \in Links /\ <<b, n>> \in Links
    BY <1>10, NearLinks
  <2>2. Untold(n, b) /\ Untold(b, n)
    BY <2>1 DEF LoneOf, LinkInv, LinkOf
  <2>3. Claims(n, b)' = Claims(n, b)
    BY <1>2 DEF Claims
  <2>4. net'[<<b, n>>] = net[<<b, n>>] /\ net'[<<n, b>>] = net[<<n, b>>] \o out[b]
    BY <1>7, <2>1
  <2>5. b \in eager[n] => net'[<<n, b>>] = net[<<n, b>>] \o <<Gossip(Lone, 0)>>
    BY <1>5, <2>1, <2>4
  <2>6. b \notin eager[n] => net'[<<n, b>>] = net[<<n, b>>]
    <3>1. net[<<n, b>>] \o <<>> = net[<<n, b>>]
      BY <1>7, <2>1
    <3> QED
      BY <1>5, <2>1, <2>4, <3>1
  <2>7. Told(n, b)'
    BY <1>2, <1>3, <1>10, <2>1, <2>2, <2>3, <2>4, <2>5, <2>6, LoneIsTold
  <2> QED
    BY <1>3, <2>7 DEF LinkOf
<1>11. LinkInv'
  <2> SUFFICES ASSUME NEW a \in Nodes, NEW b \in Near(a) PROVE LinkOf(a, b)'
    BY DEF LinkInv, Near
  <2>1. CASE a = n
    BY <1>10, <2>1
  <2>2. CASE b = n
    BY <1>3, <2>2 DEF LinkOf
  <2>3. CASE a # n /\ b # n
    BY <1>9, <2>3
  <2> QED
    BY <2>1, <2>2, <2>3
<1>12. BondInv'
  <2> SUFFICES ASSUME NEW x \in Nodes, Lone \in received'[x], author'[Lone] # x
               PROVE  \E p \in Near(x) : Bond(p, x)'
    BY DEF BondInv, Near
  <2> QED
    BY <1>3, <1>9
<1> QED
  BY <1>8, <1>11, <1>12 DEF LoneOf

\* A message that is taken while Lone is out.
LEMMA LoneReceive ==
  ASSUME TypeInv, NearInv, StableInv, LoneOf, NEW s \in Nodes, NEW n \in Nodes,
         Receive(s, n)
  PROVE  LoneOf'
<1>0. ASSUME Incoming(s, n, "Gossip") PROVE Head(net[<<s, n>>]).id = Lone
  <2>1. /\ <<s, n>> \in Links /\ Head(net[<<s, n>>]) \in Packets(net[<<s, n>>])
        /\ Head(net[<<s, n>>]).kind = "Gossip"
    BY <1>0, Arriving
  <2> QED
    BY <2>1 DEF LoneOf, LoneTalk, About
<1>1. CASE OnGossipEcho(s, n)
  <2>1. /\ Incoming(s, n, "Gossip") /\ Head(net[<<s, n>>]).id \in received[n]
        /\ net' = Taken(s, n) /\ UNCHANGED <<eager, queue, missing, received, cache, author>>
    BY <1>1 DEF OnGossipEcho
  <2>2. Exchange(s, n, <<>>) /\ <<>> \in Seq(Packet) /\ Packets(<<>>) = {}
    BY <2>1, TakenExchange, NoPackets
  <2>3. Lone \in received[n]
    BY <1>0, <2>1
  <2> QED
    BY <2>1, <2>2, <2>3, LoneCuts
<1>2. CASE OnGossipDuplicate(s, n)
  <2>1. /\ Incoming(s, n, "Gossip") /\ Head(net[<<s, n>>]).id \in received[n]
        /\ net' = Transmit(Taken(s, n), n, [p \in Nodes |-> IF p = s THEN <<Prune>> ELSE <<>>])
        /\ AddLazy(n, s) /\ UNCHANGED <<queue, missing, received, cache, author>>
    BY <1>2 DEF OnGossipDuplicate
  <2>2. Prune \in Packet /\ About(Prune)
    BY DEF Prune, Packet, About
  <2>3. <<Prune>> \in Seq(Packet) /\ \A pkt \in Packets(<<Prune>>) : About(pkt)
    BY <2>2, OneAbout
  <2>4. Exchange(s, n, <<Prune>>)
    BY <2>1, <2>3, Exchanged
  <2>5. \A a, b \in Nodes : <<a, b>> # <<n, s>> => (b \in eager'[a] <=> b \in eager[a])
    BY <2>1 DEF AddLazy, TypeInv, PeerInv
  <2>6. Lone \in received[n]
    BY <1>0, <2>1
  <2> QED
    BY <2>1, <2>3, <2>4, <2>5, <2>6, LoneCuts
<1>3. CASE OnPrune(s, n)
  <2>1. /\ Incoming(s, n, "Prune") /\ net' = Taken(s, n) /\ AddLazy(n, s)
        /\ UNCHANGED <<queue, missing, received, cache, author>>
    BY <1>3 DEF OnPrune
  <2>2. Exchange(s, n, <<>>) /\ <<>> \in Seq(Packet) /\ Packets(<<>>) = {}
    BY <2>1, TakenExchange, NoPackets
  <2>3. \A a, b \in Nodes : <<a, b>> # <<n, s>> => (b \in eager'[a] <=> b \in eager[a])
    BY <2>1 DEF AddLazy, TypeInv, PeerInv
  <2> QED
    BY <2>1, <2>2, <2>3, LoneCuts
<1>4. ~OnGossipNeighbors(s, n)
  BY <1>0, LoneAssumption, PlumtreeAssumption DEF OnGossipNeighbors
<1> QED
  BY <1>1, <1>2, <1>3, <1>4, LoneOnIHave, LoneOnGraft, LoneOnGossipSwarm DEF Receive

\* Every step, for as long as nothing is broadcast after Lone.
LEMMA LoneStep ==
  ASSUME Stable, TypeInv, NearInv, StableInv, DispatchInv, ChaseInv, LoneInv,
         [Next /\ RunsAlone]_vars
  PROVE  LoneInv'
<1> SUFFICES ASSUME author'[Lone] # NoNode PROVE LoneOf'
  BY DEF LoneInv, LoneOf
<1>1. CASE UNCHANGED vars
  <2>1. UNCHANGED <<eager, queue, missing, received, cache, author, net>>
    BY <1>1 DEF vars, protocolVars
  <2>2. LoneOf
    BY <2>1 DEF LoneInv, LoneOf
  <2> QED
    BY <2>1, <2>2, LoneIdle
<1>2. CASE Next /\ RunsAlone
  <2>1. ASSUME NEW n \in Nodes, NEW m \in Messages, author[m] = NoNode,
               author' = [author EXCEPT ![m] = n]
        PROVE  m = Lone
    <3>1. author[Lone] = NoNode
      <4>1. author'[m] = n /\ n # NoNode
        BY <2>1, PlumtreeAssumption DEF TypeInv, CounterInv
      <4> QED
        BY <1>2, <2>1, <4>1 DEF RunsAlone
    <3> QED
      BY <2>1, <3>1, LoneAssumption DEF TypeInv, CounterInv, Messages
  <2>2. ASSUME NEW n \in Nodes, NEW m \in SwarmMessages, BroadcastSwarm(n, m)
        PROVE  LoneOf'
    <3>1. m = Lone /\ author[Lone] = NoNode
      BY <2>1, <2>2 DEF BroadcastSwarm, Messages
    <3>2. Quiet /\ LinksAgree
      BY <1>2, <3>1 DEF RunsAlone
    <3>3. \A x \in Nodes : Lone \notin received[x]
      BY <3>1 DEF TypeInv, LocalInv, Known
    <3>4. LoneOf
      BY <3>2, <3>3, QuietIsUntold
    <3> QED
      BY <2>2, <3>1, <3>3, <3>4, LoneBroadcast
  <2>3. ASSUME NEW n \in Nodes, NEW m \in NeighborMessages, BroadcastNeighbors(n, m)
        PROVE  FALSE
    <3>1. m = Lone
      BY <2>1, <2>3 DEF BroadcastNeighbors, Messages
    <3> QED
      BY <3>1, LoneAssumption, PlumtreeAssumption
  <2>4. ASSUME NEW s \in Nodes, NEW n \in Nodes, Receive(s, n) \/ Timer(n)
        PROVE  LoneOf
    <3>1. author' = author
      BY <2>4 DEF Receive, OnGossipEcho, OnGossipDuplicate, OnGossipSwarm, OnGossipNeighbors,
         OnPrune, OnIHave, OnGraft, Timer, OnDispatchTimer, OnSendGraftTimer
    <3> QED
      BY <3>1 DEF LoneInv, LoneOf
  <2>5. ASSUME NEW s \in Nodes, NEW n \in Nodes, Receive(s, n) PROVE LoneOf'
    BY <2>4, <2>5, LoneReceive
  <2>6. ASSUME NEW n \in Nodes, Timer(n) PROVE LoneOf'
    BY <2>4, <2>6, LoneOnDispatchTimer, LoneOnSendGraftTimer DEF Timer
  <2> QED
    BY <1>2, <2>2, <2>3, <2>5, <2>6, NoDisturbance DEF Next
<1> QED
  BY <1>1, <1>2

\* Once nothing travels, the bonds are parents.
LEMMA LoneSpans ==
  ASSUME TypeInv, StableInv, LoneInv, QuietMeansDelivered
  PROVE  LoneBroadcastRepairsTree
<1> SUFFICES ASSUME author[Lone] # NoNode, Quiet PROVE EagerTreeSpans
  BY DEF LoneBroadcastRepairsTree, EagerTreeSpans
<1>1. ParentInv(Lone)
  <2> SUFFICES ASSUME NEW n \in Nodes, Lone \in received[n], author[Lone] # n
               PROVE  \E p \in Near(n) : Parent(p, n, Lone)
    BY DEF ParentInv
  <2>1. PICK p \in Near(n) : Bond(p, n)
    BY DEF LoneInv, LoneOf, BondInv
  <2>2. p \in Nodes /\ <<p, n>> \in Links /\ <<n, p>> \in Links
    BY NearLinks
  <2>3. Packets(net[<<p, n>>]) = {} /\ Packets(net[<<n, p>>]) = {}
    BY <2>2, NoPackets DEF Quiet
  <2>4. Parent(p, n, Lone)
    BY <2>1, <2>3 DEF Bond, Parent, EagerLink, Still
  <2> QED
    BY <2>4
<1>2. \A n \in Nodes : Lone \in received[n]
  BY LoneAssumption DEF QuietMeansDelivered
<1> QED
  BY <1>1, <1>2, LoneAssumption, ParentsSpan DEF EagerTreeSpans

\* Over a stable and connected overlay of any size, a broadcast that runs alone
\* over links whose ends agree leaves a spanning tree of eager links, whatever
\* earlier broadcasts pruned.
THEOREM LoneBroadcastLeavesTree ==
  MaxChurn = 0 /\ MaxEvictions = 0 /\ OverlayConnected /\ LoneSpec
    => []LoneBroadcastRepairsTree
<1>1. CASE Stable /\ OverlayConnected
  <2>1. Init => StableInv /\ WayInv /\ AuthorInv /\ DispatchInv /\ ChaseInv /\ LoneInv
    <3>1. Init => AuthorInv /\ LoneInv
      BY LoneAssumption, PlumtreeAssumption DEF Init, AuthorInv, LoneInv, Messages
    <3>2. Init => DispatchInv
      BY DispatchInit
    <3>3. Init => ChaseInv
      BY DEF Init, ChaseInv
    <3> QED
      BY <3>1, <3>2, <3>3, StableInit
  <2>2. TypeInv /\ NearInv /\ StableInv /\ WayInv /\ AuthorInv /\ [Next]_vars
          => StableInv' /\ WayInv' /\ AuthorInv'
    BY <1>1, StableStep, AuthorStep
  <2>3. TypeInv /\ NearInv /\ StableInv /\ DispatchInv /\ ChaseInv /\ LoneInv
          /\ [Next /\ RunsAlone]_vars => LoneInv'
    BY <1>1, LoneStep
  <2>4. TypeInv /\ StableInv /\ DispatchInv /\ ChaseInv /\ WayInv /\ AuthorInv /\ LoneInv
          => LoneBroadcastRepairsTree
    BY <1>1, QuietSpreads, LoneSpans
  <2>5. [Next /\ RunsAlone]_vars => [Next]_vars
    OBVIOUS
  <2> QED
    BY <2>1, <2>2, <2>3, <2>4, <2>5, TypeInit, TypeStep, NearInit, NearStep, DispatchStep,
       ChaseStep, PTL DEF LoneSpec
<1>2. CASE ~(Stable /\ OverlayConnected)
  BY <1>2 DEF Stable
<1> QED
  BY <1>1, <1>2

-----------------------------------------------------------------------------
(* Plumtree implements Flooding. *)

\* Whoever holds or sends a payload has broadcast it or was given it.
Got(n, m) == author[m] = n \/ emitted[n][m] > 0
HoldersGot ==
  \A n \in Nodes, m \in SwarmMessages : cache[n][m] # NotCached => Got(n, m)
SendersGot ==
  \A l \in Links, m \in SwarmMessages : Carries(net[l], "Gossip", m) => Got(l[1], m)
HoldInv == HoldersGot /\ SendersGot
RetainInv == ~IdsExpire => DeliveryInv

\* What a step does to the two variables of Flooding.
Gives(n, m) == emitted' = [emitted EXCEPT ![n][m] = @ + 1] /\ author' = author
Broadcasts(n, m) ==
  author[m] = NoNode /\ author' = [author EXCEPT ![m] = n] /\ emitted' = emitted

LEMMA FloodMoves ==
  ASSUME [Next]_vars
  PROVE  \/ UNCHANGED <<author, emitted>>
         \/ \E n \in Nodes, m \in SwarmMessages : BroadcastSwarm(n, m) /\ Broadcasts(n, m)
         \/ \E n \in Nodes, m \in NeighborMessages : BroadcastNeighbors(n, m) /\ Broadcasts(n, m)
         \/ \E s, n \in Nodes : OnGossipSwarm(s, n) /\ Gives(n, Head(net[<<s, n>>]).id)
         \/ \E s, n \in Nodes : OnGossipNeighbors(s, n) /\ Gives(n, Head(net[<<s, n>>]).id)
<1>1. \A n \in Nodes, m \in SwarmMessages : BroadcastSwarm(n, m) => Broadcasts(n, m)
  BY DEF BroadcastSwarm, Broadcasts
<1>2. \A n \in Nodes, m \in NeighborMessages : BroadcastNeighbors(n, m) => Broadcasts(n, m)
  BY DEF BroadcastNeighbors, Broadcasts
<1>3. ASSUME NEW s \in Nodes, NEW n \in Nodes, OnGossipSwarm(s, n)
      PROVE  Gives(n, Head(net[<<s, n>>]).id)
  BY <1>3, Zenon DEF OnGossipSwarm, Gives
<1>4. ASSUME NEW s \in Nodes, NEW n \in Nodes, OnGossipNeighbors(s, n)
      PROVE  Gives(n, Head(net[<<s, n>>]).id)
  BY <1>4, Zenon DEF OnGossipNeighbors, Gives
<1>5. ASSUME NEW s \in Nodes, NEW n \in Nodes, Receive(s, n)
      PROVE  UNCHANGED <<author, emitted>> \/ OnGossipSwarm(s, n) \/ OnGossipNeighbors(s, n)
  BY <1>5, Zenon DEF Receive, OnGossipEcho, OnGossipDuplicate, OnPrune, OnIHave, OnGraft
<1>6. ASSUME NEW n \in Nodes, Timer(n) \/ OnEvictCacheTimer(n)
      PROVE  UNCHANGED <<author, emitted>>
  BY <1>6, Zenon DEF Timer, OnDispatchTimer, OnSendGraftTimer, OnEvictCacheTimer
<1>7. ASSUME NEW n \in Nodes, NEW p \in Nodes,
             OnNeighborUp(n, p) \/ OnNeighborDown(n, p) \/ ConnectionCloses(n, p)
      PROVE  UNCHANGED <<author, emitted>>
  BY <1>7, Zenon DEF OnNeighborUp, OnNeighborDown, ConnectionCloses
<1>8. CASE UNCHANGED vars
  BY <1>8 DEF vars
<1> QED
  BY <1>1, <1>2, <1>3, <1>4, <1>5, <1>6, <1>7, <1>8 DEF Next

\* A payload that arrives is of a message.
LEMMA ArrivingIsMessage ==
  ASSUME TypeInv, NEW s \in Nodes, NEW n \in Nodes,
         OnGossipSwarm(s, n) \/ OnGossipNeighbors(s, n)
  PROVE  Head(net[<<s, n>>]).id \in Messages
BY DEF OnGossipSwarm, OnGossipNeighbors, Messages

\* Who has a message keeps having it; who is given one or broadcasts it has it.
LEMMA GotGrows ==
  ASSUME TypeInv, [Next]_vars
  PROVE  \A n \in Nodes, m \in Messages : Got(n, m) => Got(n, m)'
<1>1. ASSUME NEW n \in Nodes, NEW m \in Messages, Broadcasts(n, m)
      PROVE  \A x \in Nodes, k \in Messages : Got(x, k) => Got(x, k)'
  BY <1>1, PlumtreeAssumption DEF Broadcasts, Got, TypeInv, CounterInv
<1>2. ASSUME NEW n \in Nodes, NEW m \in Messages, Gives(n, m)
      PROVE  \A x \in Nodes, k \in Messages : Got(x, k) => Got(x, k)'
  <2>1. \A x \in Nodes, k \in Messages : emitted[x][k] \in Nat /\ emitted'[x][k] >= emitted[x][k]
    BY <1>2 DEF Gives, TypeInv, EmittedInv
  <2>2. \A x \in Nodes, k \in Messages : emitted'[x][k] \in Nat
    BY <1>2 DEF Gives, TypeInv, EmittedInv
  <2> QED
    BY <1>2, <2>1, <2>2 DEF Got, Gives
<1>3. CASE UNCHANGED <<author, emitted>>
  BY <1>3 DEF Got
<1>4. SwarmMessages \subseteq Messages /\ NeighborMessages \subseteq Messages
  BY DEF Messages
<1> QED
  BY <1>1, <1>2, <1>3, <1>4, FloodMoves, ArrivingIsMessage

LEMMA GotNow ==
  ASSUME TypeInv, NEW n \in Nodes, NEW m \in Messages, Broadcasts(n, m) \/ Gives(n, m)
  PROVE  Got(n, m)'
<1>1. CASE Broadcasts(n, m)
  BY <1>1 DEF Broadcasts, Got, TypeInv, CounterInv
<1>2. CASE Gives(n, m)
  <2>1. emitted[n][m] \in Nat /\ emitted'[n][m] = emitted[n][m] + 1
    BY <1>2 DEF Gives, TypeInv, EmittedInv
  <2> QED
    BY <2>1 DEF Got
<1> QED
  BY <1>1, <1>2

\* Payloads that are kept or sent are ones the node has.
LEMMA HoldKept ==
  ASSUME HoldInv, \A n \in Nodes, m \in Messages : Got(n, m) => Got(n, m)',
         \A n \in Nodes, m \in SwarmMessages :
           cache'[n][m] # NotCached => cache[n][m] # NotCached \/ Got(n, m)',
         \A l \in Links, m \in SwarmMessages :
           Carries(net'[l], "Gossip", m) => Carries(net[l], "Gossip", m) \/ Got(l[1], m)'
  PROVE  HoldInv'
<1>1. SwarmMessages \subseteq Messages /\ \A l \in Links : l[1] \in Nodes
  BY DEF Messages, Links
<1>2. HoldersGot'
  BY <1>1 DEF HoldInv, HoldersGot
<1>3. SendersGot'
  BY <1>1 DEF HoldInv, SendersGot
<1> QED
  BY <1>2, <1>3 DEF HoldInv

\* on_gossip, on_graft and the caches hold nothing else.
LEMMA HoldReceive ==
  ASSUME TypeInv, NearInv, HoldInv, [Next]_vars, NEW s \in Nodes, NEW n \in Nodes,
         Receive(s, n)
  PROVE  HoldInv'
<1>0. /\ net \in Streams /\ SwarmMessages \subseteq Messages
      /\ \A l \in Links : l[1] \in Nodes /\ l[2] \in Nodes
  BY TypedStreams DEF Messages, Links
<1>1. \A x \in Nodes, m \in Messages : Got(x, m) => Got(x, m)'
  BY GotGrows
<1>2. CASE OnGossipSwarm(s, n)
  <2>0. PICK m, round : /\ m = Head(net[<<s, n>>]).id
                        /\ round = Head(net[<<s, n>>]).scope + 1
    OBVIOUS
  <2>1. /\ Incoming(s, n, "Gossip") /\ m \in SwarmMessages
        /\ cache' = [cache EXCEPT ![n][m] = round] /\ Gives(n, m)
    BY <1>2, <2>0 DEF OnGossipSwarm, Gives
  <2>2. PICK out \in SwarmOut :
          /\ net' = Transmit(Taken(s, n), n, out)
          /\ \A p \in Nodes, k \in SwarmMessages : Carries(out[p], "Gossip", k) => k = m
    BY <1>2, <2>0, SwarmSends
  <2>3. Got(n, m)'
    BY <1>0, <2>1, GotNow
  <2>4. ASSUME NEW x \in Nodes, NEW k \in SwarmMessages, cache'[x][k] # cache[x][k]
        PROVE  x = n /\ k = m
    BY <2>1, <2>4 DEF TypeInv, LocalInv
  <2>5. ASSUME NEW l \in Links, NEW k \in SwarmMessages, Carries(net'[l], "Gossip", k)
        PROVE  Carries(net[l], "Gossip", k) \/ Got(l[1], k)'
    <3>1. Carries(net[l], "Gossip", k) \/ (l[1] = n /\ Carries(out[l[2]], "Gossip", k))
      BY <1>0, <2>1, <2>2, <2>5, PayloadsSent
    <3>2. l[1] = n /\ Carries(out[l[2]], "Gossip", k) => Got(l[1], k)'
      BY <1>0, <2>2, <2>3
    <3> QED
      BY <3>1, <3>2
  <2> QED
    BY <1>1, <2>3, <2>4, <2>5, HoldKept
<1>3. CASE OnGraft(s, n)
  <2>1. PICK out \in SwarmOut :
          /\ net' = Transmit(Taken(s, n), n, out) /\ SentNear(n, out)
          /\ \A m \in SwarmMessages :
               /\ Carries(out[s], "Gossip", m) => cache[n][m] # NotCached
               /\ Matches(Head(net[<<s, n>>]), "Graft", m) /\ cache[n][m] # NotCached
                    => Carries(out[s], "Gossip", m)
          /\ \A p \in Nodes \ {s}, m \in SwarmMessages : ~Carries(out[p], "Gossip", m)
    BY <1>3, GraftSends
  <2>2. Incoming(s, n, "Graft") /\ cache' = cache
    BY <1>3 DEF OnGraft
  <2>3. ASSUME NEW l \in Links, NEW m \in SwarmMessages, Carries(net'[l], "Gossip", m)
        PROVE  Carries(net[l], "Gossip", m) \/ Got(l[1], m)'
    <3>1. Carries(net[l], "Gossip", m) \/ (l[1] = n /\ Carries(out[l[2]], "Gossip", m))
      BY <1>0, <2>1, <2>2, <2>3, PayloadsSent
    <3>2. ASSUME l[1] = n, Carries(out[l[2]], "Gossip", m) PROVE Got(n, m)'
      <4>1. l[2] = s
        BY <1>0, <2>1, <3>2
      <4>2. cache[n][m] # NotCached
        BY <2>1, <3>2, <4>1
      <4>3. Got(n, m)
        BY <4>2 DEF HoldInv, HoldersGot
      <4> QED
        BY <1>0, <1>1, <4>3
    <3> QED
      BY <3>1, <3>2
  <2> QED
    BY <1>1, <2>2, <2>3, HoldKept
<1>4. CASE OnGossipDuplicate(s, n)
  <2>1. PICK out \in SwarmOut :
          /\ net' = Transmit(Taken(s, n), n, out)
          /\ \A p \in Nodes : \A k : ~Carries(out[p], "Gossip", k)
    BY <1>4, DuplicateSends
  <2>2. Incoming(s, n, "Gossip") /\ cache' = cache
    BY <1>4 DEF OnGossipDuplicate
  <2>3. \A l \in Links, m \in SwarmMessages :
          Carries(net'[l], "Gossip", m) => Carries(net[l], "Gossip", m)
    BY <1>0, <2>1, <2>2, PayloadsSent
  <2> QED
    BY <1>1, <2>2, <2>3, HoldKept
<1>5. CASE OnGossipEcho(s, n) \/ OnGossipNeighbors(s, n) \/ OnPrune(s, n) \/ OnIHave(s, n)
  <2>1. PICK kd : Incoming(s, n, kd)
    BY <1>5 DEF OnGossipEcho, OnGossipNeighbors, OnPrune, OnIHave
  <2>2. net' = Taken(s, n) /\ cache' = cache
    BY <1>5, Zenon DEF OnGossipEcho, OnGossipNeighbors, OnPrune, OnIHave, protocolVars
  <2>3. \A l \in Links, m \in SwarmMessages :
          Carries(net'[l], "Gossip", m) => Carries(net[l], "Gossip", m)
    BY <1>0, <2>1, <2>2, TakenCarries
  <2> QED
    BY <1>1, <2>2, <2>3, HoldKept
<1> QED
  BY <1>2, <1>3, <1>4, <1>5 DEF Receive

LEMMA HoldStep == TypeInv /\ NearInv /\ HoldInv /\ [Next]_vars => HoldInv'
<1> SUFFICES ASSUME TypeInv, NearInv, HoldInv, [Next]_vars PROVE HoldInv'
  OBVIOUS
<1>0. /\ net \in Streams /\ SwarmMessages \subseteq Messages
      /\ \A l \in Links : l[1] \in Nodes /\ l[2] \in Nodes
  BY TypedStreams DEF Messages, Links
<1>1. \A x \in Nodes, m \in Messages : Got(x, m) => Got(x, m)'
  BY GotGrows
<1>2. ASSUME \A x \in Nodes, k \in SwarmMessages :
               cache'[x][k] # NotCached => cache[x][k] # NotCached,
             \A l \in Links, m \in SwarmMessages :
               Carries(net'[l], "Gossip", m) => Carries(net[l], "Gossip", m)
      PROVE  HoldInv'
  BY <1>1, <1>2, HoldKept
<1>3. ASSUME NEW n \in Nodes, NEW m \in SwarmMessages, BroadcastSwarm(n, m)
      PROVE  HoldInv'
  <2>1. PICK out \in SwarmOut :
          /\ net' = Transmit(net, n, out) /\ SentNear(n, out)
          /\ \A p \in eager[n] \ {n} : Carries(out[p], "Gossip", m)
          /\ \A p \in Nodes : \A k : Carries(out[p], "Gossip", k) => k = m
    BY <1>3, BroadcastSwarmSends
  <2>2. cache' = [cache EXCEPT ![n][m] = 0] /\ Broadcasts(n, m)
    BY <1>3 DEF BroadcastSwarm, Broadcasts
  <2>3. Got(n, m)'
    BY <1>0, <2>2, GotNow
  <2>4. ASSUME NEW x \in Nodes, NEW k \in SwarmMessages, cache'[x][k] # cache[x][k]
        PROVE  x = n /\ k = m
    BY <2>2, <2>4 DEF TypeInv, LocalInv
  <2>5. \A l \in Links, k \in SwarmMessages :
          Carries(net'[l], "Gossip", k) => Carries(net[l], "Gossip", k) \/ Got(l[1], k)'
    BY <1>0, <2>1, <2>3, TransmitCarries
  <2> QED
    BY <1>1, <2>3, <2>4, <2>5, HoldKept
<1>4. ASSUME NEW n \in Nodes, NEW m \in NeighborMessages, BroadcastNeighbors(n, m)
      PROVE  HoldInv'
  <2>1. /\ net' = Transmit(net, n, EagerPush(n, m, DirectScope, n)) /\ cache' = cache
    BY <1>4 DEF BroadcastNeighbors, protocolVars
  <2>2. ASSUME NEW l \in Links, NEW k \in SwarmMessages, Carries(net'[l], "Gossip", k)
        PROVE  Carries(net[l], "Gossip", k)
    BY <1>0, <1>4, <2>1, <2>2, DirectSends
  <2> QED
    BY <1>2, <2>1, <2>2
<1>5. ASSUME NEW n \in Nodes, Timer(n) PROVE HoldInv'
  <2>1. CASE OnDispatchTimer(n)
    <3>1. PICK out \in SwarmOut :
            /\ net' = Transmit(net, n, out)
            /\ \A p \in Nodes : \A k : ~Carries(out[p], "Gossip", k)
      BY <2>1, DispatchSends
    <3>2. cache' = cache
      BY <2>1 DEF OnDispatchTimer
    <3>3. \A l \in Links, k \in SwarmMessages :
            Carries(net'[l], "Gossip", k) => Carries(net[l], "Gossip", k)
      BY <1>0, <3>1, TransmitCarries
    <3> QED
      BY <1>2, <3>2, <3>3
  <2>2. ASSUME NEW m \in SwarmMessages, OnSendGraftTimer(n, m) PROVE HoldInv'
    <3>1. cache' = cache
      BY <2>2 DEF OnSendGraftTimer
    <3>2. CASE net' = net
      BY <1>2, <3>1, <3>2
    <3>3. ASSUME NEW out \in SwarmOut, net' = Transmit(net, n, out),
                 \A p \in Nodes : \A k : ~Carries(out[p], "Gossip", k)
          PROVE  HoldInv'
      <4>1. \A l \in Links, k \in SwarmMessages :
              Carries(net'[l], "Gossip", k) => Carries(net[l], "Gossip", k)
        BY <1>0, <3>3, TransmitCarries
      <4> QED
        BY <1>2, <3>1, <4>1
    <3> QED
      BY <2>2, <3>2, <3>3, SendGraftSends
  <2> QED
    BY <1>5, <2>1, <2>2 DEF Timer
<1>6. ASSUME NEW n \in Nodes, OnEvictCacheTimer(n) PROVE HoldInv'
  <2>1. /\ net' = net
        /\ \E gone : cache' = [cache EXCEPT ![n] =
             [m \in SwarmMessages |-> IF m \in gone THEN NotCached ELSE cache[n][m]]]
    BY <1>6, Zenon DEF OnEvictCacheTimer
  <2>2. \A x \in Nodes, k \in SwarmMessages :
          cache'[x][k] # NotCached => cache[x][k] # NotCached
    BY <2>1 DEF TypeInv, LocalInv
  <2> QED
    BY <1>2, <2>1, <2>2
<1>7. ASSUME NEW n \in Nodes, NEW p \in Nodes, ConnectionCloses(n, p) PROVE HoldInv'
  <2>1. /\ \A l \in Links : net'[l] = net[l] \/ net'[l] = <<>>
        /\ cache' = cache
    BY <1>0, <1>7, Zenon DEF ConnectionCloses, Streams, protocolVars
  <2>2. \A l \in Links, m \in SwarmMessages :
          Carries(net'[l], "Gossip", m) => Carries(net[l], "Gossip", m)
    BY <2>1, ShortStreams
  <2> QED
    BY <1>2, <2>1, <2>2
<1>8. ASSUME NEW n \in Nodes, NEW p \in Nodes, OnNeighborUp(n, p) \/ OnNeighborDown(n, p)
      PROVE  HoldInv'
  <2>1. UNCHANGED <<cache, net>>
    BY <1>8, Zenon DEF OnNeighborUp, OnNeighborDown
  <2> QED
    BY <1>2, <2>1
<1>9. CASE UNCHANGED vars
  <2>1. UNCHANGED <<cache, net>>
    BY <1>9 DEF vars, protocolVars
  <2> QED
    BY <1>2, <2>1
<1> QED
  BY <1>3, <1>4, <1>5, <1>6, <1>7, <1>8, <1>9, HoldReceive DEF Next

LEMMA RetainStep == TypeInv /\ RetainInv /\ [Next]_vars => RetainInv'
BY DeliveryStep DEF RetainInv

\* Every step is one of Flooding or changes nothing there.
LEMMA FloodStep ==
  TypeInv /\ NearInv /\ OneHopInv /\ HoldInv /\ RetainInv /\ [Next]_vars
    => [Flood!Next]_(Flood!flood)
<1> SUFFICES ASSUME TypeInv, NearInv, OneHopInv, HoldInv, RetainInv, [Next]_vars
             PROVE  Flood!Next \/ UNCHANGED <<author, emitted>>
  BY DEF Flood!flood
<1>0. /\ net \in Streams /\ SwarmMessages \subseteq Messages
      /\ NeighborMessages \subseteq Messages
  BY TypedStreams DEF Messages
<1>1. ASSUME NEW n \in Nodes, NEW m \in Messages, Broadcasts(n, m) PROVE Flood!Next
  <2>1. Flood!Broadcast(n, m)
    BY <1>1 DEF Broadcasts, Flood!Broadcast
  <2> QED
    BY <2>1 DEF Flood!Next, Flood!Messages, Messages
<1>2. ASSUME NEW s \in Nodes, NEW n \in Nodes, NEW m, m = Head(net[<<s, n>>]).id,
             Incoming(s, n, "Gossip")
      PROVE  /\ <<s, n>> \in Links /\ <<s, n>> \in Overlay /\ s # n
             /\ Carries(net[<<s, n>>], "Gossip", m)
  <2>1. /\ <<s, n>> \in Links /\ s # n
        /\ Head(net[<<s, n>>]) \in Packets(net[<<s, n>>])
        /\ Head(net[<<s, n>>]).kind = "Gossip"
    BY <1>0, <1>2, TakenPackets, TakenIs
  <2>2. Matches(Head(net[<<s, n>>]), "Gossip", m)
    BY <1>2, <2>1 DEF Matches
  <2>3. <<s, n>> \in Overlay
    BY <1>2 DEF NearInv, NetNear, Incoming
  <2> QED
    BY <2>1, <2>2, <2>3, CarriesPackets
<1>3. ASSUME NEW s \in Nodes, NEW n \in Nodes, OnGossipSwarm(s, n),
             Gives(n, Head(net[<<s, n>>]).id)
      PROVE  Flood!Next
  <2>0. PICK m : m = Head(net[<<s, n>>]).id
    OBVIOUS
  <2>1. Incoming(s, n, "Gossip") /\ m \in SwarmMessages \ received[n] /\ Gives(n, m)
    BY <1>3, <2>0 DEF OnGossipSwarm
  <2>2. Got(s, m) /\ <<s, n>> \in Overlay
    <3>1. <<s, n>> \in Links /\ <<s, n>>[1] = s /\ Carries(net[<<s, n>>], "Gossip", m)
      BY <1>2, <2>0, <2>1
    <3> QED
      BY <1>2, <2>0, <2>1, <3>1 DEF HoldInv, SendersGot
  <2>3. ~IdsExpire => ~Got(n, m)
    BY <2>1 DEF RetainInv, DeliveryInv, Got
  <2>4. Flood!PassOn(s, n, m)
    BY <2>1, <2>2, <2>3 DEF Flood!PassOn, Flood!Has, Flood!Give, Got, Gives
  <2> QED
    BY <2>1, <2>4 DEF Flood!Next
<1>4. ASSUME NEW s \in Nodes, NEW n \in Nodes, OnGossipNeighbors(s, n),
             Gives(n, Head(net[<<s, n>>]).id)
      PROVE  Flood!Next
  <2>0. PICK m : m = Head(net[<<s, n>>]).id
    OBVIOUS
  <2>1. Incoming(s, n, "Gossip") /\ m \in NeighborMessages /\ Gives(n, m)
    BY <1>4, <2>0 DEF OnGossipNeighbors
  <2>2. s = author[m] /\ emitted[n][m] = 0 /\ <<s, n>> \in Overlay /\ s # n
    <3>1. /\ <<s, n>> \in Links /\ <<s, n>>[1] = s /\ <<s, n>>[2] = n
          /\ Carries(net[<<s, n>>], "Gossip", m) /\ s # n /\ <<s, n>> \in Overlay
      BY <1>2, <2>0, <2>1
    <3> QED
      BY <2>1, <3>1 DEF OneHopInv, CopiesInv
  <2>3. Flood!Tell(s, n, m)
    BY <2>1, <2>2 DEF Flood!Tell, Flood!Has, Flood!Give, Gives
  <2> QED
    BY <2>1, <2>3 DEF Flood!Next
<1> QED
  BY <1>0, <1>1, <1>3, <1>4, FloodMoves

\* For every overlay, through churn, closed connections, evictions, duplicates,
\* prunes, grafts and announcements, a member of the topic is given a message
\* only by a neighbour that has it, one meant for neighbours only by its author
\* and once, and as long as ids are kept each message once: plumtree.rs
\* implements Flooding.
THEOREM PlumtreeImplementsFlooding == Spec => ImplementsFlooding
<1>1. Init => Flood!Init /\ OneHopInv /\ HoldInv /\ RetainInv
  <2> SUFFICES ASSUME Init PROVE Flood!Init /\ OneHopInv /\ HoldInv /\ RetainInv
    OBVIOUS
  <2>1. Flood!Init
    BY DEF Init, Flood!Init, Flood!Messages, Messages
  <2>2. \A l \in Links : net[l] = <<>>
    BY DEF Init
  <2>3. OneHopInv
    <3>1. CopiesInv
      BY <2>2, ShortStreams DEF CopiesInv
    <3>2. DirectInv
      BY DEF Init, DirectInv, Messages
    <3> QED
      BY <3>1, <3>2 DEF OneHopInv
  <2>4. HoldInv
    <3>1. HoldersGot
      BY DEF Init, HoldersGot
    <3>2. SendersGot
      BY <2>2, ShortStreams DEF SendersGot
    <3> QED
      BY <3>1, <3>2 DEF HoldInv
  <2>5. RetainInv
    BY PlumtreeAssumption DEF Init, RetainInv, DeliveryInv, Messages
  <2> QED
    BY <2>1, <2>3, <2>4, <2>5
<1> QED
  BY <1>1, TypeInit, TypeStep, NearInit, NearStep, OneHopStep, HoldStep, RetainStep,
     FloodStep, PTL DEF Spec, ImplementsFlooding, Flood!Spec


=============================================================================
