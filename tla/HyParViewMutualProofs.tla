----------------------- MODULE HyParViewMutualProofs -----------------------
(***************************************************************************)
(* As long as no connection fails and nobody quits, the active views of    *)
(* HyParView settle in mutual ones, for every set of nodes that fits into  *)
(* an active view.                                                         *)
(*                                                                         *)
(* The argument follows the Neighbor messages of a pair of nodes.  A node  *)
(* that counts on a peer (the peer is active, or a request to it is        *)
(* pending) is counted on by the peer, or its own Neighbor message is      *)
(* still on its way to the peer (Answered).  No Neighbor message may be    *)
(* lost for that: nobody disconnects (CalmNet), and only members of the    *)
(* topic are ever asked (Acquainted).                                      *)
(***************************************************************************)
EXTENDS HyParViewProofs

\* Nobody is dropped for another: a view has room for all other nodes.
Roomy == Cardinality(Nodes) <= ActiveCapacity + 1

\* A message that ends no connection and names only nodes in K.
CalmPacket(m, K) ==
  /\ m.kind \notin {"Disconnect", "Closed"}
  /\ m.kind = "ForwardJoin" => m.peer \in K
  /\ m.kind = "Shuffle" => m.origin \in K /\ m.nodes \subseteq K
  /\ m.kind = "ShuffleReply" => m.nodes \subseteq K

\* Messages to p: only a Join may go to a node that is not in K.
CalmStream(q, p, K) ==
  \A i \in DOMAIN q : CalmPacket(q[i], K) /\ (q[i].kind # "Join" => p \in K)

Asks(q) == \E i \in DOMAIN q : q[i].kind = "Neighbor"

CalmNet ==
  \A l \in Links : /\ CalmStream(net[l], l[2], member)
                   /\ net[l] # <<>> => l[1] \in member
Acquainted ==
  \A n \in Nodes : active[n] \cup passive[n] \cup pending[n] \subseteq member
Answered ==
  \A n, p \in Nodes :
    /\ p \in active[n] \cup pending[n] => n \in active[p] \/ Asks(net[<<n, p>>])
    /\ p \in pending[n] =>
         p \in active[n] \/ Asks(net[<<n, p>>]) \/ Asks(net[<<p, n>>])
Settled == CalmNet /\ Acquainted /\ Answered

-----------------------------------------------------------------------------
(* Streams. *)

LEMMA AppendCalm ==
  ASSUME NEW S, NEW q \in Seq(S), NEW m, NEW p, NEW K,
         CalmStream(q, p, K), CalmPacket(m, K), m.kind # "Join" => p \in K
  PROVE  CalmStream(Append(q, m), p, K)
<1> SUFFICES ASSUME NEW i \in 1 .. (Len(q) + 1)
             PROVE  LET x == Append(q, m)[i]
                    IN CalmPacket(x, K) /\ (x.kind # "Join" => p \in K)
  BY DEF CalmStream
<1>1. CASE i = Len(q) + 1
  <2>1. Append(q, m)[i] = m
    BY <1>1
  <2> QED
    BY <2>1
<1>2. CASE i # Len(q) + 1
  <2>1. i \in DOMAIN q /\ Append(q, m)[i] = q[i]
    BY <1>2
  <2> QED
    BY <2>1 DEF CalmStream
<1> QED
  BY <1>1, <1>2

LEMMA AppendAsks ==
  ASSUME NEW S, NEW q \in Seq(S), NEW m
  PROVE  /\ Asks(q) => Asks(Append(q, m))
         /\ m.kind = "Neighbor" => Asks(Append(q, m))
<1>1. /\ DOMAIN q \subseteq DOMAIN Append(q, m)
      /\ \A i \in DOMAIN q : Append(q, m)[i] = q[i]
      /\ Len(q) + 1 \in DOMAIN Append(q, m)
      /\ Append(q, m)[Len(q) + 1] = m
  OBVIOUS
<1> QED
  BY <1>1 DEF Asks

LEMMA ConcatCalm ==
  ASSUME NEW S, NEW q \in Seq(S), NEW t \in Seq(S), NEW p, NEW K,
         CalmStream(q, p, K), CalmStream(t, p, K)
  PROVE  CalmStream(q \o t, p, K)
<1>1. /\ Len(q) \in Nat /\ Len(t) \in Nat
      /\ DOMAIN q = 1 .. Len(q) /\ DOMAIN t = 1 .. Len(t)
      /\ DOMAIN (q \o t) = 1 .. (Len(q) + Len(t))
      /\ \A i \in 1 .. Len(q) : (q \o t)[i] = q[i]
      /\ \A i \in 1 .. Len(t) : (q \o t)[Len(q) + i] = t[i]
  OBVIOUS
<1>2. ASSUME NEW i \in 1 .. (Len(q) + Len(t))
      PROVE  \/ \E j \in DOMAIN q : (q \o t)[i] = q[j]
             \/ \E j \in DOMAIN t : (q \o t)[i] = t[j]
  <2>1. CASE i <= Len(q)
    BY <1>1, <2>1
  <2>2. CASE i > Len(q)
    <3>1. i - Len(q) \in 1 .. Len(t) /\ Len(q) + (i - Len(q)) = i
      BY <1>1, <2>2
    <3> QED
      BY <1>1, <3>1
  <2> QED
    BY <1>1, <2>1, <2>2
<1> QED
  BY <1>1, <1>2 DEF CalmStream

LEMMA ConcatAsks ==
  ASSUME NEW S, NEW q \in Seq(S), NEW t \in Seq(S), Asks(q) \/ Asks(t)
  PROVE  Asks(q \o t)
<1>1. /\ Len(q) \in Nat /\ Len(t) \in Nat
      /\ DOMAIN q = 1 .. Len(q) /\ DOMAIN t = 1 .. Len(t)
      /\ DOMAIN (q \o t) = 1 .. (Len(q) + Len(t))
      /\ \A i \in 1 .. Len(q) : (q \o t)[i] = q[i]
      /\ \A i \in 1 .. Len(t) : (q \o t)[Len(q) + i] = t[i]
  OBVIOUS
<1>2. CASE Asks(q)
  <2>1. PICK i \in 1 .. Len(q) : q[i].kind = "Neighbor"
    BY <1>1, <1>2 DEF Asks
  <2>2. i \in DOMAIN (q \o t)
    BY <1>1
  <2> QED
    BY <1>1, <2>1, <2>2 DEF Asks
<1>3. CASE Asks(t)
  <2>1. PICK i \in 1 .. Len(t) : t[i].kind = "Neighbor"
    BY <1>1, <1>3 DEF Asks
  <2>2. Len(q) + i \in DOMAIN (q \o t)
    BY <1>1
  <2> QED
    BY <1>1, <2>1, <2>2 DEF Asks
<1> QED
  BY <1>2, <1>3

\* Reading a message removes that message and no other.
LEMMA WithoutIs ==
  ASSUME NEW S, NEW q \in Seq(S), NEW i \in 1 .. Len(q)
  PROVE  /\ \A j \in DOMAIN Without(q, i) : \E k \in DOMAIN q : Without(q, i)[j] = q[k]
         /\ \A k \in DOMAIN q \ {i} : \E j \in DOMAIN Without(q, i) : Without(q, i)[j] = q[k]
<1> DEFINE h == SubSeq(q, 1, i - 1)
           t == SubSeq(q, i + 1, Len(q))
           w == h \o t
<1>0. /\ Len(q) \in Nat /\ DOMAIN q = 1 .. Len(q) /\ i \in Nat /\ i >= 1 /\ i <= Len(q)
      /\ \A k \in 1 .. Len(q) : q[k] \in S
  OBVIOUS
<1>1. /\ h \in Seq(S) /\ Len(h) = i - 1
      /\ \A k \in 1 .. (i - 1) : h[k] = q[k]
  BY <1>0, SubSeqProperties
<1>2. /\ t \in Seq(S) /\ Len(t) = Len(q) - i
      /\ \A k \in 1 .. (Len(q) - i) : t[k] = q[k + i]
  <2>1. \A k \in (i + 1) .. Len(q) : q[k] \in S
    BY <1>0
  <2>2. /\ t \in Seq(S)
        /\ Len(t) = IF i + 1 <= Len(q) THEN Len(q) - (i + 1) + 1 ELSE 0
        /\ \A k \in 1 .. (Len(q) - (i + 1) + 1) : t[k] = q[(i + 1) + k - 1]
    BY <1>0, <2>1, SubSeqProperties
  <2>3. \A k \in 1 .. (Len(q) - i) :
          k \in 1 .. (Len(q) - (i + 1) + 1) /\ (i + 1) + k - 1 = k + i
    BY <1>0
  <2> HIDE DEF t
  <2>4. Len(t) = Len(q) - i
    <3>1. CASE i + 1 <= Len(q)
      <4>1. Len(t) = Len(q) - (i + 1) + 1
        BY <2>2, <3>1
      <4> QED
        BY <1>0, <4>1
    <3>2. CASE ~(i + 1 <= Len(q))
      <4>1. Len(t) = 0
        BY <2>2, <3>2
      <4>2. Len(q) = i
        <5>1. \A a, b \in Nat : a <= b /\ ~(a + 1 <= b) => b = a
          OBVIOUS
        <5> QED
          BY <1>0, <3>2, <5>1, Zenon
      <4> QED
        BY <1>0, <4>1, <4>2
    <3> QED
      BY <3>1, <3>2
  <2>5. \A k \in 1 .. (Len(q) - i) : t[k] = q[k + i]
    BY <2>2, <2>3, Zenon
  <2> QED
    BY <2>2, <2>4, <2>5
<1>3. Without(q, i) = w
  BY DEF Without
<1> HIDE DEF h, t
<1>4. /\ w \in Seq(S) /\ Len(w) = Len(h) + Len(t)
      /\ \A k \in 1 .. Len(h) + Len(t) :
           w[k] = IF k <= Len(h) THEN h[k] ELSE t[k - Len(h)]
  BY <1>1, <1>2, ConcatProperties
<1>5. DOMAIN w = 1 .. Len(w)
  BY <1>4
<1> HIDE DEF w
<1>6. /\ Len(w) = Len(q) - 1
      /\ \A k \in 1 .. (Len(q) - 1) : w[k] = IF k < i THEN q[k] ELSE q[k + 1]
  <2>1. Len(h) + Len(t) = Len(q) - 1
    BY <1>0, <1>1, <1>2
  <2>2. ASSUME NEW k \in 1 .. (Len(q) - 1) PROVE w[k] = IF k < i THEN q[k] ELSE q[k + 1]
    <3>1. w[k] = IF k <= Len(h) THEN h[k] ELSE t[k - Len(h)]
      BY <1>4, <2>1
    <3>2. CASE k < i
      <4>1. k \in 1 .. (i - 1) /\ k <= Len(h)
        BY <1>0, <1>1, <3>2
      <4> QED
        BY <1>1, <3>1, <3>2, <4>1
    <3>3. CASE ~(k < i)
      <4>1. /\ k - Len(h) \in 1 .. (Len(q) - i) /\ (k - Len(h)) + i = k + 1
            /\ ~(k <= Len(h))
        BY <1>0, <1>1, <3>3
      <4> QED
        BY <1>2, <3>1, <3>3, <4>1
    <3> QED
      BY <3>2, <3>3
  <2> QED
    BY <1>4, <2>1, <2>2
<1>7. ASSUME NEW j \in DOMAIN w PROVE \E k \in DOMAIN q : w[j] = q[k]
  <2>1. j \in 1 .. (Len(q) - 1) /\ j \in DOMAIN q /\ j + 1 \in DOMAIN q
    BY <1>0, <1>5, <1>6
  <2> QED
    BY <1>6, <2>1
<1>8. ASSUME NEW k \in DOMAIN q \ {i} PROVE \E j \in DOMAIN w : w[j] = q[k]
  <2>1. CASE k < i
    <3>1. k \in 1 .. (Len(q) - 1)
      BY <1>0, <2>1
    <3> QED
      BY <1>5, <1>6, <2>1, <3>1
  <2>2. CASE k > i
    <3>1. k - 1 \in 1 .. (Len(q) - 1) /\ ~(k - 1 < i) /\ (k - 1) + 1 = k
      BY <1>0, <2>2
    <3> QED
      BY <1>5, <1>6, <3>1
  <2> QED
    BY <1>0, <2>1, <2>2
<1> QED
  BY <1>3, <1>7, <1>8

LEMMA WithoutCalm ==
  ASSUME NEW S, NEW q \in Seq(S), NEW i \in 1 .. Len(q), NEW p, NEW K, CalmStream(q, p, K)
  PROVE  /\ CalmStream(Without(q, i), p, K)
         /\ Asks(q) => Asks(Without(q, i)) \/ q[i].kind = "Neighbor"
<1>1. CalmStream(Without(q, i), p, K)
  BY WithoutIs DEF CalmStream
<1>2. ASSUME Asks(q), q[i].kind # "Neighbor" PROVE Asks(Without(q, i))
  <2>1. PICK k \in DOMAIN q : q[k].kind = "Neighbor"
    BY <1>2 DEF Asks
  <2>2. k \in DOMAIN q \ {i}
    BY <1>2, <2>1
  <2> QED
    BY <2>1, <2>2, WithoutIs DEF Asks
<1> QED
  BY <1>1, <1>2
-----------------------------------------------------------------------------
(* What the handlers do when there is room, from the state z of a node. *)

\* Nobody leaves the active view; only nodes in K are known; whoever is newly
\* counted on is asked, or was asked before; and what is sent is calm.
Sound(r, z, K) ==
  /\ z.active \subseteq r.active
  /\ r.active \cup r.passive \cup r.pending \subseteq K
  /\ \A p \in (r.active \ z.active) \cup r.pending : p \in z.pending \/ Asks(r.sent[p])
  /\ \A p \in Nodes : CalmStream(r.sent[p], p, K)

LEMMA SendMessageSound ==
  ASSUME NEW n \in Nodes, NEW s, Good(s, n), NEW z, NEW K, Sound(s, z, K),
         NEW p \in Nodes, NEW m, CalmPacket(m, K), m.kind # "Join" => p \in K
  PROVE  /\ Sound(SendMessage(s, p, m), z, K)
         /\ \A q \in Nodes : Asks(s.sent[q]) => Asks(SendMessage(s, p, m).sent[q])
         /\ m.kind = "Neighbor" => Asks(SendMessage(s, p, m).sent[p])
<1> DEFINE f == [s.sent EXCEPT ![p] = Append(@, m)]
           t == [s EXCEPT !.sent = f]
<1>1. /\ s \in HState /\ s.sent \in Outbox
      /\ s.active \subseteq Nodes /\ s.pending \subseteq Nodes
  BY DEF Good, HState
<1>2. \A q \in Nodes : /\ s.sent[q] \in Seq(Packet)
                       /\ f[q] = IF q = p THEN Append(s.sent[q], m) ELSE s.sent[q]
  BY <1>1 DEF Outbox
<1>3. SendMessage(s, p, m) = t
  BY <1>1 DEF HState, SendMessage
<1> HIDE DEF f
<1>4. /\ t.active = s.active /\ t.passive = s.passive /\ t.pending = s.pending
      /\ t.sent = f
  BY <1>1 DEF HState
<1>5. ASSUME NEW q \in Nodes PROVE Asks(s.sent[q]) => Asks(f[q])
  BY <1>2, AppendAsks
<1>6. ASSUME NEW q \in Nodes PROVE CalmStream(f[q], q, K)
  <2>1. CalmStream(s.sent[q], q, K)
    BY DEF Sound
  <2> QED
    BY <1>2, <2>1, AppendCalm
<1>7. m.kind = "Neighbor" => Asks(f[p])
  BY <1>2, AppendAsks
<1> HIDE DEF t
<1>8. Sound(t, z, K)
  BY <1>1, <1>4, <1>5, <1>6 DEF Sound
<1> QED
  BY <1>3, <1>4, <1>5, <1>7, <1>8

\* A change of the views that adds no promise.
LEMMA ViewsSound ==
  ASSUME NEW s, NEW z, NEW K, Sound(s, z, K), NEW r,
         r.sent = s.sent, s.active \subseteq r.active,
         r.active \cup r.passive \cup r.pending \subseteq K,
         \A p \in (r.active \ s.active) \cup r.pending :
           p \in s.pending \/ p \in z.pending \/ Asks(s.sent[p])
  PROVE  Sound(r, z, K)
BY DEF Sound

LEMMA SendNeighborSound ==
  ASSUME NEW n \in Nodes, NEW s, Good(s, n), NEW z, NEW K, Sound(s, z, K),
         NEW p \in Nodes \cap K, p # n, NEW priority \in {"High", "Low"}
  PROVE  /\ Sound(SendNeighbor(s, p, priority), z, K)
         /\ p \notin s.pending => Asks(SendNeighbor(s, p, priority).sent[p])
         /\ \A q \in Nodes : Asks(s.sent[q]) => Asks(SendNeighbor(s, p, priority).sent[q])
<1>1. CASE p \in s.pending
  BY <1>1 DEF SendNeighbor
<1>2. CASE p \notin s.pending
  <2> DEFINE m == Neighbor(priority)
             u == SendMessage(s, p, m)
             t == [s EXCEPT !.pending = @ \cup {p}]
             v == SendMessage(t, p, m)
  <2>1. CalmPacket(m, K) /\ m.kind = "Neighbor"
    BY DEF CalmPacket, Neighbor
  <2>2. SendNeighbor(s, p, priority) = v
    BY <1>2 DEF SendNeighbor
  <2>3. v = [u EXCEPT !.pending = @ \cup {p}]
    BY DEF SendMessage, Good, HState
  <2>4. u \in HState
    <3>1. m \in PacketTo(p)
      BY Packets
    <3> QED
      BY <3>1, SendMessageGood DEF Good
  <2>5. /\ v.sent = u.sent /\ v.active = u.active /\ v.passive = u.passive
        /\ v.pending = u.pending \cup {p}
    BY <2>3, <2>4 DEF HState
  <2> HIDE DEF u, v, m
  <2>6. /\ Sound(u, z, K) /\ Asks(u.sent[p])
        /\ \A q \in Nodes : Asks(s.sent[q]) => Asks(u.sent[q])
    BY <2>1, SendMessageSound DEF u
  <2>7. Sound(v, z, K)
    BY <2>5, <2>6 DEF Sound
  <2> QED
    BY <2>2, <2>5, <2>6, <2>7
<1> QED
  BY <1>1, <1>2

LEMMA SendShuffleReplySound ==
  ASSUME NEW n \in Nodes, NEW s, Good(s, n), NEW z, NEW K, Sound(s, z, K),
         NEW p \in Nodes \cap K, NEW len, NEW r \in SendShuffleReply(s, p, len)
  PROVE  Sound(r, z, K)
<1>1. PICK N \in Sample(s.passive, s.active, len) :
        r = SendMessage(s, p, ShuffleReply(N))
  BY DEF SendShuffleReply
<1>2. N \subseteq s.passive \cup s.active
  BY <1>1 DEF Sample, Capped
<1>3. CalmPacket(ShuffleReply(N), K)
  BY <1>2 DEF CalmPacket, ShuffleReply, Sound
<1> QED
  BY <1>1, <1>3, SendMessageSound

LEMMA AddPassiveSound ==
  ASSUME NEW n \in Nodes, NEW s, Good(s, n), NEW z, NEW K, Sound(s, z, K),
         NEW peers \in SUBSET (Nodes \cap K), NEW r \in AddPassive(s, peers)
  PROVE  Sound(r, z, K)
<1> DEFINE eligible == peers \ (s.active \cup {s.me})
<1>1. CASE r = s
  BY <1>1
<1>2. CASE r # s
  <2>1. PICK Q \in Capped(s.passive \cup eligible, PassiveCapacity) :
          r = [s EXCEPT !.passive = Q]
    BY <1>2 DEF AddPassive
  <2>2. Q \subseteq s.passive \cup peers
    BY <2>1 DEF Capped
  <2>3. /\ r.active = s.active /\ r.pending = s.pending /\ r.sent = s.sent
        /\ r.passive = Q
    BY <2>1 DEF Good, HState
  <2> QED
    BY <2>2, <2>3 DEF Sound
<1> QED
  BY <1>1, <1>2

LEMMA RefillSound ==
  ASSUME NEW n \in Nodes, NEW s, Good(s, n), NEW z, NEW K, Sound(s, z, K),
         NEW skip, NEW r \in Refill(s, skip)
  PROVE  Sound(r, z, K)
<1>1. CASE r = s
  BY <1>1
<1>2. CASE r # s
  <2> DEFINE priority == IF s.active = {} THEN "High" ELSE "Low"
  <2>1. PICK p \in s.passive \ (skip \cup s.pending) :
          r = [SendNeighbor(s, p, priority) EXCEPT !.timers[p] = @ + 1]
    BY <1>2 DEF Refill
  <2>2. p \in Nodes \cap K /\ p # n
    BY <2>1 DEF Good, HState, WellFormed, Sound
  <2> DEFINE t == SendNeighbor(s, p, priority)
  <2>3. Good(t, n) /\ Sound(t, z, K)
    BY <2>2, SendNeighborGood, SendNeighborSound
  <2>4. r = [t EXCEPT !.timers[p] = @ + 1]
    BY <2>1
  <2> HIDE DEF t
  <2>5. /\ r.active = t.active /\ r.pending = t.pending /\ r.sent = t.sent
        /\ r.passive = t.passive
    BY <2>3, <2>4 DEF Good, HState
  <2> QED
    BY <2>3, <2>5 DEF Sound
<1> QED
  BY <1>1, <1>2

\* There is always room for one more peer.
LEMMA RoomForOne ==
  ASSUME Roomy, NEW n \in Nodes, NEW s, Good(s, n), NEW p \in Nodes, p # n,
         p \notin s.active
  PROVE  ~IsFull(s)
<1> DEFINE A == Nodes \ {n}
           B == A \ {p}
<1>1. s.active \subseteq B /\ B \subseteq Nodes /\ A \subseteq Nodes /\ p \in A
  BY DEF Good, HState, WellFormed
<1>2. Cardinality(A) = Cardinality(Nodes) - 1
  BY Removing, Nodes \in SUBSET Nodes
<1>3. Cardinality(B) = Cardinality(A) - 1
  BY <1>1, Removing
<1> HIDE DEF A, B
<1>4. IsFiniteSet(B) /\ Cardinality(s.active) <= Cardinality(B)
  BY <1>1, NodeSets, FS_Subset
<1>5. Cardinality(s.active) \in Nat /\ Cardinality(B) \in Nat /\ Cardinality(Nodes) \in Nat
  BY <1>1, NodeSets, Nodes \in SUBSET Nodes
<1> QED
  BY <1>2, <1>3, <1>4, <1>5, HyParViewAssumption DEF IsFull, Roomy

LEMMA AddActiveSound ==
  ASSUME Roomy, NEW n \in Nodes, NEW s, Good(s, n), NEW z, NEW K, Sound(s, z, K),
         NEW p \in Nodes \cap K, p # n, NEW priority \in {"High", "Low"},
         NEW reply \in BOOLEAN, reply \/ p \in z.pending,
         NEW r \in AddActive(s, p, priority, reply)
  PROVE  /\ Sound(r, z, K) /\ p \in r.active
         /\ reply /\ p \notin s.pending => Asks(r.sent[p])
<1> DEFINE u == SendNeighbor(s, p, priority)
<1>1. /\ Good(u, n) /\ u.active = s.active /\ Sound(u, z, K)
      /\ p \notin s.pending => Asks(u.sent[p])
  BY SendNeighborGood, SendNeighborSound
<1>2. CASE p \in s.active
  <2>1. r = IF reply THEN u ELSE s
    BY <1>2 DEF AddActive
  <2> HIDE DEF u
  <2> QED
    BY <1>1, <1>2, <2>1
<1>3. CASE p \notin s.active
  <2> DEFINE t == [s EXCEPT !.passive = @ \ {p}, !.active = @ \cup {p}]
             v == [u EXCEPT !.passive = @ \ {p}, !.active = @ \cup {p}]
  <2>1. r = AddActiveUnchecked(s, p, priority, reply)
    BY <1>3, RoomForOne DEF AddActive
  <2>2. r = IF reply THEN SendNeighbor(t, p, priority) ELSE t
    BY <2>1 DEF AddActiveUnchecked
  <2>3. /\ t.active = s.active \cup {p} /\ t.passive = s.passive \ {p}
        /\ t.pending = s.pending /\ t.sent = s.sent
    BY DEF Good, HState
  <2>4. CASE ~reply
    <3>1. r = t /\ p \in z.pending
      BY <2>2, <2>4
    <3> HIDE DEF t, u
    <3> QED
      BY <2>3, <2>4, <3>1 DEF Sound
  <2>5. CASE reply /\ p \in s.pending
    <3>1. r = t
      BY <2>2, <2>3, <2>5 DEF SendNeighbor
    <3> HIDE DEF t, u
    <3> QED
      BY <2>3, <2>5, <3>1 DEF Sound
  <2>6. CASE reply /\ p \notin s.pending
    <3>1. r = v
      BY <2>2, <2>6 DEF SendNeighbor, SendMessage, Good, HState
    <3> HIDE DEF u
    <3>2. /\ v.active = u.active \cup {p} /\ v.passive = u.passive \ {p}
          /\ v.pending = u.pending /\ v.sent = u.sent
      BY <1>1 DEF Good, HState
    <3> HIDE DEF v
    <3> QED
      BY <1>1, <2>6, <3>1, <3>2 DEF Sound
  <2> QED
    BY <2>4, <2>5, <2>6
<1> QED
  BY <1>2, <1>3

LEMMA SendToAllSound ==
  ASSUME NEW n \in Nodes, NEW s, Good(s, n), NEW z, NEW K, Sound(s, z, K),
         NEW peers \in SUBSET Nodes, NEW m, CalmPacket(m, K),
         m.kind = "Join" \/ peers \subseteq K
  PROVE  /\ Sound(SendToAll(s, peers, m), z, K)
         /\ SendToAll(s, peers, m).active = s.active
         /\ \A q \in Nodes : Asks(s.sent[q]) => Asks(SendToAll(s, peers, m).sent[q])
<1> DEFINE f == [p \in Nodes |-> IF p \in peers THEN Append(s.sent[p], m)
                                 ELSE s.sent[p]]
           t == [s EXCEPT !.sent = f]
<1>1. /\ s \in HState /\ s.sent \in Outbox
      /\ s.active \subseteq Nodes /\ s.pending \subseteq Nodes
  BY DEF Good, HState
<1>2. \A q \in Nodes : /\ s.sent[q] \in Seq(Packet)
                       /\ f[q] = IF q \in peers THEN Append(s.sent[q], m) ELSE s.sent[q]
  BY <1>1 DEF Outbox
<1>3. SendToAll(s, peers, m) = t
  BY <1>1 DEF HState, SendToAll
<1> HIDE DEF f
<1>4. /\ t.active = s.active /\ t.passive = s.passive /\ t.pending = s.pending
      /\ t.sent = f
  BY <1>1 DEF HState
<1>5. ASSUME NEW q \in Nodes PROVE Asks(s.sent[q]) => Asks(f[q])
  BY <1>2, AppendAsks
<1>6. ASSUME NEW q \in Nodes PROVE CalmStream(f[q], q, K)
  <2>1. CalmStream(s.sent[q], q, K)
    BY DEF Sound
  <2>2. CASE q \in peers
    <3>1. f[q] = Append(s.sent[q], m) /\ s.sent[q] \in Seq(Packet)
      BY <1>2, <2>2
    <3> QED
      BY <2>1, <2>2, <3>1, AppendCalm
  <2>3. CASE q \notin peers
    BY <1>2, <2>1, <2>3
  <2> QED
    BY <2>2, <2>3
<1> HIDE DEF t
<1>8. Sound(t, z, K)
  BY <1>1, <1>4, <1>5, <1>6 DEF Sound
<1> QED
  BY <1>3, <1>4, <1>5, <1>8

LEMMA OnJoinSound ==
  ASSUME Roomy, NEW n \in Nodes, NEW s, Good(s, n), NEW z, NEW K, Sound(s, z, K),
         NEW p \in Nodes \cap K, p # n, NEW r \in OnJoin(s, p)
  PROVE  Sound(r, z, K)
<1>1. PICK t \in AddActive(s, p, "High", TRUE) :
        r = SendToAll(t, t.active \ {p}, ForwardJoin(p, ARWL))
  BY DEF OnJoin
<1>2. Good(t, n)
  <2>1. \A b \in BOOLEAN : \A x \in AddActive(s, p, "High", b) : Good(x, n)
    BY AddActiveGood
  <2> QED
    BY <1>1, <2>1
<1>3. Sound(t, z, K)
  <2>1. \A b \in BOOLEAN : \A x \in AddActive(s, p, "High", b) : b => Sound(x, z, K)
    BY AddActiveSound
  <2> QED
    BY <1>1, <2>1
<1>4. t.active \ {p} \in SUBSET Nodes /\ t.active \ {p} \subseteq K
  BY <1>2, <1>3 DEF Good, HState, Sound
<1>5. CalmPacket(ForwardJoin(p, ARWL), K)
  BY DEF CalmPacket, ForwardJoin
<1> QED
  BY <1>1, <1>2, <1>3, <1>4, <1>5, SendToAllSound

LEMMA OnForwardJoinSound ==
  ASSUME NEW n \in Nodes, NEW s, Good(s, n), NEW z, NEW K, Sound(s, z, K),
         NEW p \in Nodes, NEW m, m.peer \in (Nodes \cap K) \ {n},
         NEW r \in OnForwardJoin(s, p, m)
  PROVE  Sound(r, z, K)
<1>1. CASE m.peer \in s.active \/ m.ttl = 0 \/ Cardinality(s.active) <= 1
  <2>1. r = SendNeighbor(s, m.peer, "High")
    BY <1>1 DEF OnForwardJoin
  <2> QED
    BY <2>1, SendNeighborSound
<1>2. CASE ~(m.peer \in s.active \/ m.ttl = 0 \/ Cardinality(s.active) <= 1)
  <2> DEFINE noted == IF m.ttl = PRWL THEN AddPassive(s, {m.peer}) ELSE {s}
  <2>1. \A t \in noted : Good(t, n) /\ Sound(t, z, K)
    <3>1. {m.peer} \in SUBSET (Nodes \cap K) /\ {m.peer} \in SUBSET Nodes
      OBVIOUS
    <3> QED
      BY <3>1, AddPassiveGood, AddPassiveSound
  <2>2. CASE m.peer \in s.pending
    BY <1>2, <2>1, <2>2 DEF OnForwardJoin
  <2>3. CASE m.peer \notin s.pending
    <3> HIDE DEF noted
    <3>1. r \in UNION {{SendMessage(t, q, ForwardJoin(m.peer, m.ttl - 1)) :
                          q \in s.active \ {p}} : t \in noted}
      BY <1>2, <2>3, Zenon DEF OnForwardJoin, noted
    <3>2. PICK t \in noted : \E q \in s.active \ {p} :
            r = SendMessage(t, q, ForwardJoin(m.peer, m.ttl - 1))
      BY <3>1
    <3>3. PICK q \in s.active \ {p} :
            r = SendMessage(t, q, ForwardJoin(m.peer, m.ttl - 1))
      BY <3>2
    <3>4. q \in Nodes \cap K
      BY <3>3 DEF Good, HState, Sound
    <3>5. CalmPacket(ForwardJoin(m.peer, m.ttl - 1), K)
      BY DEF CalmPacket, ForwardJoin
    <3> QED
      BY <2>1, <3>2, <3>3, <3>4, <3>5, SendMessageSound
  <2> QED
    BY <2>2, <2>3
<1> QED
  BY <1>1, <1>2

LEMMA OnNeighborSound ==
  ASSUME Roomy, NEW n \in Nodes, NEW s, Good(s, n), NEW K, Sound(s, s, K),
         NEW p \in Nodes \cap K, p # n, NEW priority \in {"High", "Low"},
         NEW r \in OnNeighbor(s, p, priority)
  PROVE  /\ Sound(r, s, K) /\ p \in r.active
         /\ p \in s.pending \/ Asks(r.sent[p])
<1> DEFINE t == [s EXCEPT !.pending = @ \ {p}]
           reply == p \notin s.pending
<1>1. Good(t, n)
  BY DEF Good, HState, WellFormed
<1>2. /\ t.active = s.active /\ t.passive = s.passive /\ t.sent = s.sent
      /\ t.pending = s.pending \ {p}
  BY DEF Good, HState
<1>3. reply \in BOOLEAN /\ (reply <=> p \notin s.pending)
  OBVIOUS
<1>4. Refuses(t, p, priority) => p \notin t.active /\ IsFull(t)
  BY DEF Refuses
<1>5. r \in IF Refuses(t, p, priority) THEN SendDisconnect(t, p, TRUE)
            ELSE AddActive(t, p, priority, reply)
  BY DEF OnNeighbor
<1> HIDE DEF t, reply
<1>6. r \in AddActive(t, p, priority, reply)
  BY <1>1, <1>4, <1>5, RoomForOne
<1>7. Sound(t, s, K)
  BY <1>2 DEF Sound
<1>8. \A b \in BOOLEAN : (b \/ p \in s.pending) =>
        \A x \in AddActive(t, p, priority, b) :
          Sound(x, s, K) /\ p \in x.active /\ (b => Asks(x.sent[p]))
  BY <1>1, <1>2, <1>7, AddActiveSound
<1> QED
  BY <1>3, <1>6, <1>8

LEMMA OnShuffleSound ==
  ASSUME NEW n \in Nodes, NEW s, Good(s, n), NEW z, NEW K, Sound(s, z, K),
         NEW p \in Nodes, NEW m, m.origin \in Nodes \cap K,
         m.nodes \in SUBSET (Nodes \cap K), NEW r \in OnShuffle(s, p, m)
  PROVE  Sound(r, z, K)
<1>1. CASE m.ttl = 0 \/ Cardinality(s.active) <= 1
  <2>1. PICK t \in AddPassive(s, m.nodes) :
          r \in SendShuffleReply(t, m.origin, Cardinality(m.nodes))
    BY <1>1 DEF OnShuffle
  <2>2. Good(t, n) /\ Sound(t, z, K)
    BY <2>1, AddPassiveGood, AddPassiveSound, m.nodes \in SUBSET Nodes
  <2> QED
    BY <2>1, <2>2, SendShuffleReplySound
<1>2. CASE ~(m.ttl = 0 \/ Cardinality(s.active) <= 1) /\ r # s
  <2>1. PICK q \in s.active \ {m.origin, p} :
          r = SendMessage(s, q, Shuffle(m.origin, m.nodes, m.ttl - 1))
    BY <1>2 DEF OnShuffle
  <2>2. q \in Nodes \cap K
    BY <2>1 DEF Good, HState, Sound
  <2>3. CalmPacket(Shuffle(m.origin, m.nodes, m.ttl - 1), K)
    BY DEF CalmPacket, Shuffle
  <2> QED
    BY <2>1, <2>2, <2>3, SendMessageSound
<1> QED
  BY <1>1, <1>2

LEMMA OnShuffleReplySound ==
  ASSUME NEW n \in Nodes, NEW s, Good(s, n), NEW z, NEW K, Sound(s, z, K),
         NEW N \in SUBSET (Nodes \cap K), NEW r \in OnShuffleReply(s, N)
  PROVE  Sound(r, z, K)
<1>1. PICK t \in AddPassive(s, N) : r \in Refill(t, {})
  BY DEF OnShuffleReply
<1>2. Good(t, n) /\ Sound(t, z, K)
  BY <1>1, AddPassiveGood, AddPassiveSound, N \in SUBSET Nodes
<1> QED
  BY <1>1, <1>2, RefillSound

LEMMA HandleShuffleTimerSound ==
  ASSUME NEW n \in Nodes, NEW s, Good(s, n), NEW z, NEW K, Sound(s, z, K), n \in K,
         NEW r \in HandleShuffleTimer(s)
  PROVE  Sound(r, z, K)
<1>1. CASE r = s
  BY <1>1
<1>2. CASE r # s
  <2>1. PICK q \in s.active : \E N \in ShufflePeers(s, q) :
            r = SendMessage(s, q, Shuffle(s.me, N \cup {s.me}, ShuffleWalk))
    BY <1>2 DEF HandleShuffleTimer
  <2>2. PICK M \in ShufflePeers(s, q) :
          r = SendMessage(s, q, Shuffle(s.me, M \cup {s.me}, ShuffleWalk))
    BY <2>1
  <2>3. M \subseteq s.active \cup s.passive
    BY <2>2 DEF ShufflePeers, Capped
  <2>4. q \in Nodes \cap K /\ M \cup {s.me} \subseteq K /\ s.me \in K
    BY <2>1, <2>3 DEF Good, HState, Sound
  <2>5. CalmPacket(Shuffle(s.me, M \cup {s.me}, ShuffleWalk), K)
    BY <2>4 DEF CalmPacket, Shuffle
  <2> QED
    BY <2>2, <2>4, <2>5, SendMessageSound
<1> QED
  BY <1>1, <1>2

LEMMA HandlePendingNeighborTimerSound ==
  ASSUME NEW n \in Nodes, NEW s, Good(s, n), NEW z, NEW K, Sound(s, z, K),
         NEW p \in Nodes, s.timers[p] > 0, NEW r \in HandlePendingNeighborTimer(s, p)
  PROVE  Sound(r, z, K)
<1> DEFINE f == [s.timers EXCEPT ![p] = @ - 1]
           t == [s EXCEPT !.timers = f]
           u == [t EXCEPT !.pending = @ \ {p}, !.passive = @ \ {p}]
<1>0. /\ Cardinality(s.passive \ {p}) <= Cardinality(s.passive)
      /\ Cardinality(s.passive \ {p}) \in Nat /\ Cardinality(s.passive) \in Nat
  BY Removing, NodeSets DEF Good, HState
<1>1. f \in [Nodes -> Nat]
  BY DEF Good, HState
<1>2. r = t \/ r \in Refill(u, {})
  BY DEF HandlePendingNeighborTimer, Good, HState
<1> HIDE DEF f
<1>3. /\ t.active = s.active /\ t.passive = s.passive /\ t.pending = s.pending
      /\ t.sent = s.sent
  BY <1>1 DEF Good, HState
<1>4. /\ u \in HState /\ u.me = s.me /\ u.active = s.active /\ u.sent = s.sent
      /\ u.passive = s.passive \ {p} /\ u.pending = s.pending \ {p}
  BY <1>1 DEF Good, HState
<1> HIDE DEF t, u
<1>5. Good(u, n)
  BY <1>0, <1>4, HyParViewAssumption DEF Good, WellFormed
<1>6. Sound(t, z, K) /\ Sound(u, z, K)
  BY <1>3, <1>4 DEF Sound
<1> QED
  BY <1>2, <1>5, <1>6, RefillSound

\* Handling any message that may travel while nothing disturbs the topic.
LEMMA HandleSound ==
  ASSUME Roomy, NEW n \in Nodes, NEW s, Good(s, n), NEW K, Sound(s, s, K),
         NEW p \in Nodes \cap K, p # n, NEW m \in PacketTo(n), CalmPacket(m, K),
         NEW r \in Handle(s, p, m)
  PROVE  /\ Sound(r, s, K)
         /\ m.kind = "Neighbor" =>
              p \in r.active /\ (p \in s.pending \/ Asks(r.sent[p]))
<1>1. CASE m.kind = "Join"
  <2>1. r \in OnJoin(s, p)
    BY <1>1 DEF Handle
  <2> QED
    BY <1>1, <2>1, OnJoinSound
<1>2. CASE m.kind = "ForwardJoin"
  <2>1. r \in OnForwardJoin(s, p, m)
    BY <1>2 DEF Handle
  <2>2. m.peer \in (Nodes \cap K) \ {n}
    BY <1>2 DEF PacketTo, CalmPacket
  <2> QED
    BY <1>2, <2>1, <2>2, OnForwardJoinSound
<1>3. CASE m.kind = "Neighbor"
  <2>1. r \in OnNeighbor(s, p, m.priority)
    BY <1>3 DEF Handle
  <2>2. m.priority \in {"High", "Low"}
    BY <1>3 DEF PacketTo
  <2> QED
    BY <2>1, <2>2, OnNeighborSound
<1>4. CASE m.kind = "Shuffle"
  <2>1. r \in OnShuffle(s, p, m)
    BY <1>4 DEF Handle
  <2>2. m.origin \in Nodes \cap K /\ m.nodes \in SUBSET (Nodes \cap K)
    BY <1>4 DEF PacketTo, CalmPacket
  <2> QED
    BY <1>4, <2>1, <2>2, OnShuffleSound
<1>5. CASE m.kind = "ShuffleReply"
  <2>1. r \in OnShuffleReply(s, m.nodes)
    BY <1>5 DEF Handle
  <2>2. m.nodes \in SUBSET (Nodes \cap K)
    BY <1>5 DEF PacketTo, CalmPacket
  <2> QED
    BY <1>5, <2>1, <2>2, OnShuffleReplySound
<1>6. m.kind \in {"Join", "ForwardJoin", "Neighbor", "Shuffle", "ShuffleReply"}
  BY DEF PacketTo, CalmPacket
<1> QED
  BY <1>1, <1>2, <1>3, <1>4, <1>5, <1>6

-----------------------------------------------------------------------------
(* The steps. *)

\* A calm stream stays calm when more nodes become members.
LEMMA CalmMonotonic ==
  ASSUME NEW K, NEW L, K \subseteq L, NEW q, NEW p, CalmStream(q, p, K)
  PROVE  CalmStream(q, p, L)
BY DEF CalmStream, CalmPacket

\* No connection has ended that its other end does not know of.
LEMMA NobodyIsDead ==
  ASSUME NEW links, \A l \in Links : links[l] \in Seq(PacketTo(l[2])),
         NEW K, \A l \in Links : CalmStream(links[l], l[2], K),
         NEW n \in Nodes, NEW p \in Nodes, p # n
  PROVE  ~Dead(links, n, p)
<1>1. <<p, n>> \in Links /\ <<p, n>>[2] = n
  BY DEF Links
<1>2. links[<<p, n>>] \in Seq(PacketTo(n))
  BY <1>1
<1>3. links[<<p, n>>] # <<>> => 1 \in DOMAIN links[<<p, n>>]
  BY <1>2
<1>4. links[<<p, n>>] # <<>> => links[<<p, n>>][1].kind # "Closed"
  BY <1>1, <1>3 DEF CalmStream, CalmPacket
<1> QED
  BY <1>4 DEF Dead, Closed

\* Node n moves on to a sound outcome; links is what it left on the streams,
\* after it read at most one message.
LEMMA SoundStep ==
  ASSUME Inv, Settled, NEW n \in Nodes, NEW K, K = member \cup {n}, member' = K,
         NEW r, Good(r, n), Sound(r, State(n), K),
         NEW links, Becomes(n, r, links),
         \A l \in Links : /\ links[l] \in Seq(PacketTo(l[2]))
                          /\ CalmStream(links[l], l[2], member)
                          /\ links[l] # <<>> => l[1] \in member
                          /\ l[2] # n => links[l] = net[l],
         \A p \in Nodes \ {n} : Asks(net[<<p, n>>]) =>
           \/ Asks(links[<<p, n>>])
           \/ p \in r.active /\ (p \in pending[n] \/ Asks(r.sent[p]))
  PROVE  Settled'
<1>1. ASSUME NEW l \in Links
      PROVE  net'[l] = IF l[1] = n THEN links[l] \o r.sent[l[2]] ELSE links[l]
  <2>1. l[1] \in Nodes /\ l[2] \in Nodes /\ l[1] # l[2]
    BY DEF Links
  <2>2. /\ l[1] = n => ~Dead(links, n, l[2])
        /\ l[2] = n => ~Dead(links, n, l[1])
    BY <2>1, NobodyIsDead
  <2> QED
    BY <2>1, <2>2 DEF Becomes
<1>2. \A p \in Nodes : /\ r.sent[p] \in Seq(PacketTo(p))
                       /\ CalmStream(r.sent[p], p, K)
  BY DEF Good, HState, Outbox, Sound
<1>3. /\ active'[n] = r.active /\ passive'[n] = r.passive /\ pending'[n] = r.pending
      /\ \A x \in Nodes \ {n} : /\ active'[x] = active[x] /\ passive'[x] = passive[x]
                                /\ pending'[x] = pending[x]
  BY DEF Becomes, Inv, TypeOK
<1>4. CalmNet'
  <2> SUFFICES ASSUME NEW l \in Links
               PROVE  CalmStream(net'[l], l[2], K) /\ (net'[l] # <<>> => l[1] \in K)
    BY DEF CalmNet
  <2>1. l[2] \in Nodes
    BY DEF Links
  <2>2. CalmStream(links[l], l[2], K)
    BY CalmMonotonic
  <2>3. CASE l[1] = n
    <3>1. net'[l] = links[l] \o r.sent[l[2]]
      BY <1>1, <2>3
    <3>2. CalmStream(links[l] \o r.sent[l[2]], l[2], K)
      BY <1>2, <2>1, <2>2, ConcatCalm
    <3> QED
      BY <2>3, <3>1, <3>2
  <2>4. CASE l[1] # n
    BY <1>1, <2>2, <2>4
  <2> QED
    BY <2>3, <2>4
<1>5. Acquainted'
  <2>1. r.active \cup r.passive \cup r.pending \subseteq K
    BY DEF Sound
  <2> QED
    BY <1>3, <2>1 DEF Settled, Acquainted
<1>6. ASSUME NEW p \in Nodes \ {n}
      PROVE  /\ Asks(net[<<n, p>>]) \/ Asks(r.sent[p]) => Asks(net'[<<n, p>>])
             /\ net'[<<p, n>>] = links[<<p, n>>]
             /\ \A x \in Nodes \ {n, p} : net'[<<x, p>>] = net[<<x, p>>]
  <2>1. <<n, p>> \in Links /\ <<p, n>> \in Links
    BY DEF Links
  <2>2. links[<<n, p>>] = net[<<n, p>>] /\ links[<<n, p>>] \in Seq(PacketTo(p))
    BY <2>1
  <2>3. net'[<<n, p>>] = net[<<n, p>>] \o r.sent[p]
    BY <1>1, <2>1, <2>2
  <2>4. Asks(net[<<n, p>>]) \/ Asks(r.sent[p]) => Asks(net'[<<n, p>>])
    BY <1>2, <2>2, <2>3, ConcatAsks
  <2>5. net'[<<p, n>>] = links[<<p, n>>]
    BY <1>1, <2>1
  <2>6. ASSUME NEW x \in Nodes \ {n, p} PROVE net'[<<x, p>>] = net[<<x, p>>]
    <3>1. <<x, p>> \in Links
      BY DEF Links
    <3> QED
      BY <1>1, <3>1
  <2> QED
    BY <2>4, <2>5, <2>6
<1>7. /\ State(n).active = active[n] /\ State(n).pending = pending[n]
      /\ active[n] \subseteq r.active
      /\ \A p \in (r.active \ active[n]) \cup r.pending :
           p \in pending[n] \/ Asks(r.sent[p])
  BY DEF State, Sound
<1>8. n \notin r.active \cup r.pending /\ r.active \cup r.pending \subseteq Nodes
  BY DEF Good, WellFormed, HState
<1>9. ASSUME NEW p \in Nodes \ {n}
      PROVE  /\ p \in r.active \cup r.pending => n \in active[p] \/ Asks(net'[<<n, p>>])
             /\ p \in r.pending =>
                  p \in r.active \/ Asks(net'[<<n, p>>]) \/ Asks(net'[<<p, n>>])
  <2>1. /\ p \in active[n] \cup pending[n] => n \in active[p] \/ Asks(net[<<n, p>>])
        /\ p \in pending[n] =>
             p \in active[n] \/ Asks(net[<<n, p>>]) \/ Asks(net[<<p, n>>])
    BY DEF Settled, Answered
  <2>2. p \in r.active \cup r.pending => n \in active[p] \/ Asks(net'[<<n, p>>])
    BY <1>6, <1>7, <2>1
  <2>3. p \in r.pending =>
          p \in r.active \/ Asks(net'[<<n, p>>]) \/ Asks(net'[<<p, n>>])
    BY <1>6, <1>7, <2>1
  <2> QED
    BY <2>2, <2>3
<1>10. ASSUME NEW p \in Nodes \ {n}
       PROVE  /\ n \in active[p] \cup pending[p] => p \in r.active \/ Asks(net'[<<p, n>>])
              /\ n \in pending[p] =>
                   n \in active[p] \/ Asks(net'[<<p, n>>]) \/ Asks(net'[<<n, p>>])
  <2>1. /\ n \in active[p] \cup pending[p] => p \in active[n] \/ Asks(net[<<p, n>>])
        /\ n \in pending[p] =>
             n \in active[p] \/ Asks(net[<<p, n>>]) \/ Asks(net[<<n, p>>])
        /\ p \in pending[n] => n \in active[p] \/ Asks(net[<<n, p>>])
    BY DEF Settled, Answered
  <2>2. Asks(net[<<p, n>>]) =>
          \/ Asks(net'[<<p, n>>])
          \/ p \in r.active /\ (p \in pending[n] \/ Asks(r.sent[p]))
    BY <1>6
  <2> QED
    BY <1>6, <1>7, <2>1, <2>2
<1>11. Answered'
  <2> SUFFICES ASSUME NEW x \in Nodes, NEW p \in Nodes
               PROVE  /\ p \in active'[x] \cup pending'[x] =>
                           x \in active'[p] \/ Asks(net'[<<x, p>>])
                      /\ p \in pending'[x] =>
                           p \in active'[x] \/ Asks(net'[<<x, p>>]) \/ Asks(net'[<<p, x>>])
    BY DEF Answered
  <2>1. CASE x = n /\ p # n
    BY <1>3, <1>9, <2>1
  <2>2. CASE x # n /\ p = n
    BY <1>3, <1>10, <2>2
  <2>3. CASE x # n /\ p # n
    <3>1. p # x => net'[<<x, p>>] = net[<<x, p>>] /\ net'[<<p, x>>] = net[<<p, x>>]
      BY <1>6, <2>3
    <3>2. p = x => p \notin active[x] \cup pending[x]
      BY DEF Inv, ViewsWellFormed
    <3>3. /\ p \in active[x] \cup pending[x] => x \in active[p] \/ Asks(net[<<x, p>>])
          /\ p \in pending[x] =>
               p \in active[x] \/ Asks(net[<<x, p>>]) \/ Asks(net[<<p, x>>])
      BY DEF Settled, Answered
    <3> QED
      BY <1>3, <2>3, <3>1, <3>2, <3>3
  <2>4. CASE x = n /\ p = n
    BY <1>3, <1>8, <2>4
  <2> QED
    BY <2>1, <2>2, <2>3, <2>4
<1> QED
  BY <1>4, <1>5, <1>11 DEF Settled

\* A handler starts from a sound state.
LEMMA StateSound ==
  ASSUME Inv, Settled, NEW n \in Nodes, NEW K, member \subseteq K
  PROVE  Sound(State(n), State(n), K)
<1>1. /\ State(n).active = active[n] /\ State(n).passive = passive[n]
      /\ State(n).pending = pending[n]
      /\ \A p \in Nodes : State(n).sent[p] = <<>>
  BY DEF State
<1>2. \A p : CalmStream(<<>>, p, K)
  BY DEF CalmStream
<1> QED
  BY <1>1, <1>2 DEF Sound, Settled, Acquainted

\* What is left of a stream once a message of it was read.
LEMMA TakenCalm ==
  ASSUME Inv, Settled, NEW l \in Links, NEW i \in Deliverable(l)
  PROVE  /\ CalmStream(Taken(l, i), l[2], member)
         /\ Asks(net[l]) => Asks(Taken(l, i)) \/ net[l][i].kind = "Neighbor"
         /\ CalmPacket(net[l][i], member) /\ l[1] \in member
         /\ net[l][i].kind # "Join" => l[2] \in member
<1>1. /\ net[l] \in Seq(PacketTo(l[2])) /\ i \in 1 .. Len(net[l])
      /\ CalmStream(net[l], l[2], member)
      /\ net[l] # <<>> => l[1] \in member
  BY DEF Inv, TypeOK, Deliverable, Settled, CalmNet
<1>2. i \in DOMAIN net[l] /\ 1 \in DOMAIN net[l] /\ net[l] # <<>>
  BY <1>1
<1>3. net[l][1] # Closed
  BY <1>1, <1>2 DEF CalmStream, CalmPacket, Closed
<1>4. Taken(l, i) = Without(net[l], i)
  BY <1>3, Zenon DEF Taken
<1>5. /\ CalmStream(Without(net[l], i), l[2], member)
      /\ Asks(net[l]) => Asks(Without(net[l], i)) \/ net[l][i].kind = "Neighbor"
  BY <1>1, WithoutCalm
<1>6. CalmPacket(net[l][i], member) /\ (net[l][i].kind # "Join" => l[2] \in member)
  BY <1>1, <1>2 DEF CalmStream
<1>7. l[1] \in member
  BY <1>1, <1>2
<1> QED
  BY <1>4, <1>5, <1>6, <1>7

LEMMA ReceiveSettled ==
  ASSUME Roomy, Inv, Settled, NEW l \in Links, NEW i \in Deliverable(l),
         Receive(l[2], l[1], i)
  PROVE  Settled'
<1>1. PICK n, p, K : n = l[2] /\ p = l[1] /\ K = member
  OBVIOUS
<1>2. /\ TypeOK /\ ViewsWellFormed /\ n \in Nodes /\ p \in Nodes /\ p # n
      /\ l = <<p, n>>
  BY <1>1, LinkEnds DEF Inv
<1>3. PICK links : links = [net EXCEPT ![l] = Taken(l, i)]
  OBVIOUS
<1>4. PICK r \in Handle(State(n), p, net[l][i]) : Becomes(n, r, links)
  BY <1>1, <1>2, <1>3 DEF Receive
<1>5. n \in K /\ member' = K /\ K = member \cup {n}
  BY <1>1 DEF Receive
<1>6. Good(State(n), n) /\ Sound(State(n), State(n), K)
  BY <1>1, <1>2, StateGood, StateSound
<1>7. /\ net[l][i] \in PacketTo(n) /\ CalmPacket(net[l][i], K) /\ p \in Nodes \cap K
      /\ CalmStream(Taken(l, i), n, K) /\ Taken(l, i) \in Seq(PacketTo(n))
      /\ Asks(net[l]) => Asks(Taken(l, i)) \/ net[l][i].kind = "Neighbor"
  BY <1>1, <1>2, TakenType, TakenCalm
<1>8. Good(r, n)
  BY <1>2, <1>4, <1>6, <1>7, HandleGood
<1>9. /\ Sound(r, State(n), K)
      /\ net[l][i].kind = "Neighbor" =>
           p \in r.active /\ (p \in State(n).pending \/ Asks(r.sent[p]))
  BY <1>2, <1>4, <1>6, <1>7, HandleSound
<1>10. State(n).pending = pending[n]
  BY DEF State
<1>11. links[l] = Taken(l, i) /\ \A k \in Links \ {l} : links[k] = net[k]
  BY <1>2, <1>3 DEF TypeOK
<1>12. ASSUME NEW k \in Links
       PROVE  /\ links[k] \in Seq(PacketTo(k[2]))
              /\ CalmStream(links[k], k[2], member)
              /\ links[k] # <<>> => k[1] \in member
              /\ k[2] # n => links[k] = net[k]
  <2>1. CASE k = l
    BY <1>1, <1>7, <1>11, <2>1
  <2>2. CASE k # l
    BY <1>2, <1>11, <2>2 DEF TypeOK, Settled, CalmNet
  <2> QED
    BY <2>1, <2>2
<1>13. ASSUME NEW q \in Nodes \ {n}, Asks(net[<<q, n>>])
       PROVE  \/ Asks(links[<<q, n>>])
              \/ q \in r.active /\ (q \in pending[n] \/ Asks(r.sent[q]))
  <2>1. CASE q = p
    BY <1>2, <1>7, <1>9, <1>10, <1>11, <1>13, <2>1
  <2>2. CASE q # p
    <3>1. <<q, n>> \in Links /\ <<q, n>> # l
      BY <1>2, <2>2 DEF Links
    <3> QED
      BY <1>11, <1>13, <3>1
  <2> QED
    BY <2>1, <2>2
<1> QED
  BY <1>2, <1>4, <1>5, <1>8, <1>9, <1>12, <1>13, SoundStep

\* A node that is not a member drops a Join, nothing else.
LEMMA IgnoreSettled ==
  ASSUME Inv, Settled, NEW l \in Links, NEW i \in Deliverable(l), Ignore(l[2], l[1], i)
  PROVE  Settled'
<1>1. l = <<l[1], l[2]>> /\ l[2] \notin member
  BY LinkEnds DEF Ignore
<1>2. net' = [net EXCEPT ![l] = Taken(l, i)] /\ UNCHANGED <<member, views>>
  BY <1>1 DEF Ignore
<1>3. /\ CalmStream(Taken(l, i), l[2], member) /\ l[1] \in member
      /\ net[l][i].kind = "Join"
      /\ Asks(net[l]) => Asks(Taken(l, i))
  BY <1>1, TakenCalm
<1>4. net'[l] = Taken(l, i) /\ \A k \in Links \ {l} : net'[k] = net[k]
  BY <1>2 DEF Inv, TypeOK
<1>5. CalmNet'
  BY <1>2, <1>3, <1>4 DEF Settled, CalmNet
<1>6. ASSUME NEW x \in Nodes, NEW p \in Nodes, x # p, Asks(net[<<x, p>>])
      PROVE  Asks(net'[<<x, p>>])
  <2>1. <<x, p>> \in Links
    BY <1>6 DEF Links
  <2> QED
    BY <1>3, <1>4, <1>6, <2>1
<1>7. \A x \in Nodes : x \notin active[x] \cup pending[x]
  BY DEF Inv, ViewsWellFormed
<1>8. Acquainted'
  BY <1>2 DEF views, Settled, Acquainted
<1>9. Answered'
  BY <1>2, <1>6, <1>7 DEF views, Settled, Answered
<1> QED
  BY <1>5, <1>8, <1>9 DEF Settled

\* A step of n that reads no message.
LEMMA LocalSettled ==
  ASSUME Inv, Settled, NEW n \in Nodes, NEW K, K = member \cup {n}, member' = K,
         NEW r, Good(r, n), Sound(r, State(n), K), Becomes(n, r, net)
  PROVE  Settled'
<1>1. PICK links : links = net
  OBVIOUS
<1>2. \A l \in Links : /\ links[l] \in Seq(PacketTo(l[2]))
                       /\ CalmStream(links[l], l[2], member)
                       /\ links[l] # <<>> => l[1] \in member
                       /\ l[2] # n => links[l] = net[l]
  BY <1>1 DEF Inv, TypeOK, Settled, CalmNet
<1>3. Becomes(n, r, links)
  BY <1>1
<1> QED
  BY <1>1, <1>2, <1>3, SoundStep

LEMMA JoinTopicSettled ==
  ASSUME Inv, Settled, NEW n \in Nodes, NEW peers \in SUBSET (Nodes \ {n}),
         JoinTopic(n, peers)
  PROVE  Settled'
<1>1. PICK K, r : K = member \cup {n} /\ r = SendToAll(State(n), peers, Join)
  OBVIOUS
<1>2. Good(State(n), n) /\ Sound(State(n), State(n), K)
  BY <1>1, StateGood, StateSound DEF Inv
<1>3. Good(r, n)
  <2>1. \A p \in peers : Join \in PacketTo(p)
    BY Packets
  <2> QED
    BY <1>1, <1>2, <2>1, SendToAllGood
<1>4. Sound(r, State(n), K)
  <2>1. CalmPacket(Join, K) /\ Join.kind = "Join" /\ peers \in SUBSET Nodes
    BY DEF CalmPacket, Join
  <2> QED
    BY <1>1, <1>2, <2>1, SendToAllSound
<1>5. Becomes(n, r, net) /\ member' = K
  BY <1>1 DEF JoinTopic
<1> QED
  BY <1>1, <1>3, <1>4, <1>5, LocalSettled

LEMMA TimersSettled ==
  ASSUME Inv, Settled, NEW n \in Nodes, NEW p \in Nodes,
         ShuffleTimer(n) \/ NeighborTimer(n, p)
  PROVE  Settled'
<1>1. PICK K : K = member
  OBVIOUS
<1>2. Good(State(n), n) /\ Sound(State(n), State(n), K) /\ member' = member
  BY <1>1, StateGood, StateSound DEF Inv, ShuffleTimer, NeighborTimer
<1>3. CASE ShuffleTimer(n)
  <2>1. PICK r \in HandleShuffleTimer(State(n)) : Becomes(n, r, net)
    BY <1>3 DEF ShuffleTimer
  <2>2. n \in K /\ K = member \cup {n}
    BY <1>1, <1>3 DEF ShuffleTimer
  <2>3. Good(r, n) /\ Sound(r, State(n), K)
    BY <1>2, <2>2, HandleShuffleTimerGood, HandleShuffleTimerSound
  <2> QED
    BY <1>1, <1>2, <2>1, <2>2, <2>3, LocalSettled
<1>4. CASE NeighborTimer(n, p) /\ n \in member
  <2>1. PICK r \in HandlePendingNeighborTimer(State(n), p) : Becomes(n, r, net)
    BY <1>4 DEF NeighborTimer
  <2>2. State(n).timers[p] > 0
    BY <1>4 DEF NeighborTimer, State
  <2>3. Good(r, n) /\ Sound(r, State(n), K)
    BY <1>2, <2>2, HandlePendingNeighborTimerGood, HandlePendingNeighborTimerSound
  <2>4. K = member \cup {n}
    BY <1>1, <1>4
  <2> QED
    BY <1>1, <1>2, <2>1, <2>3, <2>4, LocalSettled
<1>5. CASE NeighborTimer(n, p) /\ n \notin member
  <2>1. UNCHANGED <<member, active, passive, pending, net>>
    BY <1>5 DEF NeighborTimer
  <2> QED
    BY <2>1 DEF Settled, CalmNet, Acquainted, Answered
<1> QED
  BY <1>3, <1>4, <1>5

LEMMA SettledStep ==
  ASSUME Roomy, Inv, ~disturbed => Settled, [Next]_vars
  PROVE  (~disturbed => Settled)'
<1> SUFFICES ASSUME ~disturbed' PROVE Settled'
  OBVIOUS
<1>1. ASSUME disturbed' = disturbed PROVE Settled
  BY <1>1
<1>2. CASE UNCHANGED vars
  BY <1>1, <1>2 DEF vars, views, Settled, CalmNet, Acquainted, Answered
<1>3. ASSUME NEW l \in Links, NEW i \in Deliverable(l),
             Receive(l[2], l[1], i) \/ Ignore(l[2], l[1], i)
      PROVE  Settled'
  <2>1. Settled
    BY <1>1, <1>3 DEF Receive, Ignore
  <2> QED
    BY <1>3, <2>1, ReceiveSettled, IgnoreSettled
<1>4. ASSUME NEW n \in Nodes, NEW peers \in SUBSET (Nodes \ {n}), JoinTopic(n, peers)
      PROVE  Settled'
  <2>1. Settled
    BY <1>1, <1>4 DEF JoinTopic
  <2> QED
    BY <1>4, <2>1, JoinTopicSettled
<1>5. ASSUME NEW n \in Nodes, NEW p \in Nodes, ShuffleTimer(n) \/ NeighborTimer(n, p)
      PROVE  Settled'
  <2>1. Settled
    BY <1>1, <1>5 DEF ShuffleTimer, NeighborTimer
  <2> QED
    BY <1>5, <2>1, TimersSettled
<1>6. ASSUME NEW n \in Nodes, NEW p \in Nodes,
             Quit(n) \/ Break(n, p) \/ Unreachable(n, p)
      PROVE  FALSE
  BY <1>6 DEF Quit, Break, Unreachable
<1>7. \A l \in Links : l[1] \in Nodes /\ l[2] \in Nodes
  BY LinkEnds
<1> QED
  BY <1>2, <1>3, <1>4, <1>5, <1>6, <1>7 DEF Next

\* As long as no connection failed and nobody quit, concurrent joins, shuffles
\* and neighbour requests, and timeouts of requests that are answered late,
\* settle in views that agree, for every set of nodes whose active views have
\* room for all of it (on_join, on_forward_join, on_neighbor, send_neighbor).
THEOREM ViewsBecomeMutual ==
  Cardinality(Nodes) <= ActiveCapacity + 1 /\ Spec => []UndisturbedViewsAreMutual
<1>1. Init => (~disturbed => Settled)
  <2> SUFFICES ASSUME Init PROVE Settled
    OBVIOUS
  <2>1. CalmNet
    BY DEF Init, CalmNet, CalmStream
  <2>2. Acquainted /\ Answered
    BY DEF Init, Acquainted, Answered
  <2> QED
    BY <2>1, <2>2 DEF Settled
<1>2. Inv /\ (~disturbed => Settled) => UndisturbedViewsAreMutual
  <2> SUFFICES ASSUME Inv, Settled, Quiet, NEW n \in member, NEW p \in member
               PROVE  /\ p \in active[n] => n \in active[p]
                      /\ p \in pending[n] => p \in active[n]
    BY DEF UndisturbedViewsAreMutual
  <2>1. n \in Nodes /\ p \in Nodes
    BY DEF Inv, TypeOK
  <2>2. ~Asks(<<>>)
    BY DEF Asks
  <2>3. n # p => ~Asks(net[<<n, p>>]) /\ ~Asks(net[<<p, n>>])
    BY <2>1, <2>2 DEF Quiet, Links
  <2>4. n = p => p \notin active[n] \cup pending[n]
    BY <2>1 DEF Inv, ViewsWellFormed
  <2> QED
    BY <2>1, <2>3, <2>4 DEF Settled, Answered
<1>3. CASE Roomy
  <2>1. Inv /\ (~disturbed => Settled) /\ [Next]_vars => (~disturbed => Settled)'
    BY <1>3, SettledStep
  <2> QED
    BY <1>1, <1>2, <2>1, InitInv, NextInv, PTL DEF Spec
<1>4. CASE ~Roomy
  BY <1>4 DEF Roomy
<1> QED
  BY <1>3, <1>4

=============================================================================
