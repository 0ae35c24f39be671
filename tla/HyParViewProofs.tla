-------------------------- MODULE HyParViewProofs --------------------------
(***************************************************************************)
(* Theorems about HyParView, for every set of nodes, all capacities and    *)
(* walk lengths, and any number of joins, failures and quits.              *)
(***************************************************************************)
EXTENDS HyParView, FiniteSetTheorems, SequenceTheorems, TLAPS

Packet == UNION {PacketTo(n) : n \in Nodes}
Outbox == {f \in [Nodes -> Seq(Packet)] :
             \A p \in Nodes : f[p] \in Seq(PacketTo(p))}

\* The states the handlers work on.
HState == [me : Nodes, active : SUBSET Nodes, passive : SUBSET Nodes,
           pending : SUBSET Nodes, alive : SUBSET Nodes,
           timers : [Nodes -> Nat], sent : Outbox, dropped : SUBSET Nodes]

\* The part of ViewsWellFormed that speaks of one node.
WellFormed(s) ==
  /\ s.active \cap s.passive = {}
  /\ s.me \notin s.active \cup s.passive \cup s.pending
  /\ Cardinality(s.active) <= ActiveCapacity
  /\ Cardinality(s.passive) <= PassiveCapacity

\* What every handler expects of the state and guarantees for its outcomes.
Good(s, n) == s \in HState /\ WellFormed(s) /\ s.me = n

-----------------------------------------------------------------------------
(* Finite sets of nodes. *)

LEMMA NodeSets ==
  ASSUME NEW S \in SUBSET Nodes
  PROVE  /\ IsFiniteSet(S)
         /\ Cardinality(S) \in Nat
BY HyParViewAssumption, FS_Subset, FS_CardinalityType

LEMMA Removing ==
  ASSUME NEW S \in SUBSET Nodes, NEW p \in Nodes
  PROVE  /\ Cardinality(S \ {p}) <= Cardinality(S)
         /\ p \in S => Cardinality(S \ {p}) = Cardinality(S) - 1
BY NodeSets, FS_RemoveElement

LEMMA Adding ==
  ASSUME NEW S \in SUBSET Nodes, NEW p \in Nodes, p \notin S
  PROVE  Cardinality(S \cup {p}) = Cardinality(S) + 1
BY NodeSets, FS_AddElement

LEMMA CappedBounds ==
  ASSUME NEW S \in SUBSET Nodes, NEW k \in Int, NEW T \in Capped(S, k)
  PROVE  T \subseteq S /\ Cardinality(T) <= k
BY NodeSets DEF Capped

LEMMA SampleType ==
  ASSUME NEW P \in SUBSET Nodes, NEW A \in SUBSET Nodes, NEW len,
         NEW N \in Sample(P, A, len)
  PROVE  N \in SUBSET Nodes
BY DEF Sample, Capped

-----------------------------------------------------------------------------
(* The outbox. *)

LEMMA Packets ==
  ASSUME NEW n \in Nodes
  PROVE  /\ Join \in PacketTo(n)
         /\ Closed \in PacketTo(n)
         /\ \A p \in Nodes \ {n}, t \in Nat : ForwardJoin(p, t) \in PacketTo(n)
         /\ \A t \in {"High", "Low"} : Neighbor(t) \in PacketTo(n)
         /\ \A o \in Nodes, N \in SUBSET Nodes, t \in Nat :
              Shuffle(o, N, t) \in PacketTo(n)
         /\ \A N \in SUBSET Nodes : ShuffleReply(N) \in PacketTo(n)
         /\ \A b \in BOOLEAN : Disconnect(b) \in PacketTo(n)
BY DEF PacketTo, Join, Closed, ForwardJoin, Neighbor, Shuffle, ShuffleReply,
       Disconnect

LEMMA OutboxAppend ==
  ASSUME NEW f \in Outbox, NEW p \in Nodes, NEW m \in PacketTo(p)
  PROVE  [f EXCEPT ![p] = Append(@, m)] \in Outbox
<1>1. m \in Packet
  BY DEF Packet
<1>2. Append(f[p], m) \in Seq(Packet) /\ Append(f[p], m) \in Seq(PacketTo(p))
  BY <1>1, f[p] \in Seq(PacketTo(p)), f[p] \in Seq(Packet) DEF Outbox
<1> QED
  BY <1>2 DEF Outbox

LEMMA SendMessageGood ==
  ASSUME NEW n \in Nodes, NEW s, Good(s, n), NEW p \in Nodes,
         NEW m \in PacketTo(p)
  PROVE  /\ Good(SendMessage(s, p, m), n)
         /\ SendMessage(s, p, m).active = s.active
         /\ SendMessage(s, p, m).passive = s.passive
         /\ SendMessage(s, p, m).pending = s.pending
<1> DEFINE f == [s.sent EXCEPT ![p] = Append(@, m)]
           t == [s EXCEPT !.sent = f]
<1>1. s.sent \in Outbox
  BY DEF Good, HState
<1>2. f \in Outbox
  BY <1>1, OutboxAppend
<1>3. SendMessage(s, p, m) = t
  BY DEF Good, HState, SendMessage
<1> HIDE DEF f
<1>4. /\ t \in HState
      /\ t.me = s.me /\ t.active = s.active /\ t.passive = s.passive
      /\ t.pending = s.pending
  BY <1>2 DEF Good, HState
<1> QED
  BY <1>3, <1>4 DEF Good, WellFormed

LEMMA SendNeighborGood ==
  ASSUME NEW n \in Nodes, NEW s, Good(s, n), NEW p \in Nodes, p # n,
         NEW priority \in {"High", "Low"}
  PROVE  /\ Good(SendNeighbor(s, p, priority), n)
         /\ SendNeighbor(s, p, priority).active = s.active
<1> DEFINE t == [s EXCEPT !.pending = @ \cup {p}]
<1>1. t.active = s.active /\ Good(t, n)
  BY DEF Good, HState, WellFormed
<1>2. Neighbor(priority) \in PacketTo(p)
  BY Packets
<1> HIDE DEF t
<1>3. Good(SendMessage(t, p, Neighbor(priority)), n)
  BY <1>1, <1>2, SendMessageGood
<1>4. SendMessage(t, p, Neighbor(priority)).active = t.active
  BY <1>1, <1>2, SendMessageGood
<1> QED
  BY <1>1, <1>3, <1>4 DEF SendNeighbor, t

-----------------------------------------------------------------------------
(* The helpers of the handlers: every outcome of a good state is good. *)

LEMMA SendShuffleReplyGood ==
  ASSUME NEW n \in Nodes, NEW s, Good(s, n), NEW p \in Nodes, NEW len,
         NEW r \in SendShuffleReply(s, p, len)
  PROVE  Good(r, n) /\ r.active = s.active
<1>1. PICK N \in Sample(s.passive, s.active, len) :
        r = SendMessage(s, p, ShuffleReply(N))
  BY DEF SendShuffleReply
<1>2. s.passive \in SUBSET Nodes /\ s.active \in SUBSET Nodes
  BY DEF Good, HState
<1>3. ShuffleReply(N) \in PacketTo(p)
  BY <1>1, <1>2, SampleType, Packets
<1> QED
  BY <1>1, <1>3, SendMessageGood

LEMMA SendDisconnectGood ==
  ASSUME NEW n \in Nodes, NEW s, Good(s, n), NEW p \in Nodes,
         NEW isAlive \in BOOLEAN, NEW r \in SendDisconnect(s, p, isAlive)
  PROVE  Good(r, n) /\ r.active = s.active
<1>1. PICK q \in SendShuffleReply(s, p, FarewellLength) :
        r = [SendMessage(q, p, Disconnect(isAlive))
               EXCEPT !.dropped = @ \cup {p}]
  BY DEF SendDisconnect
<1> DEFINE t == SendMessage(q, p, Disconnect(isAlive))
<1>2. Good(q, n) /\ q.active = s.active
  BY <1>1, SendShuffleReplyGood
<1>3. Disconnect(isAlive) \in PacketTo(p)
  BY Packets
<1>4. Good(t, n) /\ t.active = s.active
  BY <1>2, <1>3, SendMessageGood
<1> HIDE DEF t
<1>5. r = [t EXCEPT !.dropped = @ \cup {p}]
  BY <1>1 DEF t
<1> QED
  BY <1>4, <1>5 DEF Good, HState, WellFormed

LEMMA AddPassiveGood ==
  ASSUME NEW n \in Nodes, NEW s, Good(s, n), NEW peers \in SUBSET Nodes,
         NEW r \in AddPassive(s, peers)
  PROVE  Good(r, n) /\ r.active = s.active /\ r.pending = s.pending
<1> DEFINE eligible == peers \ (s.active \cup {s.me})
<1>1. CASE r = s
  BY <1>1
<1>2. CASE r # s
  <2>1. PICK Q \in Capped(s.passive \cup eligible, PassiveCapacity) :
          r = [s EXCEPT !.passive = Q]
    BY <1>2 DEF AddPassive
  <2>2. s.passive \cup eligible \in SUBSET Nodes
    BY DEF Good, HState
  <2>3. Q \subseteq s.passive \cup eligible /\ Cardinality(Q) <= PassiveCapacity
    BY <2>1, <2>2, CappedBounds, HyParViewAssumption
  <2> QED
    BY <2>1, <2>2, <2>3 DEF Good, HState, WellFormed
<1> QED
  BY <1>1, <1>2

LEMMA RefillGood ==
  ASSUME NEW n \in Nodes, NEW s, Good(s, n), NEW skip,
         NEW r \in Refill(s, skip)
  PROVE  Good(r, n)
<1>1. CASE r = s
  BY <1>1
<1>2. CASE r # s
  <2> DEFINE priority == IF s.active = {} THEN "High" ELSE "Low"
  <2>1. PICK p \in s.passive \ (skip \cup s.pending) :
          r = [SendNeighbor(s, p, priority) EXCEPT !.timers[p] = @ + 1]
    BY <1>2 DEF Refill
  <2>2. p \in Nodes /\ p # n
    BY <2>1 DEF Good, HState, WellFormed
  <2> DEFINE t == SendNeighbor(s, p, priority)
  <2>3. Good(t, n)
    BY <2>2, SendNeighborGood
  <2>4. r = [t EXCEPT !.timers[p] = @ + 1]
    BY <2>1
  <2> HIDE DEF t
  <2>5. [t.timers EXCEPT ![p] = @ + 1] \in [Nodes -> Nat]
    BY <2>2, <2>3 DEF Good, HState
  <2>6. r = [t EXCEPT !.timers = [t.timers EXCEPT ![p] = @ + 1]]
    BY <2>3, <2>4 DEF Good, HState
  <2> QED
    BY <2>3, <2>5, <2>6 DEF Good, HState, WellFormed
<1> QED
  BY <1>1, <1>2

\* A peer leaves the active view, whatever else changes about the peer.
LEMMA WithoutActive ==
  ASSUME NEW n \in Nodes, NEW s, Good(s, n), NEW p \in Nodes
  PROVE  Good([s EXCEPT !.active = @ \ {p}], n)
<1>1. Cardinality(s.active \ {p}) <= Cardinality(s.active)
  BY Removing DEF Good, HState
<1>2. Cardinality(s.active \ {p}) \in Nat /\ Cardinality(s.active) \in Nat
  BY NodeSets DEF Good, HState
<1> QED
  BY <1>1, <1>2, HyParViewAssumption DEF Good, HState, WellFormed

LEMMA RemoveRandomGood ==
  ASSUME NEW n \in Nodes, NEW s, Good(s, n), NEW p \in s.active,
         NEW r \in RemoveRandom(s, p)
  PROVE  Good(r, n) /\ r.active = s.active \ {p}
<1> DEFINE t == [s EXCEPT !.active = @ \ {p}]
<1>0. p \in Nodes
  BY DEF Good, HState
<1>1. Good(t, n) /\ t.active = s.active \ {p}
  BY <1>0, WithoutActive DEF Good, HState
<1>2. PICK q \in SendDisconnect(t, p, TRUE) :
        r \in AddPassive([q EXCEPT !.alive = @ \cup {p}], {p})
  BY DEF RemoveRandom
<1> HIDE DEF t
<1>a. \A b \in BOOLEAN : \A x \in SendDisconnect(t, p, b) :
        Good(x, n) /\ x.active = t.active
  BY <1>0, <1>1, SendDisconnectGood
<1>3. Good(q, n) /\ q.active = t.active
  BY <1>2, <1>a
<1> DEFINE u == [q EXCEPT !.alive = @ \cup {p}]
<1>4. Good(u, n) /\ u.active = q.active
  BY <1>0, <1>3 DEF Good, HState, WellFormed
<1>5. r \in AddPassive(u, {p}) /\ {p} \in SUBSET Nodes
  BY <1>0, <1>2
<1> HIDE DEF u
<1> QED
  BY <1>1, <1>3, <1>4, <1>5, AddPassiveGood

LEMMA RemoveDisconnectedGood ==
  ASSUME NEW n \in Nodes, NEW s, Good(s, n), NEW p \in Nodes,
         NEW isAlive, NEW r \in RemoveDisconnected(s, p, isAlive)
  PROVE  Good(r, n)
<1> DEFINE t == [s EXCEPT !.active = @ \ {p}, !.dropped = @ \cup {p}]
           u == [t EXCEPT !.alive = @ \cup {p}]
<1>1. Good([s EXCEPT !.active = @ \ {p}], n)
  BY WithoutActive
<1>2. Good(t, n) /\ Good(u, n)
  BY <1>1 DEF Good, HState, WellFormed
<1>3. r = t \/ r \in AddPassive(u, {p})
  BY DEF RemoveDisconnected
<1> HIDE DEF t, u
<1> QED
  BY <1>2, <1>3, AddPassiveGood, {p} \in SUBSET Nodes

LEMMA RemoveClosedGood ==
  ASSUME NEW n \in Nodes, NEW s, Good(s, n), NEW p \in Nodes,
         NEW r \in RemoveClosed(s, p)
  PROVE  Good(r, n)
<1> DEFINE t == [s EXCEPT !.active = @ \ {p}, !.alive = @ \ {p},
                          !.dropped = @ \cup {p}]
<1>1. Good([s EXCEPT !.active = @ \ {p}], n)
  BY WithoutActive
<1>2. Good(t, n)
  BY <1>1 DEF Good, HState, WellFormed
<1>3. r = t \/ r \in AddPassive(t, {p})
  BY DEF RemoveClosed
<1> HIDE DEF t
<1> QED
  BY <1>2, <1>3, AddPassiveGood, {p} \in SUBSET Nodes

LEMMA AddActiveUncheckedGood ==
  ASSUME NEW n \in Nodes, NEW s, Good(s, n), NEW p \in Nodes, p # n,
         p \notin s.active, Cardinality(s.active) < ActiveCapacity,
         NEW priority \in {"High", "Low"}, NEW reply \in BOOLEAN
  PROVE  Good(AddActiveUnchecked(s, p, priority, reply), n)
<1> DEFINE t == [s EXCEPT !.passive = @ \ {p}, !.active = @ \cup {p}]
<1>1. Cardinality(s.active \cup {p}) = Cardinality(s.active) + 1
  BY Adding DEF Good, HState
<1>2. Cardinality(s.passive \ {p}) <= Cardinality(s.passive)
  BY Removing DEF Good, HState
<1>3. /\ Cardinality(s.active) \in Nat /\ Cardinality(s.passive) \in Nat
      /\ Cardinality(s.passive \ {p}) \in Nat
  BY NodeSets DEF Good, HState
<1>4. /\ t \in HState
      /\ t.me = s.me /\ t.pending = s.pending
      /\ t.active = s.active \cup {p} /\ t.passive = s.passive \ {p}
  BY DEF Good, HState
<1> HIDE DEF t
<1>6. Good(t, n)
  BY <1>1, <1>2, <1>3, <1>4, HyParViewAssumption DEF Good, WellFormed
<1>5. Good(SendNeighbor(t, p, priority), n)
  BY <1>6, SendNeighborGood
<1> QED
  BY <1>5, <1>6 DEF AddActiveUnchecked, t

LEMMA AddActiveGood ==
  ASSUME NEW n \in Nodes, NEW s, Good(s, n), NEW p \in Nodes, p # n,
         NEW priority \in {"High", "Low"}, NEW reply \in BOOLEAN,
         NEW r \in AddActive(s, p, priority, reply)
  PROVE  Good(r, n)
<1>1. CASE p \in s.active
  <2>1. r = s \/ r = SendNeighbor(s, p, priority)
    BY <1>1 DEF AddActive
  <2> QED
    BY <2>1, SendNeighborGood
<1>2. CASE p \notin s.active /\ ~IsFull(s)
  <2>1. r = AddActiveUnchecked(s, p, priority, reply)
    BY <1>2 DEF AddActive
  <2>2. Cardinality(s.active) < ActiveCapacity
    BY <1>2, NodeSets, HyParViewAssumption DEF IsFull, Good, HState
  <2> QED
    BY <1>2, <2>1, <2>2, AddActiveUncheckedGood
<1>3. CASE p \notin s.active /\ IsFull(s)
  <2>0. PICK q \in s.active :
          \E t \in RemoveRandom(s, q) :
            r = AddActiveUnchecked(t, p, priority, reply)
    BY <1>3 DEF AddActive
  <2>1. PICK t \in RemoveRandom(s, q) :
          r = AddActiveUnchecked(t, p, priority, reply)
    BY <2>0
  <2>2. Good(t, n) /\ t.active = s.active \ {q}
    BY <2>0, <2>1, RemoveRandomGood
  <2>3. Cardinality(s.active \ {q}) = Cardinality(s.active) - 1
    BY <2>0, Removing DEF Good, HState
  <2>4. Cardinality(t.active) < ActiveCapacity
    BY <2>2, <2>3, NodeSets, HyParViewAssumption DEF Good, HState, WellFormed
  <2> QED
    BY <1>3, <2>1, <2>2, <2>4, AddActiveUncheckedGood
<1> QED
  BY <1>1, <1>2, <1>3

-----------------------------------------------------------------------------
(* The handlers. *)

LEMMA SendToAllGood ==
  ASSUME NEW n \in Nodes, NEW s, Good(s, n), NEW peers \in SUBSET Nodes, NEW m,
         \A p \in peers : m \in PacketTo(p)
  PROVE  Good(SendToAll(s, peers, m), n)
<1> DEFINE f == [p \in Nodes |-> IF p \in peers THEN Append(s.sent[p], m)
                                 ELSE s.sent[p]]
<1>1. s.sent \in Outbox
  BY DEF Good, HState
<1>2. ASSUME NEW p \in Nodes
      PROVE  f[p] \in Seq(Packet) /\ f[p] \in Seq(PacketTo(p))
  <2>1. s.sent[p] \in Seq(Packet) /\ s.sent[p] \in Seq(PacketTo(p))
    BY <1>1 DEF Outbox
  <2>2. CASE p \in peers
    <3>1. m \in PacketTo(p) /\ m \in Packet
      BY <2>2 DEF Packet
    <3>2. /\ Append(s.sent[p], m) \in Seq(Packet)
          /\ Append(s.sent[p], m) \in Seq(PacketTo(p))
      BY <2>1, <3>1
    <3> QED
      BY <2>2, <3>2
  <2>3. CASE p \notin peers
    BY <2>1, <2>3
  <2> QED
    BY <2>2, <2>3
<1>3. f \in Outbox
  BY <1>2 DEF Outbox
<1>4. SendToAll(s, peers, m) = [s EXCEPT !.sent = f]
  BY DEF SendToAll, Good, HState
<1> HIDE DEF f
<1> QED
  BY <1>3, <1>4 DEF Good, HState, WellFormed

LEMMA OnJoinGood ==
  ASSUME NEW n \in Nodes, NEW s, Good(s, n), NEW p \in Nodes, p # n,
         NEW r \in OnJoin(s, p)
  PROVE  Good(r, n)
<1>1. PICK t \in AddActive(s, p, "High", TRUE) :
        r = SendToAll(t, t.active \ {p}, ForwardJoin(p, ARWL))
  BY DEF OnJoin
<1>a. \A b \in BOOLEAN : \A x \in AddActive(s, p, "High", b) : Good(x, n)
  BY AddActiveGood
<1>2. Good(t, n)
  BY <1>1, <1>a
<1>3. t.active \ {p} \in SUBSET Nodes
  BY <1>2 DEF Good, HState
<1>4. \A q \in t.active \ {p} : ForwardJoin(p, ARWL) \in PacketTo(q)
  BY <1>3, Packets, HyParViewAssumption
<1> QED
  BY <1>1, <1>2, <1>3, <1>4, SendToAllGood

LEMMA OnForwardJoinGood ==
  ASSUME NEW n \in Nodes, NEW s, Good(s, n), NEW p \in Nodes, NEW m,
         m.peer \in Nodes \ {n}, m.ttl \in Nat, NEW r \in OnForwardJoin(s, p, m)
  PROVE  Good(r, n)
<1>1. CASE m.peer \in s.active \/ m.ttl = 0 \/ Cardinality(s.active) <= 1
  <2>1. r = SendNeighbor(s, m.peer, "High")
    BY <1>1 DEF OnForwardJoin
  <2> QED
    BY <2>1, SendNeighborGood
<1>2. CASE ~(m.peer \in s.active \/ m.ttl = 0 \/ Cardinality(s.active) <= 1)
  <2> DEFINE noted == IF m.ttl = PRWL THEN AddPassive(s, {m.peer}) ELSE {s}
  <2>1. \A t \in noted : Good(t, n)
    BY AddPassiveGood, {m.peer} \in SUBSET Nodes
  <2>2. CASE m.peer \in s.pending
    BY <1>2, <2>1, <2>2 DEF OnForwardJoin
  <2>3. CASE m.peer \notin s.pending
    <3> HIDE DEF noted
    <3>1. r \in UNION {{SendMessage(t, q, ForwardJoin(m.peer, m.ttl - 1)) :
                          q \in s.active \ {p}} : t \in noted}
      BY <1>2, <2>3, Zenon DEF OnForwardJoin, noted
    <3>2. PICK t \in noted : \E q \in s.active \ {p} :
            r = SendMessage(t, q, ForwardJoin(m.peer, m.ttl - 1))
      BY <3>1
    <3>3. PICK q \in s.active \ {p} :
            r = SendMessage(t, q, ForwardJoin(m.peer, m.ttl - 1))
      BY <3>2
    <3>4. q \in Nodes /\ m.peer \in Nodes \ {q} /\ m.ttl - 1 \in Nat
      BY <1>2, <3>3 DEF Good, HState
    <3>5. ForwardJoin(m.peer, m.ttl - 1) \in PacketTo(q)
      BY <3>4, Packets
    <3> QED
      BY <2>1, <3>2, <3>3, <3>4, <3>5, SendMessageGood
  <2> QED
    BY <2>2, <2>3
<1> QED
  BY <1>1, <1>2

LEMMA OnNeighborGood ==
  ASSUME NEW n \in Nodes, NEW s, Good(s, n), NEW p \in Nodes, p # n,
         NEW priority \in {"High", "Low"}, NEW r \in OnNeighbor(s, p, priority)
  PROVE  Good(r, n)
<1> DEFINE t == [s EXCEPT !.pending = @ \ {p}]
           reply == p \notin s.pending
<1>1. Good(t, n)
  BY DEF Good, HState, WellFormed
<1>2. \/ r \in SendDisconnect(t, p, TRUE)
      \/ r \in AddActive(t, p, priority, reply)
  BY DEF OnNeighbor
<1>3. reply \in BOOLEAN
  OBVIOUS
<1> HIDE DEF t, reply
<1>4. \A b \in BOOLEAN : \A x \in SendDisconnect(t, p, b) : Good(x, n)
  BY <1>1, SendDisconnectGood
<1>5. \A b \in BOOLEAN : \A x \in AddActive(t, p, priority, b) : Good(x, n)
  BY <1>1, AddActiveGood
<1> QED
  BY <1>2, <1>3, <1>4, <1>5

LEMMA OnShuffleGood ==
  ASSUME NEW n \in Nodes, NEW s, Good(s, n), NEW p \in Nodes, NEW m,
         m.origin \in Nodes, m.nodes \in SUBSET Nodes, m.ttl \in Nat,
         NEW r \in OnShuffle(s, p, m)
  PROVE  Good(r, n)
<1>1. CASE m.ttl = 0 \/ Cardinality(s.active) <= 1
  <2>1. PICK t \in AddPassive(s, m.nodes) :
          r \in SendShuffleReply(t, m.origin, Cardinality(m.nodes))
    BY <1>1 DEF OnShuffle
  <2>2. Good(t, n)
    BY <2>1, AddPassiveGood
  <2> QED
    BY <2>1, <2>2, SendShuffleReplyGood
<1>2. CASE ~(m.ttl = 0 \/ Cardinality(s.active) <= 1) /\ r # s
  <2>1. PICK q \in s.active \ {m.origin, p} :
          r = SendMessage(s, q, Shuffle(m.origin, m.nodes, m.ttl - 1))
    BY <1>2 DEF OnShuffle
  <2>2. q \in Nodes /\ m.ttl - 1 \in Nat
    BY <1>2, <2>1 DEF Good, HState
  <2>3. Shuffle(m.origin, m.nodes, m.ttl - 1) \in PacketTo(q)
    BY <2>2, Packets
  <2> QED
    BY <2>1, <2>2, <2>3, SendMessageGood
<1> QED
  BY <1>1, <1>2

LEMMA OnShuffleReplyGood ==
  ASSUME NEW n \in Nodes, NEW s, Good(s, n), NEW N \in SUBSET Nodes,
         NEW r \in OnShuffleReply(s, N)
  PROVE  Good(r, n)
<1>1. PICK t \in AddPassive(s, N) : r \in Refill(t, {})
  BY DEF OnShuffleReply
<1> QED
  BY <1>1, AddPassiveGood, RefillGood

LEMMA OnDisconnectGood ==
  ASSUME NEW n \in Nodes, NEW s, Good(s, n), NEW p \in Nodes,
         NEW isAlive, NEW r \in OnDisconnect(s, p, isAlive)
  PROVE  Good(r, n)
<1> DEFINE t == [s EXCEPT !.pending = @ \ {p}]
           u == [t EXCEPT !.alive = @ \cup {p}]
<1>1. Good(t, n) /\ Good(u, n)
  BY DEF Good, HState, WellFormed
<1>2. \/ r \in RefillAfter(RemoveDisconnected(t, p, isAlive), p)
      \/ r = u \/ r = t
  BY DEF OnDisconnect
<1> HIDE DEF t, u
<1>3. ASSUME r \in RefillAfter(RemoveDisconnected(t, p, isAlive), p)
      PROVE  Good(r, n)
  <2>1. PICK x \in RemoveDisconnected(t, p, isAlive) : r \in Refill(x, {p})
    BY <1>3 DEF RefillAfter
  <2> QED
    BY <1>1, <2>1, RemoveDisconnectedGood, RefillGood
<1> QED
  BY <1>1, <1>2, <1>3

LEMMA HandleConnectionClosedGood ==
  ASSUME NEW n \in Nodes, NEW s, Good(s, n), NEW p \in Nodes,
         NEW r \in HandleConnectionClosed(s, p)
  PROVE  Good(r, n)
<1> DEFINE t == [s EXCEPT !.pending = @ \ {p}]
           u == [t EXCEPT !.alive = @ \ {p}]
           v == [t EXCEPT !.passive = @ \ {p}]
<1>0. /\ Cardinality(s.passive \ {p}) <= Cardinality(s.passive)
      /\ Cardinality(s.passive \ {p}) \in Nat /\ Cardinality(s.passive) \in Nat
  BY Removing, NodeSets DEF Good, HState
<1>1. Good(t, n) /\ Good(u, n)
  BY DEF Good, HState, WellFormed
<1>5. /\ v \in HState /\ v.me = s.me /\ v.active = s.active
      /\ v.passive = s.passive \ {p} /\ v.pending = s.pending \ {p}
  BY DEF Good, HState
<1>2. Good(v, n)
  <2> HIDE DEF v
  <2> QED
    BY <1>0, <1>5, HyParViewAssumption DEF Good, WellFormed
<1>3. r \in RefillAfter(RemoveClosed(t, p), p) \/ r = u \/ r = v
  BY DEF HandleConnectionClosed
<1> HIDE DEF t, u, v
<1>4. ASSUME r \in RefillAfter(RemoveClosed(t, p), p)
      PROVE  Good(r, n)
  <2>1. PICK x \in RemoveClosed(t, p) : r \in Refill(x, {p})
    BY <1>4 DEF RefillAfter
  <2> QED
    BY <1>1, <2>1, RemoveClosedGood, RefillGood
<1> QED
  BY <1>1, <1>2, <1>3, <1>4

LEMMA HandleShuffleTimerGood ==
  ASSUME NEW n \in Nodes, NEW s, Good(s, n), NEW r \in HandleShuffleTimer(s)
  PROVE  Good(r, n)
<1>1. CASE r = s
  BY <1>1
<1>2. CASE r # s
  <2>1. PICK q \in s.active : \E N \in ShufflePeers(s, q) :
            r = SendMessage(s, q, Shuffle(s.me, N \cup {s.me}, ShuffleWalk))
    BY <1>2 DEF HandleShuffleTimer
  <2>2. PICK M \in ShufflePeers(s, q) :
          r = SendMessage(s, q, Shuffle(s.me, M \cup {s.me}, ShuffleWalk))
    BY <2>1
  <2> DEFINE N == M \cup {s.me}
  <2>5. N \in SUBSET Nodes
    BY <2>2 DEF ShufflePeers, Capped, Good, HState
  <2>3. q \in Nodes /\ s.me \in Nodes
    BY <2>1 DEF Good, HState
  <2>4. Shuffle(s.me, N, ShuffleWalk) \in PacketTo(q)
    BY <2>3, <2>5, Packets, HyParViewAssumption
  <2> QED
    BY <2>2, <2>3, <2>4, SendMessageGood
<1> QED
  BY <1>1, <1>2

LEMMA HandlePendingNeighborTimerGood ==
  ASSUME NEW n \in Nodes, NEW s, Good(s, n), NEW p \in Nodes, s.timers[p] > 0,
         NEW r \in HandlePendingNeighborTimer(s, p)
  PROVE  Good(r, n)
<1> DEFINE f == [s.timers EXCEPT ![p] = @ - 1]
           t == [s EXCEPT !.timers = f]
           u == [t EXCEPT !.pending = @ \ {p}, !.passive = @ \ {p}]
<1>0. /\ Cardinality(s.passive \ {p}) <= Cardinality(s.passive)
      /\ Cardinality(s.passive \ {p}) \in Nat /\ Cardinality(s.passive) \in Nat
  BY Removing, NodeSets DEF Good, HState
<1>1. f \in [Nodes -> Nat]
  BY DEF Good, HState
<1>2. r = t \/ r \in Refill(u, {})
  BY DEF HandlePendingNeighborTimer, Good, HState
<1> HIDE DEF f
<1>3. Good(t, n)
  BY <1>1 DEF Good, HState, WellFormed
<1>4. /\ u \in HState /\ u.me = s.me /\ u.active = s.active
      /\ u.passive = s.passive \ {p} /\ u.pending = s.pending \ {p}
  BY <1>1 DEF Good, HState
<1> HIDE DEF t, u
<1>5. Good(u, n)
  BY <1>0, <1>4, HyParViewAssumption DEF Good, WellFormed
<1> QED
  BY <1>2, <1>3, <1>5, RefillGood

\* What is left of a node's state once it has quit (state.rs drops the topic).
LEMMA HandleQuitGood ==
  ASSUME NEW n \in Nodes, NEW s, Good(s, n), NEW q \in HandleQuit(s)
  PROVE  Good([q EXCEPT !.active = {}, !.passive = {}, !.pending = {},
                        !.alive = {}], n)
<1> DEFINE Views == s.active \cup s.passive
           g(N) == [p \in Nodes |->
                      IF p \in s.active
                      THEN <<ShuffleReply(N[p]), Disconnect(FALSE)>>
                      ELSE <<>>]
<1>1. PICK N \in [s.active -> SUBSET Views] :
        q = [s EXCEPT !.sent = g(N), !.dropped = s.active]
  BY DEF HandleQuit
<1> DEFINE f == g(N)
           r == [q EXCEPT !.active = {}, !.passive = {}, !.pending = {},
                          !.alive = {}]
<1>2. f \in Outbox
  <2>1. ASSUME NEW p \in Nodes
        PROVE  f[p] \in Seq(PacketTo(p)) /\ f[p] \in Seq(Packet)
    <3>1. CASE p \in s.active
      <4>1. N[p] \in SUBSET Nodes
        BY <3>1 DEF Good, HState
      <4>2. ShuffleReply(N[p]) \in PacketTo(p) /\ Disconnect(FALSE) \in PacketTo(p)
        BY <4>1, Packets
      <4>3. PacketTo(p) \subseteq Packet
        BY DEF Packet
      <4>4. f[p] = <<ShuffleReply(N[p]), Disconnect(FALSE)>>
        BY <3>1
      <4> HIDE DEF f
      <4>5. \A S : \A a, b \in S : <<a, b>> \in Seq(S)
        OBVIOUS
      <4>6. <<ShuffleReply(N[p]), Disconnect(FALSE)>> \in Seq(PacketTo(p))
        BY <4>2, <4>5
      <4>7. <<ShuffleReply(N[p]), Disconnect(FALSE)>> \in Seq(Packet)
        BY <4>2, <4>3, <4>5
      <4> QED
        BY <4>4, <4>6, <4>7
    <3>2. CASE p \notin s.active
      BY <3>2
    <3> QED
      BY <3>1, <3>2
  <2>2. f = [p \in Nodes |-> f[p]]
    OBVIOUS
  <2> HIDE DEF f
  <2> QED
    BY <2>1, <2>2 DEF Outbox
<1> HIDE DEF g
<1>3. /\ r \in HState /\ r.me = n /\ r.active = {} /\ r.passive = {}
      /\ r.pending = {}
  BY <1>1, <1>2 DEF Good, HState, f
<1> HIDE DEF f, r
<1>4. Cardinality({}) = 0
  BY FS_EmptySet
<1>5. Good(r, n)
  BY <1>3, <1>4, HyParViewAssumption DEF Good, WellFormed
<1> QED
  BY <1>5 DEF r

LEMMA HandleGood ==
  ASSUME NEW n \in Nodes, NEW s, Good(s, n), NEW p \in Nodes, p # n,
         NEW m \in PacketTo(n), NEW r \in Handle(s, p, m)
  PROVE  Good(r, n)
<1>1. CASE m.kind = "Join"
  <2>1. r \in OnJoin(s, p)
    BY <1>1 DEF Handle
  <2> QED
    BY <2>1, OnJoinGood
<1>2. CASE m.kind = "ForwardJoin"
  <2>1. r \in OnForwardJoin(s, p, m)
    BY <1>2 DEF Handle
  <2>2. m.peer \in Nodes \ {n} /\ m.ttl \in Nat
    BY <1>2 DEF PacketTo
  <2> QED
    BY <2>1, <2>2, OnForwardJoinGood
<1>3. CASE m.kind = "Neighbor"
  <2>1. r \in OnNeighbor(s, p, m.priority)
    BY <1>3 DEF Handle
  <2>2. m.priority \in {"High", "Low"}
    BY <1>3 DEF PacketTo
  <2> QED
    BY <2>1, <2>2, OnNeighborGood
<1>4. CASE m.kind = "Shuffle"
  <2>1. r \in OnShuffle(s, p, m)
    BY <1>4 DEF Handle
  <2>2. m.origin \in Nodes /\ m.nodes \in SUBSET Nodes /\ m.ttl \in Nat
    BY <1>4 DEF PacketTo
  <2> QED
    BY <2>1, <2>2, OnShuffleGood
<1>5. CASE m.kind = "ShuffleReply"
  <2>1. r \in OnShuffleReply(s, m.nodes)
    BY <1>5 DEF Handle
  <2>2. m.nodes \in SUBSET Nodes
    BY <1>5 DEF PacketTo
  <2> QED
    BY <2>1, <2>2, OnShuffleReplyGood
<1>6. CASE m.kind = "Disconnect"
  <2>1. r \in OnDisconnect(s, p, m.alive)
    BY <1>6 DEF Handle
  <2> QED
    BY <2>1, OnDisconnectGood
<1>7. CASE m.kind = "Closed"
  <2>1. r \in HandleConnectionClosed(s, p)
    BY <1>7 DEF Handle
  <2> QED
    BY <2>1, HandleConnectionClosedGood
<1>8. m.kind \in {"Join", "Closed", "ForwardJoin", "Neighbor", "Shuffle",
                  "ShuffleReply", "Disconnect"}
  BY DEF PacketTo
<1> QED
  BY <1>1, <1>2, <1>3, <1>4, <1>5, <1>6, <1>7, <1>8

-----------------------------------------------------------------------------
(* The network. *)

\* Links whose messages are meant for their receivers.
Carries(links) == \A l \in Links : links[l] \in Seq(PacketTo(l[2]))

LEMMA WithoutType ==
  ASSUME NEW S, NEW q \in Seq(S), NEW i \in 1 .. Len(q)
  PROVE  /\ Without(q, i) \in Seq(S)
         /\ Len(Without(q, i)) = Len(q) - 1
<1> DEFINE h == SubSeq(q, 1, i - 1)
           t == SubSeq(q, i + 1, Len(q))
<1>0. Len(q) \in Nat
  OBVIOUS
<1>1. h \in Seq(S) /\ Len(h) = i - 1
  BY <1>0, SubSeqProperties
<1>2. t \in Seq(S) /\ Len(t) = Len(q) - i
  BY <1>0, SubSeqProperties
<1>4. Without(q, i) = h \o t
  BY DEF Without
<1> HIDE DEF h, t
<1>3. h \o t \in Seq(S) /\ Len(h \o t) = Len(h) + Len(t)
  BY <1>1, <1>2, ConcatProperties
<1> QED
  BY <1>0, <1>1, <1>2, <1>3, <1>4

LEMMA TakenType ==
  ASSUME TypeOK, NEW l \in Links, NEW i \in Deliverable(l)
  PROVE  /\ net[l][i] \in PacketTo(l[2])
         /\ Taken(l, i) \in Seq(PacketTo(l[2]))
<1>1. net[l] \in Seq(PacketTo(l[2])) /\ i \in 1 .. Len(net[l])
  BY DEF TypeOK, Deliverable
<1> DEFINE q == Without(net[l], i)
<1>2. q \in Seq(PacketTo(l[2])) /\ Len(q) = Len(net[l]) - 1
  BY <1>1, WithoutType
<1> HIDE DEF q
<1>3. CASE i > 1 /\ net[l][1] = Closed
  <2>1. Taken(l, i) = Tail(q)
    BY <1>3 DEF Taken, q
  <2>2. q # << >>
    BY <1>1, <1>2, <1>3, EmptySeq
  <2> QED
    BY <1>1, <1>2, <2>1, <2>2, HeadTailProperties
<1>4. CASE ~(i > 1 /\ net[l][1] = Closed)
  <2>1. Taken(l, i) = q
    BY <1>4, Zenon DEF Taken, q
  <2> QED
    BY <1>1, <1>2, <2>1
<1> QED
  BY <1>3, <1>4

LEMMA StateGood ==
  ASSUME TypeOK, ViewsWellFormed, NEW n \in Nodes
  PROVE  Good(State(n), n)
<1>1. [p \in Nodes |-> <<>>] \in Outbox
  <2>1. \A S : <<>> \in Seq(S)
    OBVIOUS
  <2> QED
    BY <2>1 DEF Outbox
<1>2. State(n) \in HState
  BY <1>1 DEF State, HState, TypeOK
<1>3. WellFormed(State(n))
  BY DEF State, WellFormed, ViewsWellFormed
<1> QED
  BY <1>2, <1>3 DEF State, Good

LEMMA BecomesKeeps ==
  ASSUME TypeOK, ViewsWellFormed, NEW n \in Nodes, NEW r, Good(r, n),
         NEW links, Carries(links), Becomes(n, r, links),
         (member \subseteq Nodes)',
         (joins \in 0 .. MaxJoins)', (events \in 0 .. MaxEvents)',
         (disturbed \in BOOLEAN)'
  PROVE  TypeOK' /\ ViewsWellFormed'
<1>1. /\ r.active \in SUBSET Nodes /\ r.passive \in SUBSET Nodes
      /\ r.pending \in SUBSET Nodes /\ r.alive \in SUBSET Nodes
      /\ r.timers \in [Nodes -> Nat]
      /\ \A p \in Nodes : r.sent[p] \in Seq(PacketTo(p))
  BY DEF Good, HState, Outbox
<1>2. /\ active' \in [Nodes -> SUBSET Nodes]
      /\ passive' \in [Nodes -> SUBSET Nodes]
      /\ pending' \in [Nodes -> SUBSET Nodes]
      /\ alive' \in [Nodes -> SUBSET Nodes]
      /\ timers' \in [Nodes -> [Nodes -> Nat]]
  BY <1>1 DEF Becomes, TypeOK
<1>3. net' = [l \in Links |-> net'[l]]
  BY DEF Becomes
<1>4. ASSUME NEW l \in Links
      PROVE  net'[l] \in Seq(PacketTo(l[2]))
  <2>1. links[l] \in Seq(PacketTo(l[2])) /\ l[2] \in Nodes
    BY DEF Carries, Links
  <2>2. links[l] \o r.sent[l[2]] \in Seq(PacketTo(l[2]))
    BY <1>1, <2>1, ConcatProperties
  <2>3. links[l] # <<>> => Tail(links[l]) \in Seq(PacketTo(l[2]))
    BY <2>1, HeadTailProperties
  <2>4. \/ net'[l] = links[l] \o r.sent[l[2]]
        \/ net'[l] = links[l]
        \/ l[2] = n /\ Dead(links, n, l[1]) /\ net'[l] = Tail(links[l])
    BY DEF Becomes
  <2>5. l[2] = n /\ Dead(links, n, l[1]) => links[l] # <<>>
    BY DEF Dead, Links
  <2> QED
    BY <2>1, <2>2, <2>3, <2>4, <2>5
<1>5. TypeOK'
  BY <1>2, <1>3, <1>4 DEF TypeOK
<1>6. /\ active'[n] = r.active /\ passive'[n] = r.passive
      /\ pending'[n] = r.pending
      /\ \A m \in Nodes \ {n} : /\ active'[m] = active[m]
                               /\ passive'[m] = passive[m]
                               /\ pending'[m] = pending[m]
  BY DEF Becomes, TypeOK
<1>7. ViewsWellFormed'
  BY <1>6 DEF ViewsWellFormed, Good, WellFormed
<1> QED
  BY <1>5, <1>7

-----------------------------------------------------------------------------
(* The invariant. *)

Inv == TypeOK /\ ViewsWellFormed

\* Every state the program starts in satisfies the invariant.
LEMMA InitInv == Init => Inv
<1> SUFFICES ASSUME Init PROVE Inv
  OBVIOUS
<1>1. \A S : <<>> \in Seq(S)
  OBVIOUS
<1>5. /\ net = [l \in Links |-> net[l]]
      /\ \A l \in Links : net[l] \in Seq(PacketTo(l[2]))
  BY <1>1 DEF Init
<1>6. /\ member \subseteq Nodes
      /\ active \in [Nodes -> SUBSET Nodes]
      /\ passive \in [Nodes -> SUBSET Nodes]
      /\ pending \in [Nodes -> SUBSET Nodes]
      /\ alive \in [Nodes -> SUBSET Nodes]
      /\ timers \in [Nodes -> [Nodes -> Nat]]
      /\ joins \in 0 .. MaxJoins
      /\ events \in 0 .. MaxEvents
  BY HyParViewAssumption DEF Init
<1>7. disturbed \in BOOLEAN
  BY Zenon DEF Init
<1>2. TypeOK
  BY <1>5, <1>6, <1>7, Zenon DEF TypeOK
<1>3. Cardinality({}) = 0
  BY FS_EmptySet
<1>4. ViewsWellFormed
  BY <1>3, HyParViewAssumption DEF Init, ViewsWellFormed
<1> QED
  BY <1>2, <1>4 DEF Inv

LEMMA LinkEnds ==
  ASSUME NEW l \in Links
  PROVE  l[1] \in Nodes /\ l[2] \in Nodes /\ l[1] # l[2] /\ l = <<l[1], l[2]>>
BY DEF Links

LEMMA ReceiveInv ==
  ASSUME Inv, NEW l \in Links, NEW i \in Deliverable(l),
         Receive(l[2], l[1], i)
  PROVE  Inv'
<1> DEFINE n == l[2]
           p == l[1]
           links == [net EXCEPT ![l] = Taken(l, i)]
<1>1. /\ TypeOK /\ ViewsWellFormed /\ n \in Nodes /\ p \in Nodes /\ p # n
      /\ l = <<p, n>>
  BY LinkEnds DEF Inv
<1>2. PICK r \in Handle(State(n), p, net[l][i]) : Becomes(n, r, links)
  BY <1>1 DEF Receive
<1>3. Good(r, n)
  BY <1>1, <1>2, StateGood, TakenType, HandleGood
<1>4. Carries(links)
  BY <1>1, TakenType DEF Carries, TypeOK
<1>5. /\ (member \subseteq Nodes)' /\ (joins \in 0 .. MaxJoins)'
      /\ (events \in 0 .. MaxEvents)' /\ (disturbed \in BOOLEAN)'
  BY <1>1 DEF TypeOK, Receive
<1> HIDE DEF links, n, p
<1> QED
  BY <1>1, <1>2, <1>3, <1>4, <1>5, BecomesKeeps DEF Inv

LEMMA IgnoreInv ==
  ASSUME Inv, NEW l \in Links, NEW i \in Deliverable(l), Ignore(l[2], l[1], i)
  PROVE  Inv'
<1>1. l = <<l[1], l[2]>> /\ Taken(l, i) \in Seq(PacketTo(l[2]))
  BY LinkEnds, TakenType DEF Inv
<1>2. net' = [net EXCEPT ![l] = Taken(l, i)]
  BY <1>1 DEF Ignore
<1>3. /\ net' = [k \in Links |-> net'[k]]
      /\ \A k \in Links : net'[k] \in Seq(PacketTo(k[2]))
  BY <1>1, <1>2 DEF Inv, TypeOK
<1> QED
  BY <1>3 DEF Ignore, views, Inv, TypeOK, ViewsWellFormed

LEMMA JoinTopicInv ==
  ASSUME Inv, NEW n \in Nodes, NEW peers \in SUBSET (Nodes \ {n}),
         JoinTopic(n, peers)
  PROVE  Inv'
<1>1. TypeOK /\ ViewsWellFormed
  BY DEF Inv
<1> DEFINE r == SendToAll(State(n), peers, Join)
<1>2. Good(r, n)
  <2>1. \A p \in peers : Join \in PacketTo(p)
    BY Packets
  <2> QED
    BY <1>1, <2>1, StateGood, SendToAllGood
<1>3. Carries(net)
  BY <1>1 DEF Carries, TypeOK
<1>4. Becomes(n, r, net)
  BY DEF JoinTopic
<1>5. /\ (member \subseteq Nodes)' /\ (joins \in 0 .. MaxJoins)'
      /\ (events \in 0 .. MaxEvents)' /\ (disturbed \in BOOLEAN)'
  BY <1>1, HyParViewAssumption DEF TypeOK, JoinTopic
<1> HIDE DEF r
<1> QED
  BY <1>1, <1>2, <1>3, <1>4, <1>5, BecomesKeeps DEF Inv

LEMMA QuitInv ==
  ASSUME Inv, NEW n \in Nodes, Quit(n)
  PROVE  Inv'
<1>1. TypeOK /\ ViewsWellFormed
  BY DEF Inv
<1>2. PICK q \in HandleQuit(State(n)) :
        Becomes(n, [q EXCEPT !.active = {}, !.passive = {}, !.pending = {},
                             !.alive = {}], net)
  BY DEF Quit
<1> DEFINE r == [q EXCEPT !.active = {}, !.passive = {}, !.pending = {},
                          !.alive = {}]
<1>3. Good(r, n)
  BY <1>1, StateGood, HandleQuitGood
<1>4. Carries(net)
  BY <1>1 DEF Carries, TypeOK
<1>5. /\ (member \subseteq Nodes)' /\ (joins \in 0 .. MaxJoins)'
      /\ (events \in 0 .. MaxEvents)' /\ (disturbed \in BOOLEAN)'
  BY <1>1, HyParViewAssumption DEF TypeOK, Quit
<1>6. Becomes(n, r, net)
  BY <1>2
<1> HIDE DEF r
<1> QED
  BY <1>1, <1>3, <1>4, <1>5, <1>6, BecomesKeeps DEF Inv

LEMMA ShuffleTimerInv ==
  ASSUME Inv, NEW n \in Nodes, ShuffleTimer(n)
  PROVE  Inv'
<1>1. TypeOK /\ ViewsWellFormed
  BY DEF Inv
<1>2. PICK r \in HandleShuffleTimer(State(n)) : Becomes(n, r, net)
  BY DEF ShuffleTimer
<1>3. Good(r, n)
  BY <1>1, StateGood, HandleShuffleTimerGood
<1>4. Carries(net)
  BY <1>1 DEF Carries, TypeOK
<1>5. /\ (member \subseteq Nodes)' /\ (joins \in 0 .. MaxJoins)'
      /\ (events \in 0 .. MaxEvents)' /\ (disturbed \in BOOLEAN)'
  BY <1>1, HyParViewAssumption DEF TypeOK, ShuffleTimer
<1> QED
  BY <1>1, <1>2, <1>3, <1>4, <1>5, BecomesKeeps DEF Inv

LEMMA NeighborTimerInv ==
  ASSUME Inv, NEW n \in Nodes, NEW p \in Nodes, NeighborTimer(n, p)
  PROVE  Inv'
<1>1. TypeOK /\ ViewsWellFormed
  BY DEF Inv
<1>2. CASE n \in member
  <2>1. PICK r \in HandlePendingNeighborTimer(State(n), p) : Becomes(n, r, net)
    BY <1>2 DEF NeighborTimer
  <2>2. State(n).timers[p] > 0
    BY DEF NeighborTimer, State
  <2>3. Good(r, n)
    BY <1>1, <2>2, StateGood, HandlePendingNeighborTimerGood
  <2>4. Carries(net)
    BY <1>1 DEF Carries, TypeOK
  <2>5. /\ (member \subseteq Nodes)' /\ (joins \in 0 .. MaxJoins)'
        /\ (events \in 0 .. MaxEvents)' /\ (disturbed \in BOOLEAN)'
    BY <1>1 DEF TypeOK, NeighborTimer
  <2> QED
    BY <1>1, <2>1, <2>3, <2>4, <2>5, BecomesKeeps DEF Inv
<1>3. CASE n \notin member
  <2>1. timers' = [timers EXCEPT ![n][p] = @ - 1] /\ timers[n][p] > 0
    BY <1>3 DEF NeighborTimer
  <2>2. timers[n] \in [Nodes -> Nat] /\ timers[n][p] \in Nat
    BY <1>1 DEF TypeOK
  <2>3. timers' \in [Nodes -> [Nodes -> Nat]]
    <3> DEFINE f == [timers[n] EXCEPT ![p] = @ - 1]
    <3>1. f \in [Nodes -> Nat]
      BY <2>1, <2>2
    <3>2. timers' = [timers EXCEPT ![n] = f]
      BY <2>1
    <3> HIDE DEF f
    <3> QED
      BY <1>1, <3>1, <3>2 DEF TypeOK
  <2> QED
    BY <1>1, <1>3, <2>3 DEF NeighborTimer, Inv, TypeOK, ViewsWellFormed
<1> QED
  BY <1>2, <1>3

LEMMA TwoUpdates ==
  ASSUME NEW D, NEW f, f = [k \in D |-> f[k]],
         NEW x \in D, NEW y \in D, NEW a, NEW b,
         NEW g, g = [f EXCEPT ![x] = a, ![y] = b]
  PROVE  \A k \in D : g[k] = f[k] \/ (k = x /\ g[k] = a) \/ (k = y /\ g[k] = b)
<1> DEFINE h == [f EXCEPT ![x] = a]
<1>1. g = [h EXCEPT ![y] = b]
  OBVIOUS
<1>2. h = [k \in D |-> h[k]] /\ \A k \in D : h[k] = IF k = x THEN a ELSE f[k]
  OBVIOUS
<1>3. \A k \in D : g[k] = IF k = y THEN b ELSE h[k]
  <2> HIDE DEF h
  <2> QED
    BY <1>1, <1>2
<1> HIDE DEF h
<1> QED
  BY <1>2, <1>3

LEMMA FailureInv ==
  ASSUME Inv, NEW l \in Links,
         Break(l[1], l[2]) \/ Unreachable(l[1], l[2])
  PROVE  Inv'
<1> DEFINE n == l[1]
           p == l[2]
<1>1. n \in Nodes /\ p \in Nodes /\ <<n, p>> \in Links /\ <<p, n>> \in Links
  BY DEF Links
<1>2. \A q \in Nodes : <<Closed>> \in Seq(PacketTo(q)) /\ <<>> \in Seq(PacketTo(q))
  BY Packets
<1>3. /\ net' = [k \in Links |-> net'[k]]
      /\ \A k \in Links : net'[k] \in Seq(PacketTo(k[2]))
  <2>1. PICK a \in {<<>>, <<Closed>>} :
          net' = [net EXCEPT ![<<n, p>>] = a, ![<<p, n>>] = <<Closed>>]
    BY DEF Break, Unreachable
  <2>2. a \in Seq(PacketTo(p)) /\ <<Closed>> \in Seq(PacketTo(n))
    BY <1>1, <1>2, <2>1
  <2>3. \A k \in Links : net[k] \in Seq(PacketTo(k[2]))
    BY DEF Inv, TypeOK
  <2>4. net' = [k \in Links |-> net'[k]]
    BY <2>1 DEF Inv, TypeOK
  <2>5. \A k \in Links : \/ net'[k] = net[k]
                         \/ k = <<n, p>> /\ net'[k] = a
                         \/ k = <<p, n>> /\ net'[k] = <<Closed>>
    <3>1. net = [k \in Links |-> net[k]]
      BY DEF Inv, TypeOK
    <3> DEFINE x == <<n, p>>
               y == <<p, n>>
    <3>2. x \in Links /\ y \in Links
      BY <1>1
    <3>3. net' = [net EXCEPT ![x] = a, ![y] = <<Closed>>]
      BY <2>1
    <3> HIDE DEF x, y
    <3>4. \A k \in Links : \/ net'[k] = net[k]
                           \/ k = x /\ net'[k] = a
                           \/ k = y /\ net'[k] = <<Closed>>
      BY <3>1, <3>2, <3>3, TwoUpdates
    <3> QED
      BY <3>4 DEF x, y
  <2>6. <<n, p>>[2] = p /\ <<p, n>>[2] = n
    OBVIOUS
  <2> QED
    BY <2>2, <2>3, <2>4, <2>5, <2>6
<1>4. UNCHANGED <<member, views, joins>>
  BY DEF Break, Unreachable
<1>5. events' \in 0 .. MaxEvents /\ disturbed' \in BOOLEAN
  <2>1. events < MaxEvents /\ events' = events + 1 /\ disturbed' = TRUE
    BY DEF Break, Unreachable
  <2>2. events \in Nat /\ MaxEvents \in Nat
    BY HyParViewAssumption DEF Inv, TypeOK
  <2> QED
    BY <2>1, <2>2
<1> QED
  BY <1>3, <1>4, <1>5 DEF views, Inv, TypeOK, ViewsWellFormed

LEMMA NextInv == Inv /\ [Next]_vars => Inv'
<1> SUFFICES ASSUME Inv, [Next]_vars PROVE Inv'
  OBVIOUS
<1>1. CASE UNCHANGED vars
  BY <1>1 DEF vars, views, Inv, TypeOK, ViewsWellFormed
<1>2. CASE \E l \in Links : \E i \in Deliverable(l) :
             Receive(l[2], l[1], i) \/ Ignore(l[2], l[1], i)
  BY <1>2, ReceiveInv, IgnoreInv
<1>3. CASE \E n \in Nodes :
             \/ \E peers \in SUBSET (Nodes \ {n}) : JoinTopic(n, peers)
             \/ Quit(n)
             \/ ShuffleTimer(n)
  BY <1>3, JoinTopicInv, QuitInv, ShuffleTimerInv
<1>4. CASE \E l \in Links : \/ NeighborTimer(l[1], l[2])
                           \/ Break(l[1], l[2])
                           \/ Unreachable(l[1], l[2])
  BY <1>4, LinkEnds, NeighborTimerInv, FailureInv
<1> QED
  BY <1>1, <1>2, <1>3, <1>4 DEF Next

\* Every reachable state is well typed; in particular no handler of any node
\* ever sends a peer a ForwardJoin that names the peer itself.
THEOREM TypeCorrect == Spec => []TypeOK
<1>1. Inv => TypeOK
  BY DEF Inv
<1> QED
  BY InitInv, NextInv, <1>1, PTL DEF Spec

\* Whatever joins, shuffles, failures, timeouts and quits happen in whatever
\* order: the two views of a node stay disjoint and within their capacities,
\* and no node is its own neighbour (add_active, add_passive, remove_active).
THEOREM ViewsStayWellFormed == Spec => []ViewsWellFormed
<1>1. Inv => ViewsWellFormed
  BY DEF Inv
<1> QED
  BY InitInv, NextInv, <1>1, PTL DEF Spec
=============================================================================
