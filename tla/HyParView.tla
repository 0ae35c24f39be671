----------------------------- MODULE HyParView -----------------------------
(***************************************************************************)
(* The membership layer of one topic (src/src/proto/hyparview.rs), as the  *)
(* topic state (topic.rs, state.rs) and the network actor drive it.        *)
(*                                                                         *)
(* Every node keeps an active view (its neighbours) and a passive view     *)
(* (peers it has heard of).  A handler works on the state of one node and  *)
(* fills an outbox; where it draws a random peer the model has one outcome *)
(* per peer, so a handler is the set of its outcomes.                      *)
(*                                                                         *)
(* net/util.rs sends the messages of a topic in order on one stream, and   *)
(* ends the stream after a Disconnect: what is sent later travels on a     *)
(* stream of its own and may overtake it.  Peer data is left out.          *)
(***************************************************************************)
EXTENDS Integers, Sequences, FiniteSets

CONSTANTS
  Nodes,
  ActiveCapacity,    \* config.active_view_capacity
  PassiveCapacity,   \* config.passive_view_capacity
  ARWL,              \* config.active_random_walk_length
  PRWL,              \* config.passive_random_walk_length
  ShuffleWalk,       \* config.shuffle_random_walk_length
  ShuffleActive,     \* config.shuffle_active_view_count
  ShufflePassive,    \* config.shuffle_passive_view_count
  Founders,          \* nodes that hold a state for the topic at the start
  MaxJoins,          \* bound: join commands
  MaxEvents          \* bound: shuffles, failed connections and quit commands

ASSUME HyParViewAssumption ==
  /\ IsFiniteSet(Nodes)
  /\ ActiveCapacity \in Nat \ {0}
  /\ PassiveCapacity \in Nat \ {0}
  /\ {ARWL, PRWL, ShuffleWalk, ShuffleActive, ShufflePassive} \subseteq Nat
  /\ Founders \subseteq Nodes
  /\ {MaxJoins, MaxEvents} \subseteq Nat

VARIABLES
  member,   \* nodes that hold a state for the topic
  active,   \* active_view of each node
  passive,  \* passive_view
  pending,  \* pending_neighbor_requests
  alive,    \* alive_disconnect_peers
  timers,   \* PendingNeighborRequest timers the actor holds, per peer
  net,      \* what is under way on each directed link, oldest first
  joins,    \* join commands so far
  events,   \* shuffles, failed connections and quit commands so far
  disturbed \* whether a connection failed or a node quit

views == <<active, passive, pending, alive, timers>>
vars == <<member, views, net, joins, events, disturbed>>

Links == {l \in Nodes \X Nodes : l[1] # l[2]}

(***************************************************************************)
(* Messages, and the end of a connection as its receiver learns of it.     *)
(***************************************************************************)
Join == [kind |-> "Join"]
ForwardJoin(p, ttl) == [kind |-> "ForwardJoin", peer |-> p, ttl |-> ttl]
Neighbor(priority) == [kind |-> "Neighbor", priority |-> priority]
Shuffle(o, nodes, ttl) ==
  [kind |-> "Shuffle", origin |-> o, nodes |-> nodes, ttl |-> ttl]
ShuffleReply(nodes) == [kind |-> "ShuffleReply", nodes |-> nodes]
Disconnect(isAlive) == [kind |-> "Disconnect", alive |-> isAlive]
Closed == [kind |-> "Closed"]

\* What may be on its way to n; nobody tells a node to ask itself.
PacketTo(n) ==
          [kind : {"Join", "Closed"}]
          \cup [kind : {"ForwardJoin"}, peer : Nodes \ {n}, ttl : Nat]
          \cup [kind : {"Neighbor"}, priority : {"High", "Low"}]
          \cup [kind : {"Shuffle"}, origin : Nodes, nodes : SUBSET Nodes,
                ttl : Nat]
          \cup [kind : {"ShuffleReply"}, nodes : SUBSET Nodes]
          \cup [kind : {"Disconnect"}, alive : BOOLEAN]

Init ==
  /\ member = Founders
  /\ active = [n \in Nodes |-> {}]
  /\ passive = [n \in Nodes |-> {}]
  /\ pending = [n \in Nodes |-> {}]
  /\ alive = [n \in Nodes |-> {}]
  /\ timers = [n \in Nodes |-> [p \in Nodes |-> 0]]
  /\ net = [l \in Links |-> <<>>]
  /\ joins = 0 /\ events = 0 /\ disturbed = FALSE

(***************************************************************************)
(* The state a handler of n works on, with its outbox: what it sends to    *)
(* each peer, and the peers it asks the actor to disconnect (dropped).     *)
(***************************************************************************)
State(n) == [me |-> n, active |-> active[n], passive |-> passive[n],
             pending |-> pending[n], alive |-> alive[n],
             timers |-> timers[n], sent |-> [p \in Nodes |-> <<>>],
             dropped |-> {}]

SendMessage(s, p, m) == [s EXCEPT !.sent[p] = Append(@, m)]

\* send_neighbor: at most one request to a peer is outstanding.
SendNeighbor(s, p, priority) ==
  IF p \in s.pending THEN s
  ELSE SendMessage([s EXCEPT !.pending = @ \cup {p}], p, Neighbor(priority))

\* shuffled_and_capped: k random members, or all if there are fewer.
Capped(S, k) ==
  {T \in SUBSET S : Cardinality(T) = IF Cardinality(S) < k
                                     THEN Cardinality(S) ELSE k}

\* The peers of a ShuffleReply: len passive ones, filled up with active ones.
Sample(passivePeers, activePeers, len) ==
  UNION {{P \cup A : A \in Capped(activePeers, len - Cardinality(P))} :
           P \in Capped(passivePeers, len)}

SendShuffleReply(s, to, len) ==
  {SendMessage(s, to, ShuffleReply(N)) : N \in Sample(s.passive, s.active, len)}

\* Entries of the ShuffleReply that precedes a Disconnect.
FarewellLength == ShuffleActive + ShufflePassive

\* send_disconnect.
SendDisconnect(s, p, isAlive) ==
  {[SendMessage(r, p, Disconnect(isAlive)) EXCEPT !.dropped = @ \cup {p}] :
     r \in SendShuffleReply(s, p, FarewellLength)}

\* add_passive for every peer of a list: members of either view and the node
\* itself are skipped, and a full view loses a random peer per insertion (the
\* peer inserted last stays).
AddPassive(s, peers) ==
  LET eligible == peers \ (s.active \cup {s.me})
      known == s.passive \cup eligible
  IN IF eligible \subseteq s.passive THEN {s}
     ELSE {[s EXCEPT !.passive = Q] :
             Q \in {R \in Capped(known, PassiveCapacity) :
                      R \cap eligible # {}}}

\* refill_active_from_passive: ask one passive peer, unless the requests under
\* way may already fill the active view.
Refill(s, skip) ==
  LET candidates == s.passive \ (skip \cup s.pending)
      priority == IF s.active = {} THEN "High" ELSE "Low"
  IN IF \/ Cardinality(s.active) + Cardinality(s.pending) >= ActiveCapacity
        \/ candidates = {}
     THEN {s}
     ELSE {[SendNeighbor(s, p, priority) EXCEPT !.timers[p] = @ + 1] :
             p \in candidates}

\* remove_active_by_index for its three reasons.
RemoveRandom(s, p) ==
  UNION {AddPassive([r EXCEPT !.alive = @ \cup {p}], {p}) :
           r \in SendDisconnect([s EXCEPT !.active = @ \ {p}], p, TRUE)}

RemoveDisconnected(s, p, isAlive) ==
  LET r == [s EXCEPT !.active = @ \ {p}, !.dropped = @ \cup {p}]
  IN IF isAlive THEN AddPassive([r EXCEPT !.alive = @ \cup {p}], {p}) ELSE {r}

RemoveClosed(s, p) ==
  LET r == [s EXCEPT !.active = @ \ {p}, !.alive = @ \ {p},
                     !.dropped = @ \cup {p}]
  IN IF p \in s.alive THEN AddPassive(r, {p}) ELSE {r}

\* remove_active: the slot is offered to a passive peer.
RefillAfter(results, p) == UNION {Refill(r, {p}) : r \in results}

\* Mutant: the peer stays in the passive view.
AddActiveUnchecked_KeepsPassive(s, p, priority, reply) ==
  LET r == [s EXCEPT !.active = @ \cup {p}]
  IN IF reply THEN SendNeighbor(r, p, priority) ELSE r

\* add_active_unchecked.
AddActiveUnchecked(s, p, priority, reply) ==
  LET r == [s EXCEPT !.passive = @ \ {p}, !.active = @ \cup {p}]
  IN IF reply THEN SendNeighbor(r, p, priority) ELSE r

IsFull(s) == Cardinality(s.active) >= ActiveCapacity

\* add_active refuses only a low priority request to a full view.
Refuses(s, p, priority) == priority = "Low" /\ p \notin s.active /\ IsFull(s)

AddActive(s, p, priority, reply) ==
  IF p \in s.active
  THEN {IF reply THEN SendNeighbor(s, p, priority) ELSE s}
  ELSE {AddActiveUnchecked(r, p, priority, reply) :
          r \in IF IsFull(s) THEN UNION {RemoveRandom(s, q) : q \in s.active}
                ELSE {s}}

(***************************************************************************)
(* The handlers.                                                           *)
(***************************************************************************)

SendToAll(s, peers, m) ==
  [s EXCEPT !.sent = [p \in Nodes |-> IF p \in peers THEN Append(@[p], m)
                                      ELSE @[p]]]

\* Mutant: the contact passes the request on without taking the node in.
OnJoin_OnlyForwards(s, from) ==
  {SendToAll(s, s.active \ {from}, ForwardJoin(from, ARWL))}

\* on_join takes the node in, and tells the other active peers.
OnJoin(s, from) ==
  {SendToAll(r, r.active \ {from}, ForwardJoin(from, ARWL)) :
     r \in AddActive(s, from, "High", TRUE)}

\* on_forward_join: the last node of the walk asks the new node; the others
\* pass the message on.
OnForwardJoin(s, from, m) ==
  IF m.peer \in s.active \/ m.ttl = 0 \/ Cardinality(s.active) <= 1
  THEN {SendNeighbor(s, m.peer, "High")}
  ELSE LET noted == IF m.ttl = PRWL THEN AddPassive(s, {m.peer}) ELSE {s}
       IN IF m.peer \in s.pending THEN noted
          ELSE UNION {{SendMessage(r, q, ForwardJoin(m.peer, m.ttl - 1)) :
                         q \in s.active \ {from}} : r \in noted}

\* Mutant: the answer to a request is only crossed off.
OnNeighbor_DropsReply(s, from, priority) ==
  LET r == [s EXCEPT !.pending = @ \ {from}]
  IN IF from \in s.pending THEN {r}
     ELSE IF Refuses(r, from, priority) THEN SendDisconnect(r, from, TRUE)
     ELSE AddActive(r, from, priority, TRUE)

\* on_neighbor: a message from a peer with a request outstanding is the answer.
OnNeighbor(s, from, priority) ==
  LET r == [s EXCEPT !.pending = @ \ {from}]
      reply == from \notin s.pending
  IN IF Refuses(r, from, priority) THEN SendDisconnect(r, from, TRUE)
     ELSE AddActive(r, from, priority, reply)

OnShuffle(s, from, m) ==
  IF m.ttl = 0 \/ Cardinality(s.active) <= 1
  THEN UNION {SendShuffleReply(r, m.origin, Cardinality(m.nodes)) :
                r \in AddPassive(s, m.nodes)}
  ELSE LET next == s.active \ {m.origin, from}
       IN IF next = {} THEN {s}
          ELSE {SendMessage(s, q, Shuffle(m.origin, m.nodes, m.ttl - 1)) :
                  q \in next}

OnShuffleReply(s, nodes) == UNION {Refill(r, {}) : r \in AddPassive(s, nodes)}

OnDisconnect(s, from, isAlive) ==
  LET r == [s EXCEPT !.pending = @ \ {from}]
  IN IF from \in s.active
     THEN RefillAfter(RemoveDisconnected(r, from, isAlive), from)
     ELSE IF isAlive /\ from \in s.passive
          THEN {[r EXCEPT !.alive = @ \cup {from}]}
          ELSE {r}

HandleConnectionClosed(s, from) ==
  LET r == [s EXCEPT !.pending = @ \ {from}]
  IN IF from \in s.active THEN RefillAfter(RemoveClosed(r, from), from)
     ELSE IF from \in s.alive THEN {[r EXCEPT !.alive = @ \ {from}]}
          ELSE {[r EXCEPT !.passive = @ \ {from}]}

\* What n tells q of its views in a Shuffle, besides its own name.
ShufflePeers(s, q) ==
  UNION {{A \cup P : P \in Capped(s.passive \ {q}, ShufflePassive)} :
           A \in Capped(s.active \ {q}, ShuffleActive)}

\* A random neighbour gets random members of both views and the node itself.
HandleShuffleTimer(s) ==
  IF s.active = {} THEN {s}
  ELSE UNION {{SendMessage(s, q, Shuffle(s.me, N \cup {s.me}, ShuffleWalk)) :
                 N \in ShufflePeers(s, q)} : q \in s.active}

\* A passive peer that did not answer in time is dropped for another one.
HandlePendingNeighborTimer(s, p) ==
  LET r == [s EXCEPT !.timers[p] = @ - 1]
  IN IF p \in s.pending
     THEN Refill([r EXCEPT !.pending = @ \ {p}, !.passive = @ \ {p}], {})
     ELSE {r}

\* handle_quit takes leave of one active peer after the other; the ShuffleReply
\* to each names the peers that are still active then.
HandleQuit(s) ==
  {[s EXCEPT !.sent = [p \in Nodes |->
                         IF p \in s.active
                         THEN <<ShuffleReply(N[p]), Disconnect(FALSE)>>
                         ELSE <<>>],
             !.dropped = s.active] :
     N \in {f \in [s.active -> SUBSET (s.active \cup s.passive)] :
             \E rank \in [s.active -> 1 .. Cardinality(s.active)] :
               \A p \in s.active :
                 LET later == {q \in s.active : rank[p] < rank[q]}
                 IN /\ \A q \in s.active \ {p} : rank[p] # rank[q]
                    /\ f[p] \in Sample(s.passive, later, FarewellLength)}}

(***************************************************************************)
(* The network.                                                            *)
(***************************************************************************)

\* n does not know yet that its connection to p is gone: what it sends is lost.
Dead(links, n, p) == links[<<p, n>>] # <<>> /\ links[<<p, n>>][1] = Closed

\* The next message of a stream; a Disconnect is the last of its stream.
Deliverable(l) ==
  {i \in 1 .. Len(net[l]) :
     i = 1 \/ net[l][i - 1].kind \in {"Disconnect", "Closed"}}

Without(q, i) == SubSeq(q, 1, i - 1) \o SubSeq(q, i + 1, Len(q))

\* The link once n has read message i.  A message of a newer connection makes
\* that one current, and the end of the older one is no longer reported.
Taken(l, i) ==
  LET q == Without(net[l], i)
  IN IF i > 1 /\ net[l][1] = Closed THEN Tail(q) ELSE q

\* n moves on to one of the outcomes of a handler, and its outbox is processed.
Becomes(n, r, links) ==
  /\ active' = [active EXCEPT ![n] = r.active]
  /\ passive' = [passive EXCEPT ![n] = r.passive]
  /\ pending' = [pending EXCEPT ![n] = r.pending]
  /\ alive' = [alive EXCEPT ![n] = r.alive]
  /\ timers' = [timers EXCEPT ![n] = r.timers]
  /\ net' = [l \in Links |->
               IF l[1] = n /\ ~Dead(links, n, l[2])
               THEN links[l] \o r.sent[l[2]]
               ELSE IF l[2] = n /\ l[1] \in r.dropped /\ Dead(links, n, l[1])
               THEN Tail(links[l])
               ELSE links[l]]

\* The outcomes of handling a message of p.
Handle(s, p, m) ==
  CASE m.kind = "Join" -> OnJoin(s, p)
    [] m.kind = "ForwardJoin" -> OnForwardJoin(s, p, m)
    [] m.kind = "Neighbor" -> OnNeighbor(s, p, m.priority)
    [] m.kind = "Shuffle" -> OnShuffle(s, p, m)
    [] m.kind = "ShuffleReply" -> OnShuffleReply(s, m.nodes)
    [] m.kind = "Disconnect" -> OnDisconnect(s, p, m.alive)
    [] m.kind = "Closed" -> HandleConnectionClosed(s, p)

(***************************************************************************)
(* Actions.                                                                *)
(***************************************************************************)

\* A member handles the next message of a stream (or learns that the
\* connection is gone).
Receive(n, p, i) ==
  /\ n \in member
  /\ \E r \in Handle(State(n), p, net[<<p, n>>][i]) :
       Becomes(n, r, [net EXCEPT ![<<p, n>>] = Taken(<<p, n>>, i)])
  /\ UNCHANGED <<member, joins, events, disturbed>>

\* Without a state for the topic the message is dropped.
Ignore(n, p, i) ==
  /\ n \notin member
  /\ net' = [net EXCEPT ![<<p, n>>] = Taken(<<p, n>>, i)]
  /\ UNCHANGED <<member, views, joins, events, disturbed>>

\* Command::Join: creates the state if there is none, and asks every peer.
JoinTopic(n, peers) ==
  /\ joins < MaxJoins
  /\ joins' = joins + 1
  /\ member' = member \cup {n}
  /\ Becomes(n, SendToAll(State(n), peers, Join), net)
  /\ UNCHANGED <<events, disturbed>>

\* Command::Quit: state.rs drops the topic's state afterwards.
Quit(n) ==
  /\ events < MaxEvents
  /\ n \in member
  /\ events' = events + 1
  /\ disturbed' = TRUE
  /\ member' = member \ {n}
  /\ \E r \in HandleQuit(State(n)) :
       Becomes(n, [r EXCEPT !.active = {}, !.passive = {}, !.pending = {},
                            !.alive = {}], net)
  /\ UNCHANGED joins

ShuffleTimer(n) ==
  /\ events < MaxEvents
  /\ n \in member
  /\ events' = events + 1
  /\ \E r \in HandleShuffleTimer(State(n)) : Becomes(n, r, net)
  /\ UNCHANGED <<member, joins, disturbed>>

\* Mutant: the actor reports a timer it does not hold.
NeighborTimer_NotArmed(n, p) ==
  /\ n \in member
  /\ \E r \in HandlePendingNeighborTimer(State(n), p) : Becomes(n, r, net)
  /\ UNCHANGED <<member, joins, events, disturbed>>

\* A PendingNeighborRequest timer expires; without a state for the topic it is
\* dropped.
NeighborTimer(n, p) ==
  /\ timers[n][p] > 0
  /\ IF n \in member
     THEN \E r \in HandlePendingNeighborTimer(State(n), p) : Becomes(n, r, net)
     ELSE /\ timers' = [timers EXCEPT ![n][p] = @ - 1]
          /\ UNCHANGED <<active, passive, pending, alive, net>>
  /\ UNCHANGED <<member, joins, events, disturbed>>

\* The connection of n and p fails: what is under way is lost and both ends
\* find out.
Break(n, p) ==
  /\ events < MaxEvents
  /\ n \in active[p] \/ p \in active[n]
  /\ events' = events + 1
  /\ disturbed' = TRUE
  /\ net' = [net EXCEPT ![<<n, p>>] = <<Closed>>, ![<<p, n>>] = <<Closed>>]
  /\ UNCHANGED <<member, views, joins>>

\* n's dials to p fail until its retries are used up (schedule_retry).
Unreachable(n, p) ==
  /\ events < MaxEvents
  /\ n \notin active[p] /\ p \notin active[n]
  /\ net[<<n, p>>] # <<>> /\ net[<<p, n>>] = <<>>
  /\ events' = events + 1
  /\ disturbed' = TRUE
  /\ net' = [net EXCEPT ![<<n, p>>] = <<>>, ![<<p, n>>] = <<Closed>>]
  /\ UNCHANGED <<member, views, joins>>

Next ==
  \/ \E l \in Links : \E i \in Deliverable(l) :
       Receive(l[2], l[1], i) \/ Ignore(l[2], l[1], i)
  \/ \E n \in Nodes :
       \/ \E peers \in SUBSET (Nodes \ {n}) : JoinTopic(n, peers)
       \/ Quit(n)
       \/ ShuffleTimer(n)
  \/ \E l \in Links :
       NeighborTimer(l[1], l[2]) \/ Break(l[1], l[2]) \/ Unreachable(l[1], l[2])

Spec == Init /\ [][Next]_vars

\* What the actor's loop keeps doing: it reads every stream and fires timers.
Fairness ==
  \A l \in Links :
    /\ WF_vars(/\ 1 \in Deliverable(l)
               /\ (Receive(l[2], l[1], 1) \/ Ignore(l[2], l[1], 1)))
    /\ WF_vars(NeighborTimer(l[1], l[2]))

FairSpec == Spec /\ Fairness

(***************************************************************************)
(* Properties.                                                             *)
(***************************************************************************)
TypeOK ==
  /\ member \subseteq Nodes
  /\ active \in [Nodes -> SUBSET Nodes]
  /\ passive \in [Nodes -> SUBSET Nodes]
  /\ pending \in [Nodes -> SUBSET Nodes]
  /\ alive \in [Nodes -> SUBSET Nodes]
  /\ timers \in [Nodes -> [Nodes -> Nat]]
  /\ net = [l \in Links |-> net[l]]
  /\ \A l \in Links : net[l] \in Seq(PacketTo(l[2]))
  /\ joins \in 0 .. MaxJoins
  /\ events \in 0 .. MaxEvents
  /\ disturbed \in BOOLEAN

\* Whatever handlers run in whatever order: no peer is in both views of a node,
\* no node is its own neighbour or asks itself to be one, and neither view
\* outgrows its capacity (add_active, add_passive, remove_active, refill).
ViewsWellFormed ==
  \A n \in Nodes :
    /\ active[n] \cap passive[n] = {}
    /\ n \notin active[n] \cup passive[n] \cup pending[n]
    /\ Cardinality(active[n]) <= ActiveCapacity
    /\ Cardinality(passive[n]) <= PassiveCapacity

\* Nothing is under way and no request waits for its timeout.
Quiet ==
  /\ \A l \in Links : net[l] = <<>>
  /\ \A n, p \in Nodes : timers[n][p] = 0

\* As long as no connection failed and nobody quit, concurrent joins, shuffles
\* and neighbour requests settle in views that agree: a neighbour of n has n as
\* its neighbour, and only neighbours are left in pending_neighbor_requests
\* (on_join, on_forward_join, on_neighbor and send_neighbor together; the views
\* are large enough that nobody is dropped for another).
UndisturbedViewsAreMutual ==
  Quiet /\ ~disturbed =>
    \A n, p \in member : /\ p \in active[n] => n \in active[p]
                         /\ p \in pending[n] => p \in active[n]

\* "The HyParView protocol ensures that active connections are always
\* bidirectional" (src/src/proto.rs:27), also after a quit or a failed connection.
ActiveIsBidirectional ==
  Quiet => \A n, p \in member : p \in active[n] => n \in active[p]

\* A node whose Join request is on its way to a member gets a neighbour, unless
\* a connection fails or somebody quits (on_join, on_neighbor).
JoinConnects ==
  \A l \in Links :
    (/\ l[1] \in member /\ l[2] \in member
     /\ net[l] # <<>> /\ net[l][1] = Join)
      ~> (active[l[1]] # {} \/ disturbed)
=============================================================================
