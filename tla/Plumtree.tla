------------------------------ MODULE Plumtree ------------------------------
(***************************************************************************)
(* The epidemic broadcast tree of one topic (src/src/proto/plumtree.rs).   *)
(*                                                                         *)
(* Every node pushes full payloads to its eager peers and, after a timer,  *)
(* announcements (IHave) to its lazy peers.  A duplicate payload is        *)
(* answered with Prune, which turns the link lazy; an announcement whose   *)
(* payload does not arrive in time is answered with Graft, which turns the *)
(* link eager and fetches the payload.                                     *)
(*                                                                         *)
(* Nodes talk over one FIFO stream per direction: net/util.rs opens one    *)
(* stream per topic on a connection.  Timers fire at an arbitrary moment   *)
(* after they were scheduled.  The membership layer (hyparview.rs, through *)
(* topic.rs) appears as the NeighborUp and NeighborDown events it forwards.*)
(***************************************************************************)
EXTENDS Integers, Sequences

CONSTANTS
  Nodes,             \* members of the topic
  Overlay,           \* pairs of nodes the membership layer may connect
  SwarmMessages,     \* contents broadcast with Scope::Swarm
  NeighborMessages,  \* contents broadcast with Scope::Neighbors
  NoNode,            \* a message nobody has broadcast yet
  NoMessage,         \* the None of Graft::id
  Threshold,         \* config.optimization_threshold
  MaxChurn,          \* bound: NeighborDown events (each allows one NeighborUp)
  MaxEvictions,      \* bound: cache eviction ticks that remove something
  IdsExpire          \* whether message ids may be evicted too

Messages == SwarmMessages \cup NeighborMessages

ASSUME PlumtreeAssumption ==
  /\ Overlay \subseteq Nodes \X Nodes
  /\ \A l \in Overlay : l[1] # l[2] /\ <<l[2], l[1]>> \in Overlay
  /\ SwarmMessages \cap NeighborMessages = {}
  /\ NoNode \notin Nodes
  /\ NoMessage \notin Messages
  /\ Threshold \in Nat \ {0}
  /\ MaxChurn \in Nat
  /\ MaxEvictions \in Nat
  /\ IdsExpire \in BOOLEAN

VARIABLES
  eager,          \* eager_push_peers of each node
  lazy,           \* lazy_push_peers
  queue,          \* lazy_push_queue: announcements waiting per peer
  missing,        \* missing_messages: who announced a payload we lack
  received,       \* received_messages: ids whose payload was seen
  cache,          \* cache: the round of each payload still held
  authored,       \* locally_authored
  maxSeen,        \* max_seen_round
  graftFlag,      \* graft_timer_scheduled
  graftTimers,    \* SendGraft timers the runtime holds, per message
  dispatchFlag,   \* dispatch_timer_scheduled
  dispatchTimers, \* DispatchLazyPush timers the runtime holds
  net,            \* stream of each directed link, oldest message first
  view,           \* the active view the membership layer last reported
  author,         \* who broadcast each message
  emitted,        \* Received events handed to the application, per message
  gaps,           \* MissingMessages events handed to the application
  churn,          \* NeighborDown events so far
  evictions       \* evictions so far

protocolVars == <<eager, lazy, queue, missing, received, cache, authored,
                  maxSeen, graftFlag, graftTimers, dispatchFlag,
                  dispatchTimers>>
vars == <<protocolVars, net, view, author, emitted, gaps, churn, evictions>>

NotCached == -1
Links == {l \in Nodes \X Nodes : l[1] # l[2]}

(***************************************************************************)
(* Messages on the wire.  The round of a Graft is not read by anyone.      *)
(***************************************************************************)
DirectScope == -1
Gossip(m, scope) == [kind |-> "Gossip", id |-> m, scope |-> scope]
IHave(list) == [kind |-> "IHave", list |-> list]
Graft(m) == [kind |-> "Graft", id |-> m]
Prune == [kind |-> "Prune"]

Announcement == [id : SwarmMessages, round : Nat]
\* An entry of a missing_messages deque; at orders the entries by arrival.
Claim == [at : Nat, peer : Nodes, round : Nat]
Packet == [kind : {"Gossip"}, id : SwarmMessages, scope : Nat]
          \cup [kind : {"Gossip"}, id : NeighborMessages,
                scope : {DirectScope}]
          \cup [kind : {"IHave"}, list : Seq(Announcement)]
          \cup [kind : {"Graft"}, id : SwarmMessages \cup {NoMessage}]
          \cup [kind : {"Prune"}]

Init ==
  /\ view = [n \in Nodes |-> {p \in Nodes : <<n, p>> \in Overlay}]
  /\ eager = view
  /\ lazy = [n \in Nodes |-> {}]
  /\ queue = [n \in Nodes |-> [p \in Nodes |-> <<>>]]
  /\ missing = [n \in Nodes |-> [m \in SwarmMessages |-> {}]]
  /\ received = [n \in Nodes |-> {}]
  /\ cache = [n \in Nodes |-> [m \in SwarmMessages |-> NotCached]]
  /\ authored = [n \in Nodes |-> {}]
  /\ maxSeen = [n \in Nodes |-> 0]
  /\ graftFlag = [n \in Nodes |-> {}]
  /\ graftTimers = [n \in Nodes |-> [m \in SwarmMessages |-> 0]]
  /\ dispatchFlag = [n \in Nodes |-> FALSE]
  /\ dispatchTimers = [n \in Nodes |-> 0]
  /\ net = [l \in Links |-> <<>>]
  /\ author = [m \in Messages |-> NoNode]
  /\ emitted = [n \in Nodes |-> [m \in Messages |-> 0]]
  /\ gaps = [n \in Nodes |-> 0]
  /\ churn = 0
  /\ evictions = 0

(***************************************************************************)
(* Helpers shared by the handlers.                                         *)
(***************************************************************************)

\* The streams after node n sent out[p] to every peer p.
Transmit(streams, n, out) ==
  [l \in Links |-> IF l[1] = n THEN streams[l] \o out[l[2]] ELSE streams[l]]

\* The streams once n has taken the next message s sent to it.
Taken(s, n) == [net EXCEPT ![<<s, n>>] = Tail(@)]

\* n is about to handle a message of this kind from s.
Incoming(s, n, kind) ==
  /\ <<s, n>> \in Links
  /\ net[<<s, n>>] # <<>>
  /\ Head(net[<<s, n>>]).kind = kind

\* add_eager: moves the peer into the eager set.
AddEager(n, p) ==
  /\ eager' = [eager EXCEPT ![n] = @ \cup {p}]
  /\ lazy' = [lazy EXCEPT ![n] = @ \ {p}]

\* Mutant: the peer is not removed from eager.
AddLazy_KeepsEager(n, p) ==
  /\ eager' = eager
  /\ lazy' = [lazy EXCEPT ![n] = @ \cup {p}]

\* add_lazy: moves the peer into the lazy set.
AddLazy(n, p) ==
  /\ eager' = [eager EXCEPT ![n] = @ \ {p}]
  /\ lazy' = [lazy EXCEPT ![n] = @ \cup {p}]

\* Mutant: also to the one it came from.
EagerPush_BackToSender(n, m, scope, from) ==
  [p \in Nodes |-> IF p \in eager[n] \ {n}
                   THEN <<Gossip(m, scope)>> ELSE <<>>]

\* eager_push: the payload to every eager peer but the one it came from.
EagerPush(n, m, scope, from) ==
  [p \in Nodes |-> IF p \in eager[n] \ {n, from}
                   THEN <<Gossip(m, scope)>> ELSE <<>>]

\* Mutant: one lazy peer instead of all.
LazyPush_One(n, m, round, from) ==
  LET others == lazy[n] \ {from}
      to == IF others = {} THEN {} ELSE {CHOOSE p \in others : TRUE}
  IN /\ queue' = [queue EXCEPT ![n] =
           [p \in Nodes |-> IF p \in to
              THEN Append(queue[n][p], [id |-> m, round |-> round])
              ELSE queue[n][p]]]
     /\ dispatchFlag' = [dispatchFlag EXCEPT ![n] = @ \/ to # {}]
     /\ dispatchTimers' = [dispatchTimers EXCEPT
           ![n] = IF to # {} /\ ~dispatchFlag[n] THEN @ + 1 ELSE @]

\* lazy_push: queue the announcement and start the dispatch timer.
LazyPush(n, m, round, from) ==
  LET to == lazy[n] \ {from}
      start == to # {} /\ ~dispatchFlag[n]
  IN /\ queue' = [queue EXCEPT ![n] =
           [p \in Nodes |-> IF p \in to
              THEN Append(queue[n][p], [id |-> m, round |-> round])
              ELSE queue[n][p]]]
     /\ dispatchFlag' = [dispatchFlag EXCEPT ![n] = @ \/ start]
     /\ dispatchTimers' = [dispatchTimers EXCEPT
           ![n] = IF start THEN @ + 1 ELSE @]

(***************************************************************************)
(* Application: broadcast.  A content is broadcast once.                   *)
(***************************************************************************)
BroadcastSwarm(n, m) ==
  /\ author[m] = NoNode
  /\ author' = [author EXCEPT ![m] = n]
  /\ received' = [received EXCEPT ![n] = @ \cup {m}]
  /\ cache' = [cache EXCEPT ![n][m] = 0]
  /\ authored' = [authored EXCEPT ![n] = @ \cup {m}]
  /\ LazyPush(n, m, 0, n)
  /\ net' = Transmit(net, n, EagerPush(n, m, 0, n))
  /\ UNCHANGED <<eager, lazy, missing, maxSeen, graftFlag, graftTimers, view,
                 emitted, gaps, churn, evictions>>

BroadcastNeighbors(n, m) ==
  /\ author[m] = NoNode
  /\ author' = [author EXCEPT ![m] = n]
  /\ net' = Transmit(net, n, EagerPush(n, m, DirectScope, n))
  /\ UNCHANGED <<protocolVars, view, emitted, gaps, churn, evictions>>

(***************************************************************************)
(* on_gossip, by what is known of the payload when it arrives.             *)
(***************************************************************************)

\* Mutant: the echo reaches the application.
OnGossipEcho_Emits(s, n) ==
  /\ Incoming(s, n, "Gossip")
  /\ LET m == Head(net[<<s, n>>]).id
     IN /\ m \in received[n] \cap authored[n]
        /\ authored' = [authored EXCEPT ![n] = @ \ {m}]
        /\ emitted' = [emitted EXCEPT ![n][m] = @ + 1]
  /\ net' = Taken(s, n)
  /\ UNCHANGED <<eager, lazy, queue, missing, received, cache, maxSeen,
                 graftFlag, graftTimers, dispatchFlag, dispatchTimers, view,
                 author, gaps, churn, evictions>>

\* Our own broadcast comes back: the first such echo is not pruned.
OnGossipEcho(s, n) ==
  /\ Incoming(s, n, "Gossip")
  /\ LET m == Head(net[<<s, n>>]).id
     IN /\ m \in received[n] \cap authored[n]
        /\ authored' = [authored EXCEPT ![n] = @ \ {m}]
  /\ net' = Taken(s, n)
  /\ UNCHANGED <<eager, lazy, queue, missing, received, cache, maxSeen,
                 graftFlag, graftTimers, dispatchFlag, dispatchTimers, view,
                 author, emitted, gaps, churn, evictions>>

\* Already received: the link turns lazy and the sender is told.
OnGossipDuplicate(s, n) ==
  /\ Incoming(s, n, "Gossip")
  /\ Head(net[<<s, n>>]).id \in received[n] \ authored[n]
  /\ AddLazy(n, s)
  /\ net' = Transmit(Taken(s, n), n,
                     [p \in Nodes |-> IF p = s THEN <<Prune>> ELSE <<>>])
  /\ UNCHANGED <<queue, missing, received, cache, authored, maxSeen,
                 graftFlag, graftTimers, dispatchFlag, dispatchTimers, view,
                 author, emitted, gaps, churn, evictions>>

\* optimize_tree: the peer whose announcement, the first with the fewest hops,
\* promised a path shorter by Threshold than the one the payload took.
Promoted(claims, round) ==
  {c.peer : c \in {c \in claims :
     /\ \A d \in claims : c.round < d.round \/ (c.round = d.round /\ c.at <= d.at)
     /\ c.round < round
     /\ round - c.round >= Threshold}}

\* A new payload: emit it, keep it, push it on, stop chasing it.
OnGossipSwarm(s, n) ==
  /\ Incoming(s, n, "Gossip")
  /\ LET m == Head(net[<<s, n>>]).id
         hops == Head(net[<<s, n>>]).scope
         round == hops + 1
         better == Promoted(missing[n][m], round)
         worse == IF better = {} THEN {} ELSE {s}
         push == EagerPush(n, m, round, s)
         graft == [p \in Nodes |-> IF p \in better \ eager[n]
                                   THEN <<Graft(NoMessage)>> ELSE <<>>]
         prune == [p \in Nodes |-> IF p \in worse THEN <<Prune>> ELSE <<>>]
     IN /\ m \in SwarmMessages \ received[n]
        /\ emitted' = [emitted EXCEPT ![n][m] = @ + 1]
        /\ received' = [received EXCEPT ![n] = @ \cup {m}]
        /\ gaps' = [gaps EXCEPT ![n] = IF hops > maxSeen[n] + 1
                                       THEN @ + 1 ELSE @]
        /\ maxSeen' = [maxSeen EXCEPT ![n] = IF hops > @ THEN hops ELSE @]
        /\ cache' = [cache EXCEPT ![n][m] = round]
        /\ LazyPush(n, m, round, s)
        /\ graftFlag' = [graftFlag EXCEPT ![n] = @ \ {m}]
        /\ missing' = [missing EXCEPT ![n][m] = {}]
        /\ eager' = [eager EXCEPT ![n] = (@ \cup better) \ worse]
        /\ lazy' = [lazy EXCEPT ![n] = (@ \ better) \cup worse]
        /\ net' = Transmit(Taken(s, n), n,
                           [p \in Nodes |-> push[p] \o graft[p] \o prune[p]])
  /\ UNCHANGED <<authored, graftTimers, view, author, churn, evictions>>

\* Mutant: pushed on like a swarm message.
OnGossipNeighbors_Forwards(s, n) ==
  /\ Incoming(s, n, "Gossip")
  /\ LET m == Head(net[<<s, n>>]).id
     IN /\ m \in NeighborMessages
        /\ emitted' = [emitted EXCEPT ![n][m] = @ + 1]
        /\ net' = Transmit(Taken(s, n), n, EagerPush(n, m, DirectScope, s))
  /\ UNCHANGED <<protocolVars, view, author, gaps, churn, evictions>>

\* A payload for direct neighbours is emitted and neither kept nor pushed on.
OnGossipNeighbors(s, n) ==
  /\ Incoming(s, n, "Gossip")
  /\ LET m == Head(net[<<s, n>>]).id
     IN /\ m \in NeighborMessages
        /\ emitted' = [emitted EXCEPT ![n][m] = @ + 1]
  /\ net' = Taken(s, n)
  /\ UNCHANGED <<protocolVars, view, author, gaps, churn, evictions>>

(***************************************************************************)
(* Control messages.                                                       *)
(***************************************************************************)
OnPrune(s, n) ==
  /\ Incoming(s, n, "Prune")
  /\ AddLazy(n, s)
  /\ net' = Taken(s, n)
  /\ UNCHANGED <<queue, missing, received, cache, authored, maxSeen,
                 graftFlag, graftTimers, dispatchFlag, dispatchTimers, view,
                 author, emitted, gaps, churn, evictions>>

\* The position of the latest entry in n's deques.
LastArrival(n) ==
  LET held == UNION {missing[n][m] : m \in SwarmMessages}
  IN {k \in {0} \cup {c.at : c \in held} : \A c \in held : c.at <= k}

\* The entries a batch of announcements by s appends to the deque of m.
NewClaims(list, m, s, last) ==
  {[at |-> last + i, peer |-> s, round |-> list[i].round] :
     i \in {i \in DOMAIN list : list[i].id = m}}

\* Mutant: sets the flag, then tests it.
OnIHave_FlagFirst(s, n) ==
  /\ Incoming(s, n, "IHave")
  /\ LET list == Head(net[<<s, n>>]).list
         lacked == {list[i].id : i \in DOMAIN list} \ received[n]
     IN /\ \E last \in LastArrival(n) :
             missing' = [missing EXCEPT ![n] =
               [m \in SwarmMessages |-> missing[n][m] \cup
                  (IF m \in lacked THEN NewClaims(list, m, s, last) ELSE {})]]
        /\ graftFlag' = [graftFlag EXCEPT ![n] = @ \cup lacked]
  /\ net' = Taken(s, n)
  /\ UNCHANGED <<eager, lazy, queue, received, cache, authored, maxSeen,
                 graftTimers, dispatchFlag, dispatchTimers, view, author,
                 emitted, gaps, churn, evictions>>

\* Every announced payload we lack is recorded, and chased by one timer.
OnIHave(s, n) ==
  /\ Incoming(s, n, "IHave")
  /\ LET list == Head(net[<<s, n>>]).list
         lacked == {list[i].id : i \in DOMAIN list} \ received[n]
     IN /\ \E last \in LastArrival(n) :
             missing' = [missing EXCEPT ![n] =
               [m \in SwarmMessages |-> missing[n][m] \cup
                  (IF m \in lacked THEN NewClaims(list, m, s, last) ELSE {})]]
        /\ graftTimers' = [graftTimers EXCEPT ![n] =
              [m \in SwarmMessages |-> IF m \in lacked \ graftFlag[n]
                 THEN graftTimers[n][m] + 1 ELSE graftTimers[n][m]]]
        /\ graftFlag' = [graftFlag EXCEPT ![n] = @ \cup lacked]
  /\ net' = Taken(s, n)
  /\ UNCHANGED <<eager, lazy, queue, received, cache, authored, maxSeen,
                 dispatchFlag, dispatchTimers, view, author, emitted, gaps,
                 churn, evictions>>

\* The link turns eager; the payload is sent if it is still cached.
OnGraft(s, n) ==
  /\ Incoming(s, n, "Graft")
  /\ AddEager(n, s)
  /\ LET m == Head(net[<<s, n>>]).id
         held == m # NoMessage /\ cache[n][m] # NotCached
     IN net' = Transmit(Taken(s, n), n,
                 [p \in Nodes |-> IF held /\ p = s
                    THEN <<Gossip(m, cache[n][m])>> ELSE <<>>])
  /\ UNCHANGED <<queue, missing, received, cache, authored, maxSeen,
                 graftFlag, graftTimers, dispatchFlag, dispatchTimers, view,
                 author, emitted, gaps, churn, evictions>>

(***************************************************************************)
(* Timers.                                                                 *)
(***************************************************************************)

\* Mutant: flag not reset.
OnDispatchTimer_KeepsFlag(n) ==
  /\ dispatchTimers[n] > 0
  /\ dispatchTimers' = [dispatchTimers EXCEPT ![n] = @ - 1]
  /\ queue' = [queue EXCEPT ![n] = [p \in Nodes |-> <<>>]]
  /\ net' = Transmit(net, n,
              [p \in Nodes |-> IF queue[n][p] # <<>>
                 THEN <<IHave(queue[n][p])>> ELSE <<>>])
  /\ UNCHANGED <<eager, lazy, missing, received, cache, authored, maxSeen,
                 graftFlag, graftTimers, dispatchFlag, view, author, emitted,
                 gaps, churn, evictions>>

\* on_dispatch_timer: one IHave per peer with queued announcements.
OnDispatchTimer(n) ==
  /\ dispatchTimers[n] > 0
  /\ dispatchTimers' = [dispatchTimers EXCEPT ![n] = @ - 1]
  /\ dispatchFlag' = [dispatchFlag EXCEPT ![n] = FALSE]
  /\ queue' = [queue EXCEPT ![n] = [p \in Nodes |-> <<>>]]
  /\ net' = Transmit(net, n,
              [p \in Nodes |-> IF queue[n][p] # <<>>
                 THEN <<IHave(queue[n][p])>> ELSE <<>>])
  /\ UNCHANGED <<eager, lazy, missing, received, cache, authored, maxSeen,
                 graftFlag, graftTimers, view, author, emitted, gaps, churn,
                 evictions>>

\* Mutant: no second timer.
OnSendGraftTimer_NoRetry(n, m) ==
  /\ graftTimers[n][m] > 0
  /\ graftFlag' = [graftFlag EXCEPT ![n] = @ \ {m}]
  /\ graftTimers' = [graftTimers EXCEPT ![n][m] = @ - 1]
  /\ IF m \in received[n] \/ missing[n][m] = {}
     THEN UNCHANGED <<eager, lazy, missing, net>>
     ELSE \E first \in missing[n][m] :
             /\ \A d \in missing[n][m] : first.at <= d.at
             /\ missing' = [missing EXCEPT ![n][m] = @ \ {first}]
             /\ AddEager(n, first.peer)
             /\ net' = Transmit(net, n,
                         [p \in Nodes |-> IF p = first.peer
                            THEN <<Graft(m)>> ELSE <<>>])
  /\ UNCHANGED <<queue, received, cache, authored, maxSeen, dispatchFlag,
                 dispatchTimers, view, author, emitted, gaps, churn,
                 evictions>>

\* Mutant: asks without add_eager.
OnSendGraftTimer_StaysLazy(n, m) ==
  /\ graftTimers[n][m] > 0
  /\ graftFlag' = [graftFlag EXCEPT ![n] = @ \ {m}]
  /\ IF m \in received[n] \/ missing[n][m] = {}
     THEN /\ graftTimers' = [graftTimers EXCEPT ![n][m] = @ - 1]
          /\ UNCHANGED <<missing, net>>
     ELSE \E first \in missing[n][m] :
             /\ \A d \in missing[n][m] : first.at <= d.at
             /\ missing' = [missing EXCEPT ![n][m] = @ \ {first}]
             /\ net' = Transmit(net, n,
                         [p \in Nodes |-> IF p = first.peer
                            THEN <<Graft(m)>> ELSE <<>>])
             /\ UNCHANGED graftTimers
  /\ UNCHANGED <<eager, lazy, queue, received, cache, authored, maxSeen,
                 dispatchFlag, dispatchTimers, view, author, emitted, gaps,
                 churn, evictions>>

\* on_send_graft_timer: ask the first announcer, and set the next timer.
OnSendGraftTimer(n, m) ==
  /\ graftTimers[n][m] > 0
  /\ graftFlag' = [graftFlag EXCEPT ![n] = @ \ {m}]
  /\ IF m \in received[n] \/ missing[n][m] = {}
     THEN /\ graftTimers' = [graftTimers EXCEPT ![n][m] = @ - 1]
          /\ UNCHANGED <<eager, lazy, missing, net>>
     ELSE \E first \in missing[n][m] :
             /\ \A d \in missing[n][m] : first.at <= d.at
             /\ missing' = [missing EXCEPT ![n][m] = @ \ {first}]
             /\ AddEager(n, first.peer)
             /\ net' = Transmit(net, n,
                         [p \in Nodes |-> IF p = first.peer
                            THEN <<Graft(m)>> ELSE <<>>])
             /\ UNCHANGED graftTimers
  /\ UNCHANGED <<queue, received, cache, authored, maxSeen, dispatchFlag,
                 dispatchTimers, view, author, emitted, gaps, churn,
                 evictions>>

\* on_evict_cache_timer.  A payload expires before or with its id.
OnEvictCacheTimer(n) ==
  /\ evictions < MaxEvictions
  /\ evictions' = evictions + 1
  /\ \E ids \in SUBSET (IF IdsExpire THEN received[n] ELSE {}),
        payloads \in SUBSET {m \in SwarmMessages : cache[n][m] # NotCached} :
       /\ ids \cup payloads # {}
       /\ received' = [received EXCEPT ![n] = @ \ ids]
       /\ cache' = [cache EXCEPT ![n] =
             [m \in SwarmMessages |-> IF m \in ids \cup payloads
                THEN NotCached ELSE cache[n][m]]]
  /\ UNCHANGED <<eager, lazy, queue, missing, authored, maxSeen, graftFlag,
                 graftTimers, dispatchFlag, dispatchTimers, net, view, author,
                 emitted, gaps, churn>>

(***************************************************************************)
(* Membership.  topic.rs reports a change of the active view, and reports  *)
(* NeighborDown for any peer whose connection closed, active or not.       *)
(***************************************************************************)
OnNeighborUp(n, p) ==
  /\ <<n, p>> \in Overlay
  /\ p \notin view[n]
  /\ view' = [view EXCEPT ![n] = @ \cup {p}]
  /\ AddEager(n, p)
  /\ UNCHANGED <<queue, missing, received, cache, authored, maxSeen,
                 graftFlag, graftTimers, dispatchFlag, dispatchTimers, net,
                 author, emitted, gaps, churn, evictions>>

OnNeighborDown(n, p) ==
  /\ churn < MaxChurn
  /\ p # n
  /\ churn' = churn + 1
  /\ view' = [view EXCEPT ![n] = @ \ {p}]
  /\ eager' = [eager EXCEPT ![n] = @ \ {p}]
  /\ lazy' = [lazy EXCEPT ![n] = @ \ {p}]
  /\ missing' = [missing EXCEPT ![n] =
        [m \in SwarmMessages |-> {c \in missing[n][m] : c.peer # p}]]
  /\ UNCHANGED <<queue, received, cache, authored, maxSeen, graftFlag,
                 graftTimers, dispatchFlag, dispatchTimers, net, author,
                 emitted, gaps, evictions>>

\* The connection to a peer that left the view closes with what it carried.
ConnectionCloses(n, p) ==
  /\ p \in Nodes \ (view[n] \cup {n})
  /\ net[<<n, p>>] # <<>> \/ net[<<p, n>>] # <<>>
  /\ net' = [net EXCEPT ![<<n, p>>] = <<>>, ![<<p, n>>] = <<>>]
  /\ UNCHANGED <<protocolVars, view, author, emitted, gaps, churn, evictions>>

-----------------------------------------------------------------------------
Receive(s, n) ==
  \/ OnGossipEcho(s, n)
  \/ OnGossipDuplicate(s, n)
  \/ OnGossipSwarm(s, n)
  \/ OnGossipNeighbors(s, n)
  \/ OnPrune(s, n)
  \/ OnIHave(s, n)
  \/ OnGraft(s, n)

Timer(n) ==
  \/ OnDispatchTimer(n)
  \/ \E m \in SwarmMessages : OnSendGraftTimer(n, m)

Next ==
  \/ \E n \in Nodes, m \in SwarmMessages : BroadcastSwarm(n, m)
  \/ \E n \in Nodes, m \in NeighborMessages : BroadcastNeighbors(n, m)
  \/ \E s, n \in Nodes : Receive(s, n)
  \/ \E n \in Nodes : Timer(n)
  \/ \E n \in Nodes : OnEvictCacheTimer(n)
  \/ \E n, p \in Nodes : OnNeighborUp(n, p)
  \/ \E n, p \in Nodes : OnNeighborDown(n, p)
  \/ \E n, p \in Nodes : ConnectionCloses(n, p)

Spec == Init /\ [][Next]_vars

\* The net actor keeps reading every stream and polling the timer queue.
Fairness ==
  /\ \A s, n \in Nodes : WF_vars(Receive(s, n))
  /\ \A n \in Nodes : WF_vars(OnDispatchTimer(n))
  /\ \A n \in Nodes, m \in SwarmMessages : WF_vars(OnSendGraftTimer(n, m))

FairSpec == Spec /\ Fairness

(***************************************************************************)
(* Properties.                                                             *)
(***************************************************************************)

\* Types; and a peer is never eager and lazy at once (add_eager, add_lazy).
TypeOK ==
  /\ view \in [Nodes -> SUBSET Nodes]
  /\ eager \in [Nodes -> SUBSET Nodes]
  /\ lazy \in [Nodes -> SUBSET Nodes]
  /\ \A n \in Nodes : eager[n] \cap lazy[n] = {}
  /\ queue \in [Nodes -> [Nodes -> Seq(Announcement)]]
  /\ missing \in [Nodes -> [SwarmMessages -> SUBSET Claim]]
  /\ received \in [Nodes -> SUBSET SwarmMessages]
  /\ cache \in [Nodes -> [SwarmMessages -> Nat \cup {NotCached}]]
  /\ authored \in [Nodes -> SUBSET SwarmMessages]
  /\ maxSeen \in [Nodes -> Nat]
  /\ graftFlag \in [Nodes -> SUBSET SwarmMessages]
  /\ graftTimers \in [Nodes -> [SwarmMessages -> Nat]]
  /\ dispatchFlag \in [Nodes -> BOOLEAN]
  /\ dispatchTimers \in [Nodes -> Nat]
  /\ net \in [Links -> Seq(Packet)]
  /\ author \in [Messages -> Nodes \cup {NoNode}]
  /\ emitted \in [Nodes -> [Messages -> Nat]]
  /\ gaps \in [Nodes -> Nat]
  /\ churn \in 0..MaxChurn
  /\ evictions \in 0..MaxEvictions

\* While a node lacks a payload some peer announced and was not asked for, a
\* SendGraft timer is running: on_ihave skips the timer when the flag is set,
\* on_gossip clears the flag, and on_send_graft_timer clears it and starts
\* the second timer without setting it again.
AdvertisedIsChased ==
  \A n \in Nodes, m \in SwarmMessages :
    missing[n][m] # {} => graftTimers[n][m] > 0 /\ m \notin received[n]

\* Queued announcements always have exactly one dispatch timer to send them:
\* lazy_push starts it only if the flag says none is running.
QueuedIsDispatched ==
  \A n, p \in Nodes :
    queue[n][p] # <<>> => dispatchFlag[n] /\ dispatchTimers[n] = 1

\* While ids are retained the application gets a swarm message at most once,
\* and its author never gets it back (received_messages in on_gossip).
DeliveredAtMostOnce ==
  \A n \in Nodes, m \in SwarmMessages :
    emitted[n][m] <= (IF author[m] = n THEN 0 ELSE 1)

\* A message with Scope::Neighbors goes one hop: only nodes linked to its
\* author get it, and they get it once although its id is not remembered.
NeighborsScopeIsOneHop ==
  \A n \in Nodes, m \in NeighborMessages :
    emitted[n][m] > 0 => emitted[n][m] = 1 /\ <<author[m], n>> \in Overlay

\* A packet of this kind about m travels from a to b.
Travels(a, b, kind, m) ==
  \E i \in DOMAIN net[<<a, b>>] :
    /\ net[<<a, b>>][i].kind = kind
    /\ IF kind = "IHave"
       THEN \E j \in DOMAIN net[<<a, b>>][i].list :
              net[<<a, b>>][i].list[j].id = m
       ELSE net[<<a, b>>][i].id = m

\* Over a stable overlay no handler forgets a payload: whenever a neighbour
\* lacks what a node holds, the payload, an announcement of it or a request
\* for it is still under way between the two, or it was queued or recorded.
PayloadUnderWay ==
  \A l \in Overlay, m \in SwarmMessages :
    LET n == l[1]
        p == l[2]
    IN m \in received[n] \ received[p] =>
         \/ Travels(n, p, "Gossip", m)
         \/ Travels(n, p, "IHave", m)
         \/ Travels(p, n, "Graft", m)
         \/ \E i \in DOMAIN queue[n][p] : queue[n][p][i].id = m
         \/ \E c \in missing[p][m] : c.peer = n

\* Nothing travels and no timer is running.
Quiet ==
  /\ \A l \in Links : net[l] = <<>>
  /\ \A n \in Nodes : dispatchTimers[n] = 0
  /\ \A n \in Nodes, m \in SwarmMessages : graftTimers[n][m] = 0

\* No broadcast stops short: over a stable and connected overlay, once nothing
\* travels and no timer is running, every member has every broadcast, for what
\* is pruned, announced too late or asked in vain leaves a timer or a message
\* behind (on_gossip, on_ihave, on_graft and both timers).
QuietMeansDelivered ==
  Quiet => \A m \in SwarmMessages, n \in Nodes :
             author[m] # NoNode => m \in received[n]

\* A link both ends push payloads over.
EagerLink(n, p) == p \in eager[n] /\ n \in eager[p]

\* What remains after one broadcast is a tree that reaches everyone: Prune,
\* Graft and optimize_tree never cut the eager links into two parts.
EagerTreeSpans ==
  Quiet => \A part \in (SUBSET Nodes) \ {{}, Nodes} :
             \E n \in part, p \in Nodes \ part : EagerLink(n, p)

\* The first broadcast of a topic leaves such a tree, over any stable and
\* connected overlay: the link a member first got it on is never pruned, and
\* the eager peers are not split by what is (on_gossip, on_prune, eager_push).
FirstBroadcastSpans ==
  (\A m, k \in SwarmMessages : author[m] # NoNode /\ author[k] # NoNode => m = k)
    => EagerTreeSpans

Flood == INSTANCE Flooding WITH Retained <- ~IdsExpire

\* Whatever is pruned, announced, grafted, evicted or disconnected, members get
\* a message only over a link of the overlay, from a neighbour that has it
\* (from its author, if it is for neighbours), and one that remembers its id
\* gets it once (on_gossip, on_graft, the cache and received_messages).
ImplementsFlooding == Flood!Spec

\* Over a stable overlay every member gets every broadcast, whatever the
\* order of duplicates, prunes, announcements and timers.
EventuallyDelivered ==
  \A m \in SwarmMessages :
    author[m] # NoNode ~> \A n \in Nodes : m \in received[n]
=============================================================================
