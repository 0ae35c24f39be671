------------------------------ MODULE Flooding ------------------------------
(***************************************************************************)
(* What the broadcast of a topic promises the applications of its members, *)
(* without eager and lazy peers, announcements, grafts, caches, timers and *)
(* streams: a content passes from a member that has it to a neighbour, and *)
(* reaches nobody in any other way (Event::Received and Scope,             *)
(* src/src/proto/plumtree.rs).  Plumtree implements this specification.    *)
(***************************************************************************)
EXTENDS Naturals

CONSTANTS Nodes, Overlay, SwarmMessages, NeighborMessages, NoNode,
          Retained  \* whether members remember for good what they have had

VARIABLES
  author,   \* who broadcast each message
  emitted   \* how often the application of each member was given it

flood == <<author, emitted>>

Messages == SwarmMessages \cup NeighborMessages

Init ==
  /\ author = [m \in Messages |-> NoNode]
  /\ emitted = [n \in Nodes |-> [m \in Messages |-> 0]]

Has(n, m) == author[m] = n \/ emitted[n][m] > 0

Broadcast(n, m) ==
  /\ author[m] = NoNode
  /\ author' = [author EXCEPT ![m] = n]
  /\ UNCHANGED emitted

Give(n, m) ==
  /\ emitted' = [emitted EXCEPT ![n][m] = @ + 1]
  /\ UNCHANGED author

\* Scope::Swarm: from any member that has it, and to a member that does not,
\* unless that one may have forgotten.
PassOn(p, n, m) ==
  /\ <<p, n>> \in Overlay
  /\ Has(p, m)
  /\ Retained => ~Has(n, m)
  /\ Give(n, m)

\* Scope::Neighbors: from its author only, and once.
Tell(p, n, m) ==
  /\ <<p, n>> \in Overlay
  /\ author[m] = p
  /\ ~Has(n, m)
  /\ Give(n, m)

Next ==
  \/ \E n \in Nodes, m \in Messages : Broadcast(n, m)
  \/ \E p, n \in Nodes, m \in SwarmMessages : PassOn(p, n, m)
  \/ \E p, n \in Nodes, m \in NeighborMessages : Tell(p, n, m)

Spec == Init /\ [][Next]_flood
=============================================================================
