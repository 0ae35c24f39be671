--------------------------- MODULE PlumtreeRepair ---------------------------
(***************************************************************************)
(* What one broadcast of Plumtree makes of the eager links that earlier    *)
(* broadcasts left behind.  Broadcasts that cross prune too many links: on *)
(* each link both payloads may be duplicates, so the links that stay eager *)
(* need not reach everyone.  Announcements and Graft still deliver the     *)
(* next broadcast, and the links it travels over are eager again.          *)
(***************************************************************************)
EXTENDS Plumtree

CONSTANT Lone   \* the message that is broadcast alone

ASSUME LoneAssumption == Lone \in SwarmMessages

\* The two ends of a link agree on whether it is eager.  A Prune and a Graft
\* that cross leave them in disagreement (on_prune, on_graft).
LinksAgree == \A n, p \in Nodes : p \in eager[n] <=> n \in eager[p]

\* Lone is broadcast once nothing else is under way, over links whose ends
\* agree, and nothing is broadcast after it.
RunsAlone ==
  /\ author'[Lone] # author[Lone] => Quiet /\ LinksAgree
  /\ author[Lone] # NoNode => author' = author

LoneSpec == Init /\ [][Next /\ RunsAlone]_vars

\* A broadcast that runs alone repairs the tree: once it is quiet again, the
\* links that both ends use eagerly reach every node (on_gossip, on_ihave,
\* on_graft, on_send_graft_timer and optimize_tree together).  It need not if
\* the ends of a link disagree: optimize_tree then prunes the sender in favour
\* of a peer that is eager already and is not told (plumtree.rs:630).
LoneBroadcastRepairsTree ==
  author[Lone] # NoNode => EagerTreeSpans
=============================================================================
