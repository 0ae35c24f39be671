----------------------------- MODULE MCPlumtree -----------------------------
(* Instances of Plumtree for TLC. *)
EXTENDS PlumtreeRepair, TLC

CONSTANTS a, b, c, m1, m2, m3, m4

\* Everyone may be connected to everyone.
Complete == {l \in Nodes \X Nodes : l[1] # l[2]}

\* Nodes of a complete overlay are interchangeable, and so are messages.
Symmetric == Permutations(Nodes) \cup Permutations(SwarmMessages)

\* Lone is the last message, whatever concurrent broadcasts left behind.
LoneIsLast ==
  author'[Lone] # author[Lone] =>
    \A m \in SwarmMessages \ {Lone} : author[m] # NoNode

SpecLoneLast == Init /\ [][Next /\ RunsAlone /\ LoneIsLast]_vars
FairSpecLoneLast == SpecLoneLast /\ Fairness

\* Either a link breaks or a node evicts payloads, not both.
SpecOneDisturbance == Init /\ [][Next /\ churn' + evictions' <= 1]_vars
=============================================================================
