---------------------------- MODULE MCHyParView ----------------------------
(* Instances of HyParView for TLC: up to three nodes, one of which founded the topic. *)
EXTENDS HyParView

CONSTANTS a, b, c

\* The behaviours in which whoever joins the topic asks a contact.
AskingSpec == Init /\ [][Next /\ (joins' # joins => net' # net)]_vars
=============================================================================
