---------------------------- MODULE MCFriendship ----------------------------
(***************************************************************************)
(* Two peers: the requests and relationships of different pairs do not     *)
(* touch each other, except that a save writes all of a peer's.            *)
(***************************************************************************)
EXTENDS Friendship

CONSTANTS a, b
=============================================================================
