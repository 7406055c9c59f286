---------------------------- MODULE MCPeerClient ----------------------------
(***************************************************************************)
(* Instances of PeerClient for TLC: its constants are small sets, and the  *)
(* tasks, of which nothing but equality is used, are symmetric.            *)
(***************************************************************************)
EXTENDS PeerClient, TLC

Symmetry == Permutations(Tasks)
=============================================================================
