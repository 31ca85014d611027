---------------------------- MODULE MCMessagePath ----------------------------
(***************************************************************************)
(* Instances of MessagePath for TLC.                                       *)
(***************************************************************************)
EXTENDS MessagePath, TLC

Symmetry == Permutations(Client) \cup Permutations(Change)
=============================================================================
