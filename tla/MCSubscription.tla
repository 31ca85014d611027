--------------------------- MODULE MCSubscription ---------------------------
(***************************************************************************)
(* Instances of Subscription for TLC.                                      *)
(***************************************************************************)
EXTENDS Subscription, TLC

Symmetry == Permutations(Socket)
=============================================================================
