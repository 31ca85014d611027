------------------------------ MODULE MCProvider ------------------------------
(***************************************************************************)
(* An instance of Provider for TLC: see Provider.cfg.                      *)
(***************************************************************************)
EXTENDS Provider
=============================================================================
