-------------------------- MODULE MCPersistentLeader --------------------------
(***************************************************************************)
(* An instance of PersistentLeader for TLC: see PersistentLeader.cfg.      *)
(***************************************************************************)
EXTENDS PersistentLeader
=============================================================================
