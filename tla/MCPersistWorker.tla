--------------------------- MODULE MCPersistWorker ---------------------------
(***************************************************************************)
(* Instances of PersistWorker for TLC.                                     *)
(***************************************************************************)
EXTENDS PersistWorker, TLC
=============================================================================
