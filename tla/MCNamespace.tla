----------------------------- MODULE MCNamespace -----------------------------
(***************************************************************************)
(* An instance of Namespace for TLC: see Namespace.cfg.                    *)
(***************************************************************************)
EXTENDS Namespace
=============================================================================
