-------------------------- MODULE MCRoomPersistence --------------------------
(***************************************************************************)
(* Instances of RoomPersistence for TLC.                                   *)
(***************************************************************************)
EXTENDS RoomPersistence, FiniteSets, TLC

CONSTANTS MaxTime, MaxAppends, MaxStrays

\* Bounds on what only time and the clients limit.
Bounded ==
    /\ now <= MaxTime
    /\ lastGen.ms <= MaxTime
    /\ Cardinality(entries) <= MaxAppends
    /\ Cardinality(strays) <= MaxStrays

\* Every update by itself, and an awareness message.
Singletons == {{u} : u \in Update} \cup {{}}

Symmetry == Permutations(Server) \cup Permutations(Update)
=============================================================================
