---------------------------- MODULE MCWorkerQueue ----------------------------
(***************************************************************************)
(* Instances of WorkerQueue for TLC.                                       *)
(***************************************************************************)
EXTENDS WorkerQueue, TLC

\* Every update by itself.
Singletons == {{u} : u \in Update}

CONSTANTS MaxAppends, MaxJobs

\* Bounds the length of the stream and the tasks processed at once.
Bounded == Cardinality(entries) <= MaxAppends /\ Cardinality(jobs) <= MaxJobs

Symmetry == Permutations(Worker) \cup Permutations(Update)
=============================================================================
