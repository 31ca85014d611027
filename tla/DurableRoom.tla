----------------------------- MODULE DurableRoom -----------------------------
(***************************************************************************)
(* What the persistence of one document promises, whoever does it (the     *)
(* socket servers with Y_WORKER_DISABLED, the workers otherwise).          *)
(*                                                                         *)
(* accepted  the updates whose append Redis has acknowledged               *)
(* live      what a full read of the document returns: stream and storage  *)
(* durable   what storage alone returns                                    *)
(*                                                                         *)
(* There is no step for a trim: it must be invisible here.  The only loss  *)
(* allowed is Lapse, the expiry of a stream nobody wrote to for its whole  *)
(* time to live, and it never reaches what is durable.                     *)
(***************************************************************************)
CONSTANT Update

VARIABLES accepted, live, durable

vars == <<accepted, live, durable>>

Init == accepted = {} /\ live = {} /\ durable = {}

Accept(m) ==
    /\ accepted' = accepted \cup m
    /\ live' = live \cup m
    /\ UNCHANGED durable

\* A save adds what it has read; one that was under way when the stream
\* expired may bring back updates that had lapsed.
Save(doc) ==
    /\ durable' = durable \cup doc
    /\ live' = live \cup doc
    /\ UNCHANGED accepted

Lapse ==
    /\ live' = durable
    /\ UNCHANGED <<accepted, durable>>

Next ==
    \/ \E m \in SUBSET Update : Accept(m)
    \/ \E doc \in SUBSET accepted : Save(doc)
    \/ Lapse

Spec == Init /\ [][Next]_vars
=============================================================================
