--------------------------- MODULE PersistentLeader ---------------------------
(***************************************************************************)
(* The lease of one namespace: which socket server may save its document.  *)
(* The lease is a Redis key with a time to live.  Its value is a token,    *)
(* new for each acquisition, and three scripts read and write it: acquire, *)
(* renew and release (y-socket-io.js).                                     *)
(*                                                                         *)
(* A server learns what a script did only from its reply, and between the  *)
(* two anything may happen: the namespace is cleaned up and used again, the*)
(* lease expires, the next script is sent.  Scripts and replies under way  *)
(* are sets: no order between them is assumed, although a connection that  *)
(* does not break keeps one.                                               *)
(***************************************************************************)
EXTENDS Integers, FiniteSets

CONSTANTS
    Server,          \* socket server processes; one that restarts is another
    None,            \* no token, an absent map entry, a script's false
    Failed,          \* what a rejected promise is settled with
    WorkerDisabled,  \* Y_WORKER_DISABLED: the server caches documents
    MaxAcquires,     \* bound: acquisitions of all servers together
    MaxBreaks        \* bound: connections that break under a script

ASSUME FlagAssumption == WorkerDisabled \in BOOLEAN
ASSUME BoundsAssumption == MaxAcquires \in Nat /\ MaxBreaks \in Nat

\* `${serverId}:${randomUUID()}`: no two acquisitions have the same n.
Token == Server \X Nat
ASSUME NoTokenAssumption == None \notin Token /\ Failed \notin Token /\ None # Failed

VARIABLES
    key,       \* persist-leader:<namespace> in Redis
    expired,   \* the tokens whose time to live ran out
    alive,     \* servers neither destroyed nor dead
    active,    \* whether the namespace is in use on each server
    issued,    \* how many tokens have been made
    mine,      \* persistentLeaderOf: the token a server believes it holds
    pending,   \* pendingLeaderAcquisitions: the token it is asking with
    beating,   \* whether renewPersistentLeaders awaits a renewal
    scripts,   \* scripts on their way to Redis
    replies,   \* replies on their way back
    breaks     \* how often a connection has broken

serverVars == <<alive, active, issued, mine, pending, beating>>
vars == <<key, expired, serverVars, scripts, replies, breaks>>

\* heard: whether the caller still waits for the reply.
Acquire(s, prev, new, heard) ==
    [op |-> "acquire", s |-> s, prev |-> prev, new |-> new, heard |-> heard]
Renew(s, t, heard) ==
    [op |-> "renew", s |-> s, prev |-> t, new |-> None, heard |-> heard]
Release(s, t) ==
    [op |-> "release", s |-> s, prev |-> t, new |-> None, heard |-> FALSE]

Script == [op : {"acquire", "renew", "release"}, s : Server,
           prev : Token \cup {None}, new : Token \cup {None}, heard : BOOLEAN]

\* token: of the request or the renewal that is answered.
Reply == [op : {"acquire", "renew"}, s : Server, token : Token,
          result : Token \cup {None, Failed}]

TypeOK ==
    /\ key \in Token \cup {None}
    /\ expired \in SUBSET Token
    /\ alive \in [Server -> BOOLEAN]
    /\ active \in [Server -> BOOLEAN]
    /\ issued \in Nat
    /\ mine \in [Server -> Token \cup {None}]
    /\ pending \in [Server -> Token \cup {None}]
    /\ beating \in [Server -> BOOLEAN]
    /\ scripts \in SUBSET Script
    /\ replies \in SUBSET Reply
    /\ breaks \in 0..MaxBreaks

Init ==
    /\ key = None /\ expired = {}
    /\ alive = [s \in Server |-> TRUE]
    /\ active = [s \in Server |-> FALSE]
    /\ issued = 0
    /\ mine = [s \in Server |-> None]
    /\ pending = [s \in Server |-> None]
    /\ beating = [s \in Server |-> FALSE]
    /\ scripts = {} /\ replies = {} /\ breaks = 0

-----------------------------------------------------------------------------
(* Redis.                                                                  *)

\* Faulty: the key is deleted whoever holds it.
KeyAfterBlindDelete(c) ==
    CASE c.op = "acquire" -> IF key = None THEN c.new ELSE key
      [] c.op = "renew"   -> key
      [] c.op = "release" -> None

\* What a script leaves in the key, and what it answers.  Renew and release
\* touch their own token only, acquire its caller's own or an absent one.
KeyAfter(c) ==
    CASE c.op = "acquire" -> IF key = None THEN c.new ELSE key
      [] c.op = "renew"   -> key
      [] c.op = "release" -> IF key = c.prev THEN None ELSE key

ResultOf(c) ==
    CASE key = c.prev /\ key # None -> c.prev
      [] c.op = "acquire" /\ key = None -> c.new
      [] OTHER -> None

ReplyTo(c, result) ==
    [op |-> c.op, s |-> c.s,
     token |-> IF c.op = "acquire" THEN c.new ELSE c.prev, result |-> result]

Execute(c) ==
    /\ key' = KeyAfter(c)
    /\ scripts' = scripts \ {c}
    /\ replies' = IF c.heard THEN replies \cup {ReplyTo(c, ResultOf(c))}
                             ELSE replies
    /\ UNCHANGED <<expired, serverVars, breaks>>

\* The connection breaks: the client rejects the promise, and the script may
\* or may not reach Redis all the same, at any later time.
Disconnect(c) ==
    /\ breaks < MaxBreaks /\ breaks' = breaks + 1
    /\ c.heard
    /\ scripts' = (scripts \ {c}) \cup {[c EXCEPT !.heard = FALSE]}
    /\ replies' = replies \cup {ReplyTo(c, Failed)}
    /\ UNCHANGED <<key, expired, serverVars>>

Discard(c) ==
    /\ breaks < MaxBreaks /\ breaks' = breaks + 1
    /\ ~ c.heard
    /\ scripts' = scripts \ {c}
    /\ UNCHANGED <<key, expired, serverVars, replies>>

\* PX: the holder did not renew in time.
Expire ==
    /\ key # None
    /\ key' = None
    /\ expired' = expired \cup {key}
    /\ UNCHANGED <<serverVars, scripts, replies, breaks>>

-----------------------------------------------------------------------------
(* A server.                                                               *)

\* A connection, or a document cached again.
Activate(s) ==
    /\ alive[s] /\ ~ active[s]
    /\ active' = [active EXCEPT ![s] = TRUE]
    /\ UNCHANGED <<key, expired, alive, issued, mine, pending, beating, scripts, replies, breaks>>

\* Faulty: one token per server and not per acquisition.
ServerToken(s) == <<s, 1>>
NewToken(s) == <<s, issued + 1>>

\* tryAcquirePersistentLeader, from a connection that has got its document
\* and from persistNamespace.  A call finds a pending request and shares it.
\* When the server caches documents it has just cached or used this one
\* (line 303), so the namespace is active; otherwise a slow connection may
\* come here after the cleanup.
TryAcquire(s) ==
    /\ alive[s] /\ pending[s] = None
    /\ WorkerDisabled => active[s]
    /\ issued < MaxAcquires
    /\ issued' = issued + 1
    /\ pending' = [pending EXCEPT ![s] = NewToken(s)]
    /\ scripts' = scripts \cup {Acquire(s, mine[s], NewToken(s), TRUE)}
    /\ UNCHANGED <<key, expired, alive, active, mine, beating, replies, breaks>>

\* Faulty: the reply is believed whatever has happened since the request, and
\* a rejection too.
BelieveLateReply(s, r) ==
    /\ r.op = "acquire" /\ r \in replies /\ r.s = s /\ alive[s]
    /\ mine' = [mine EXCEPT ![s] = r.result]
    /\ pending' = [pending EXCEPT ![s] = IF @ = r.token THEN None ELSE @]
    /\ replies' = replies \ {r}
    /\ UNCHANGED <<key, expired, alive, active, issued, beating, scripts, breaks>>

\* The then and finally of the request.  After a cleanup, or once another
\* request is pending, a token it won goes back.
AcquireReply(s, r) ==
    /\ r.op = "acquire" /\ r \in replies /\ r.s = s /\ alive[s]
    /\ replies' = replies \ {r}
    /\ IF pending[s] = r.token
       THEN /\ pending' = [pending EXCEPT ![s] = None]
            /\ mine' = [mine EXCEPT ![s] = IF r.result = Failed THEN @ ELSE r.result]
            /\ UNCHANGED scripts
       ELSE /\ scripts' = IF r.result \in {None, Failed} THEN scripts
                          ELSE scripts \cup {Release(s, r.result)}
            /\ UNCHANGED <<mine, pending>>
    /\ UNCHANGED <<key, expired, alive, active, issued, beating, breaks>>

\* Faulty: the heartbeat keeps the lease of a namespace nobody uses.
HeartbeatForAll(s) ==
    /\ alive[s] /\ ~ beating[s] /\ mine[s] # None
    /\ beating' = [beating EXCEPT ![s] = TRUE]
    /\ scripts' = scripts \cup {Renew(s, mine[s], TRUE)}
    /\ UNCHANGED <<key, expired, alive, active, issued, mine, pending, replies, breaks>>

\* renewPersistentLeaders, up to its await.  Giving back the lease of a
\* namespace no longer in use also awaits its script; that the next beat
\* waits for it is not modelled.
Heartbeat(s) ==
    /\ alive[s] /\ ~ beating[s] /\ mine[s] # None
    /\ IF active[s]
       THEN /\ beating' = [beating EXCEPT ![s] = TRUE]
            /\ scripts' = scripts \cup {Renew(s, mine[s], TRUE)}
            /\ UNCHANGED mine
       ELSE /\ mine' = [mine EXCEPT ![s] = None]
            /\ scripts' = scripts \cup {Release(s, mine[s])}
            /\ UNCHANGED beating
    /\ UNCHANGED <<key, expired, alive, active, issued, pending, replies, breaks>>

\* Faulty: what the renewal found is not looked at.
RenewReplyIgnored(s, r) ==
    /\ r.op = "renew" /\ r \in replies /\ r.s = s /\ alive[s]
    /\ replies' = replies \ {r}
    /\ beating' = [beating EXCEPT ![s] = FALSE]
    /\ UNCHANGED <<key, expired, alive, active, issued, mine, pending, scripts, breaks>>

\* Only a renewal that found another token, while this is still the token
\* believed in, ends the belief.
RenewReply(s, r) ==
    /\ r.op = "renew" /\ r \in replies /\ r.s = s /\ alive[s]
    /\ replies' = replies \ {r}
    /\ beating' = [beating EXCEPT ![s] = FALSE]
    /\ mine' = [mine EXCEPT ![s] = IF r.result = None /\ @ = r.token THEN None ELSE @]
    /\ UNCHANGED <<key, expired, alive, active, issued, pending, scripts, breaks>>

\* cleanupNamespaceImpl, as far as it concerns the lease.
Cleanup(s) ==
    /\ alive[s] /\ active[s]
    /\ active' = [active EXCEPT ![s] = FALSE]
    /\ pending' = [pending EXCEPT ![s] = None]
    /\ mine' = [mine EXCEPT ![s] = None]
    /\ scripts' = IF mine[s] = None THEN scripts
                  ELSE scripts \cup {Release(s, mine[s])}
    /\ UNCHANGED <<key, expired, alive, issued, beating, replies, breaks>>

\* destroy, or the death of the process: the lease is left to expire.
Stop(s) ==
    /\ alive[s]
    /\ alive' = [alive EXCEPT ![s] = FALSE]
    /\ active' = [active EXCEPT ![s] = FALSE]
    /\ pending' = [pending EXCEPT ![s] = None]
    /\ mine' = [mine EXCEPT ![s] = None]
    /\ beating' = [beating EXCEPT ![s] = FALSE]
    /\ UNCHANGED <<key, expired, issued, scripts, replies, breaks>>

-----------------------------------------------------------------------------

Next ==
    \/ \E c \in scripts : Execute(c) \/ Disconnect(c) \/ Discard(c)
    \/ Expire
    \/ \E s \in Server :
         \/ Activate(s) \/ TryAcquire(s) \/ Heartbeat(s) \/ Cleanup(s) \/ Stop(s)
         \/ \E r \in replies : AcquireReply(s, r) \/ RenewReply(s, r)

Spec == Init /\ [][Next]_vars

\* Redis answers, the server's event loop runs, and its heartbeat is a timer
\* that always sets itself again (registerPersistentLeaderHeartbeat).
Fairness ==
    /\ \A s \in Server, op \in {"acquire", "renew", "release"} :
         WF_vars(\E c \in scripts : c.s = s /\ c.op = op /\ Execute(c))
    /\ \A s \in Server :
         /\ WF_vars(\E r \in replies : AcquireReply(s, r))
         /\ WF_vars(\E r \in replies : RenewReply(s, r))
         /\ WF_vars(Heartbeat(s))

FairSpec == Spec /\ Fairness

-----------------------------------------------------------------------------
(* Properties.                                                             *)

\* A server that believes it holds the lease does, unless the lease ran out:
\* no late release, renewal or reply of an earlier acquisition, of its own or
\* of another server's, takes it away (y-socket-io.js:968-969).
BeliefIsTrue ==
    WorkerDisabled => \A s \in Server :
        mine[s] # None => key = mine[s] \/ mine[s] \in expired

\* Until a connection breaks, a lease of a running server never drifts off: the
\* server believes in it, or is about to learn of it, or is giving it back.
\* A cleanup racing an acquisition leaves nothing behind
\* (y-socket-io.js:984-988).
LeaseIsAccountedFor ==
    breaks = 0 => \A s \in Server :
        alive[s] /\ key # None /\ key[1] = s =>
            \/ mine[s] = key
            \/ \E r \in replies : r.s = s /\ r.op = "acquire" /\ r.result = key
            \/ Release(s, key) \in scripts

\* A server that stops using the namespace gives the lease back, even one
\* that would never expire, unless the script is lost with a connection.
LeaseIsGivenBack ==
    \A s \in Server :
        [](breaks = 0) /\ <>[](alive[s] /\ ~ active[s])
            => <>[](key = None \/ key[1] # s)

\* A belief that has become false is found out by the heartbeat.
FalseBeliefEnds ==
    \A s \in Server :
        mine[s] # None /\ mine[s] # key ~> mine[s] = None \/ mine[s] = key
=============================================================================
