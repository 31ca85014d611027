---------------------------- MODULE Subscription ----------------------------
(***************************************************************************)
(* How one socket server brings the clients of a namespace up to date and  *)
(* keeps them so: the subscriber loop reads the namespace's stream and     *)
(* hands what it reads to every connected socket, while the sockets'       *)
(* handlers answer sync-step-1 from getDoc, or, with Y_WORKER_DISABLED,    *)
(* from a document the server caches and keeps current with what it reads. *)
(*                                                                         *)
(* The handlers await Redis and storage, so a document may be cached, or   *)
(* compared with the subscription, long after it was read.                 *)
(*                                                                         *)
(* Entries are numbered in the order of their ids.  That a trimmed entry   *)
(* is in storage and a getDoc complete is RoomPersistence's result and     *)
(* taken as given here.  What is sent on a connection arrives on it.       *)
(***************************************************************************)
EXTENDS Integers, FiniteSets

CONSTANTS
    Socket,          \* sockets; a client that reconnects has another one
    None,            \* no subscription, no position, no read, no document
    Count,           \* XREAD's COUNT
    MaxHead,         \* bound: entries appended
    MaxCalls,        \* bound: calls of getDoc under way when a client asks
    MaxCachedCalls   \* the same where documents are cached

ASSUME SubscriptionAssumption ==
    /\ Count \in Nat \ {0} /\ MaxHead \in Nat
    /\ MaxCalls \in Nat /\ MaxCachedCalls \in Nat
    /\ None \notin Nat /\ None \notin Socket

VARIABLES
    workerDisabled,  \* Y_WORKER_DISABLED: the server caches the document
    head,      \* entries 1 .. head have been appended
    base,      \* of which 1 .. base have been saved and trimmed
    sub,       \* subs.get(stream); since: head when it was made
    asked,     \* position the loop's XREAD under way starts from
    reply,     \* entries it has been answered with
    cached,    \* namespaceDocMap.get(namespace)
    calls,     \* calls of getDoc under way, with what they have read
    cleaning,  \* whether awaitingCleanupNamespace has a timer
    conn,      \* sockets: "new", "loading" (handler awaits), "up", "gone"
    initial,   \* initialRedisSubId of each
    synced,    \* those whose sync-step-1 has been answered
    known,     \* the entries each client has the updates of
    greeted,   \* what the document of its connection handler held
    raised     \* whether a rewind has replaced one that went further back

redisVars == <<head, base>>
loopVars == <<asked, reply>>
clientVars == <<conn, initial, synced, known>>
ghostVars == <<greeted, raised>>
vars == <<workerDisabled, redisVars, sub, loopVars, cached, calls, cleaning, clientVars, ghostVars>>

\* A getDoc may outlast the timers; where documents are cached it is taken
\* not to.
SlowCalls == ~ workerDisabled

Entry == 1 .. MaxHead
Position == 0 .. MaxHead

\* What subs holds of a stream.
SubState == [id : Position, nextId : Position \cup {None}, since : Position]

\* What getDoc returns, as the entries it holds and redisLastId.
Doc == [has : SUBSET Entry, lastId : Position]
Call == [kind : {"connection", "step1", "message", "reload"},
         s : Socket \cup {None}, doc : Doc]

ASSUME NoneAssumption == None \notin SubState /\ None \notin Doc

TypeOK ==
    /\ workerDisabled \in BOOLEAN
    /\ head \in Position /\ base \in 0 .. head
    /\ sub \in SubState \cup {None}
    /\ asked \in Position \cup {None} /\ reply \in SUBSET Entry
    /\ cached \in Doc \cup {None}
    /\ calls \in SUBSET Call
    /\ cleaning \in BOOLEAN
    /\ conn \in [Socket -> {"new", "loading", "up", "gone"}]
    /\ initial \in [Socket -> Position]
    /\ synced \in SUBSET Socket
    /\ known \in [Socket -> SUBSET Entry]
    /\ greeted \in [Socket -> SUBSET Entry] /\ raised \in BOOLEAN

Init ==
    /\ workerDisabled \in BOOLEAN
    /\ head = 0 /\ base = 0
    /\ sub = None /\ asked = None /\ reply = {}
    /\ cached = None /\ calls = {} /\ cleaning = FALSE
    /\ conn = [s \in Socket |-> "new"]
    /\ initial = [s \in Socket |-> 0]
    /\ synced = {}
    /\ known = [s \in Socket |-> {}]
    /\ greeted = [s \in Socket |-> {}] /\ raised = FALSE

\* nsp.sockets
Connected == {s \in Socket : conn[s] \in {"loading", "up"}}

-----------------------------------------------------------------------------
(* Redis.                                                                  *)

\* A client of any server, this one included, appends.
Append ==
    /\ head < MaxHead
    /\ head' = head + 1
    /\ UNCHANGED <<base, sub, loopVars, cached, calls, cleaning, clientVars, ghostVars>>

\* Whoever persists the document trims what it has saved, but only entries
\* older than redisMinMessageLifetime.  No subscriber is as late as that, nor
\* a getDoc as slow, unless SlowCalls.
Trim ==
    /\ base' \in {n \in (base + 1) .. head :
          /\ sub # None => n <= sub.id \/ n <= sub.since
          /\ SlowCalls \/ \A c \in calls : n \in c.doc.has}
    /\ UNCHANGED <<head, sub, loopVars, cached, calls, cleaning, clientVars, ghostVars>>

-----------------------------------------------------------------------------
(* subscriber.js                                                           *)

\* Faulty: the position itself is set back, under the read under way.
EnsureSubIdAtOnce(subscribed, id) ==
    IF subscribed # None /\ id < subscribed.id
    THEN [subscribed EXCEPT !.id = id] ELSE subscribed

\* ensureSubId: the loop is to go back to id once it is done with a batch.
EnsureSubId(subscribed, id) ==
    IF subscribed # None /\ id < subscribed.id
    THEN [subscribed EXCEPT !.nextId = id] ELSE subscribed

\* subscribe: an existing subscription is joined.
Subscribed == IF sub = None THEN [id |-> 0, nextId |-> None, since |-> head] ELSE sub

\* The loop reads all streams subscribed to; one that is subscribed to
\* meanwhile is in its next read.
Ask ==
    /\ sub # None /\ asked = None /\ reply = {}
    /\ asked' = sub.id
    /\ UNCHANGED <<redisVars, sub, reply, cached, calls, cleaning, clientVars, ghostVars>>

\* The COUNT least of some entries.
FirstOf(ids) == {n \in ids : Cardinality({m \in ids : m < n}) < Count}

\* XREAD, executed some time before its answer is looked at.
Answer ==
    /\ asked # None
    /\ reply' = FirstOf({n \in base + 1 .. head : asked < n})
    /\ reply' # {}
    /\ asked' = None
    /\ UNCHANGED <<redisVars, sub, cached, calls, cleaning, clientVars, ghostVars>>

\* BLOCK runs out, other streams answer, or the read fails.
NoAnswer ==
    /\ asked # None
    /\ asked' = None
    /\ UNCHANGED <<redisVars, sub, reply, cached, calls, cleaning, clientVars, ghostVars>>

\* Faulty: the position goes to the end of the stream, not of the batch.
PositionAtHead ==
    IF sub.nextId = None THEN head ELSE sub.nextId

\* Where the subscription stands after a batch: at its last entry, or back
\* where ensureSubId wanted it.
PositionAfterBatch ==
    IF sub.nextId = None THEN CHOOSE n \in reply : \A m \in reply : m <= n
                         ELSE sub.nextId

\* Faulty: an empty stream has no last id.
GetDocNoDefault == [has |-> 1 .. head, lastId |-> IF base = head THEN None ELSE head]

\* Everything, and the last id of the stream, "0" of an empty one.
GetDoc == [has |-> 1 .. head, lastId |-> IF base = head THEN 0 ELSE head]
MessageCall == [kind |-> "message", s |-> None, doc |-> GetDoc]

\* The rest of the loop's body and redisMessageSubscriber, as far as it runs
\* without an await.  A batch for a stream no longer subscribed to is dropped.
Deliver ==
    /\ reply # {}
    /\ reply' = {}
    /\ IF sub = None THEN UNCHANGED <<sub, cached, calls, cleaning, known>>
       ELSE
         /\ sub' = [sub EXCEPT !.id = PositionAfterBatch, !.nextId = None]
         /\ cleaning' = (cleaning \/ Connected = {})
         /\ known' = [s \in Socket |-> IF s \in Connected THEN known[s] \cup reply
                                                         ELSE known[s]]
         /\ IF ~ workerDisabled THEN UNCHANGED <<cached, calls>>
            ELSE IF cached = None
            THEN calls' = calls \cup {MessageCall} /\ UNCHANGED cached
            ELSE cached' = [cached EXCEPT !.has = @ \cup reply] /\ UNCHANGED calls
    /\ UNCHANGED <<redisVars, asked, conn, initial, synced, ghostVars>>

-----------------------------------------------------------------------------
(* The handlers of a socket.                                               *)

MayCall ==
    Cardinality(calls) < IF workerDisabled THEN MaxCachedCalls ELSE MaxCalls

CallOf(kind, s) == [kind |-> kind, s |-> s, doc |-> GetDoc]

\* The connection handler once it has a document: if the subscription that
\* it joined had passed what the document holds, it is to go back.
CatchUp(subscribed, doc, joinedAt) ==
    IF doc.lastId < joinedAt THEN EnsureSubId(subscribed, doc.lastId) ELSE subscribed

\* A rewind that is pending gives way to a shorter one.
Raises(before, after) ==
    /\ before # None /\ before.nextId # None
    /\ after.nextId # None /\ before.nextId < after.nextId

\* The connection handler; a cached document needs no await.
Connect(s) ==
    /\ conn[s] = "new"
    /\ cleaning' = FALSE
    /\ initial' = [initial EXCEPT ![s] = Subscribed.id]
    /\ IF cached # None
       THEN /\ sub' = CatchUp(Subscribed, cached, Subscribed.id)
            /\ conn' = [conn EXCEPT ![s] = "up"]
            /\ greeted' = [greeted EXCEPT ![s] = cached.has]
            /\ raised' = (raised \/ Raises(sub, sub'))
            /\ UNCHANGED calls
       ELSE /\ sub' = Subscribed
            /\ conn' = [conn EXCEPT ![s] = "loading"]
            /\ calls' = calls \cup {CallOf("connection", s)}
            /\ UNCHANGED ghostVars
    /\ UNCHANGED <<redisVars, loopVars, cached, synced, known>>

\* sync-step-1 from the client, answered at once from the cache.
SyncStep1(s) ==
    /\ s \in Connected
    /\ IF cached # None
       THEN /\ known' = [known EXCEPT ![s] = @ \cup cached.has]
            /\ synced' = synced \cup {s}
            /\ UNCHANGED calls
       ELSE /\ MayCall
            /\ calls' = calls \cup {CallOf("step1", s)}
            /\ UNCHANGED <<known, synced>>
    /\ UNCHANGED <<redisVars, sub, loopVars, cached, cleaning, conn, initial, ghostVars>>

\* A reload sent to the clients.
Reload(s) ==
    /\ workerDisabled
    /\ s \in Connected
    /\ MayCall
    /\ calls' = calls \cup {CallOf("reload", s)}
    /\ UNCHANGED <<redisVars, sub, loopVars, cached, cleaning, clientVars, ghostVars>>

\* A getDoc resolves, for whoever awaits it, and is cached whatever has
\* happened since.
Returned(c) ==
    /\ calls' = calls \ {c}
    /\ cached' = IF workerDisabled THEN c.doc ELSE cached
    /\ UNCHANGED <<redisVars, loopVars, cleaning, initial>>

GetDocReturns(c) ==
    /\ Returned(c)
    /\ CASE c.kind = "connection" ->
              /\ sub' = CatchUp(sub, c.doc, initial[c.s])
              /\ conn' = [conn EXCEPT ![c.s] = IF @ = "gone" THEN @ ELSE "up"]
              /\ greeted' = [greeted EXCEPT ![c.s] = c.doc.has]
              /\ raised' = (raised \/ Raises(sub, sub'))
              /\ UNCHANGED <<synced, known>>
         [] c.kind = "step1" /\ c.s \in Connected ->
              /\ known' = [known EXCEPT ![c.s] = @ \cup c.doc.has]
              /\ synced' = synced \cup {c.s}
              /\ UNCHANGED <<sub, conn, ghostVars>>
         [] OTHER -> UNCHANGED <<sub, conn, synced, known, ghostVars>>

\* disconnect: the last socket to go starts the cleanup timer.
Disconnect(s) ==
    /\ s \in Connected
    /\ conn' = [conn EXCEPT ![s] = "gone"]
    /\ synced' = synced \ {s}
    /\ known' = [known EXCEPT ![s] = {}]
    /\ cleaning' = (cleaning \/ Connected = {s})
    /\ UNCHANGED <<redisVars, sub, loopVars, cached, calls, initial, ghostVars>>

\* The timer of cleanupNamespace, which a connection would have cleared:
\* the namespace is unsubscribed and forgotten.  It runs DEFAULT_CLEAR_TIMEOUT,
\* longer than calls usually take.  Nothing waits for them.
Cleanup ==
    /\ cleaning /\ Connected = {}
    /\ SlowCalls \/ calls = {}
    /\ sub' = None
    /\ cached' = None
    /\ cleaning' = FALSE
    /\ UNCHANGED <<redisVars, loopVars, calls, clientVars, ghostVars>>

-----------------------------------------------------------------------------

Step ==
    \/ Append \/ Trim
    \/ Ask \/ Answer \/ NoAnswer \/ Deliver
    \/ \E s \in Socket : Connect(s) \/ SyncStep1(s) \/ Reload(s) \/ Disconnect(s)
    \/ \E c \in calls : GetDocReturns(c)
    \/ Cleanup

Configured == UNCHANGED workerDisabled

Next == Step /\ Configured

Spec == Init /\ [][Next]_vars

\* The loop runs on, and a read is not for ever without an answer when there
\* is one.
Fairness ==
    /\ WF_vars(Ask /\ Configured) /\ SF_vars(Answer /\ Configured)
    /\ WF_vars(Deliver /\ Configured)

FairSpec == Spec /\ Fairness

-----------------------------------------------------------------------------
(* Properties.                                                             *)

\* Entries that the loop has yet to hand to the connected sockets.
Upcoming(n) ==
    /\ sub # None
    /\ \/ n \in reply
       \/ base < n /\ n > sub.id
       \/ base < n /\ sub.nextId # None /\ n > sub.nextId

\* "Make sure that we catch the latest content" (y-socket-io.js:309): a
\* client whose connection is set up and whose sync-step-1 has been answered
\* has every update that was appended, or will be sent it, wherever the
\* subscription stood when it joined and whatever was read in which order.
NothingMissed ==
    \A s \in synced : conn[s] = "up" =>
        \A n \in 1 .. head : n \in known[s] \/ Upcoming(n)

\* So it is where documents are not cached.
NothingMissedUncached == ~ workerDisabled => NothingMissed

\* What the connection handler sees to, whichever document it got: of what
\* the stream still holds, the client knows or will be sent all that this
\* document lacks.  There is one exception: ensureSubId keeps the latest
\* position it was given, which need not be the least (subscriber.js:61-62).
HandlerCatchesUp ==
    ~ raised => \A s \in Socket : conn[s] = "up" =>
        \A n \in (base + 1) .. head : n \in known[s] \cup greeted[s] \/ Upcoming(n)

\* And where nothing is missed it gets it, as long as it stays.
EverythingArrives ==
    \A s \in Socket, n \in Entry :
        ~ workerDisabled /\ s \in synced /\ n <= head ~> n \in known[s] \/ conn[s] = "gone"
=============================================================================
