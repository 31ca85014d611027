------------------------------ MODULE Namespace ------------------------------
(***************************************************************************)
(* The life of one namespace on the socket servers that persist it         *)
(* (Y_WORKER_DISABLED): from the first connection, through the saves that  *)
(* what is read from the stream gives rise to, to the cleanup some time    *)
(* after the last socket has left.  Two timers and the save under way wait *)
(* for and replace one another; only the server that gets the lease saves, *)
(* and the others forget that they wanted to.                              *)
(*                                                                         *)
(* The lease is a key in Redis that may run out under a server that is     *)
(* slow, and that outlives the closing of the namespace until the script   *)
(* that deletes it has run.  A server learns what its request for the      *)
(* lease did from the reply, and may have lost it again by then.           *)
(*                                                                         *)
(* Updates are numbered in the order of the stream.  Taken as given: that  *)
(* a getDoc returns everything (RoomPersistence), so that storage holds a  *)
(* first part of the updates, and that tokens tell acquisitions apart      *)
(* (PersistentLeader).  Timers have no length here, but for one assumption:*)
(* a getDoc, or a request for the lease, takes less than the 30 s of the   *)
(* cleanup timer.                                                          *)
(***************************************************************************)
EXTENDS Integers, FiniteSets

CONSTANTS
    Server,       \* socket server processes
    None,         \* no lease, no document, no save
    MaxConnects,  \* bound: connections to the namespace, on all servers together
    MaxAppends,   \* bound: updates accepted
    MaxCalls,     \* bound: getDocs under way when one begins for a socket
    MaxFaults     \* bound: saves and requests that fail, stops, sockets turned away

ASSUME NamespaceAssumption ==
    /\ None \notin Server
    /\ MaxConnects \in Nat /\ MaxAppends \in Nat /\ MaxCalls \in Nat
    /\ MaxFaults \in Nat

VARIABLES
    appended,  \* updates 1 .. appended are accepted,
    stored,    \* 1 .. stored are in storage,
    lease,     \* persist-leader:<namespace> in Redis: whose token it is,
    left,      \* and whether that server has given it up, or died
    alive,     \* servers that run
    ns,        \* the namespace on each server
    faults,    \* how many there were
    connects,  \* how many connections there were
    excused    \* updates 1 .. excused may stay unsaved, see Becomes

vars == <<appended, stored, lease, left, alive, ns, faults, connects, excused>>

Update == 1 .. MaxAppends
Position == 0 .. MaxAppends

\* A getDoc: who awaits it, what it has read, and RedisDoc.changed.  One kind is
\* for messages, the other for a socket; that of a sync-step-1 that comes before
\* its connection's has returned is left out.
Call == [kind : {"message", "other"}, has : SUBSET Update, changed : BOOLEAN]

\* persistNamespace, by what it does next, with its snapshot.
Save == [pc : {"acquire", "write"}, snap : Position]

ASSUME NoneAssumption == None \notin Save /\ \A S \in SUBSET Update : S # None

\* tryAcquirePersistentLeader: no request is pending; the script is on its way;
\* or the reply is, that the lease is won (or renewed) or is another's.
Request == {"none", "sent", "won", "refused"}

\* A timer is unset, set, or has fired and awaits the save under way.
Timer == {"none", "set", "fired"}

Blank == [sockets    |-> 0,       \* nsp.sockets that were accepted
          open       |-> FALSE,   \* namespaceMap and the subscription
          seen       |-> 0,       \* position of the subscription
          doc        |-> None,    \* namespaceDocMap
          timer      |-> "none",  \* debouncedPersistMap
          save       |-> None,    \* awaitingPersistMap
          cleanup    |-> "none",  \* awaitingCleanupNamespace
          calls      |-> {},      \* getDocs under way
          ask        |-> "none",  \* pendingLeaderAcquisitions
          overlooked |-> FALSE]   \* ghost: a rejected socket was taken for a user

TypeOK ==
    /\ appended \in Position /\ stored \in 0 .. appended
    /\ lease \in Server \cup {None} /\ alive \in SUBSET Server
    /\ left \in BOOLEAN /\ (left => lease # None)
    /\ ns \in [Server ->
         [sockets : Nat, open : BOOLEAN, seen : Position,
          doc : (SUBSET Update) \cup {None}, timer : Timer,
          save : Save \cup {None}, cleanup : Timer, calls : SUBSET Call,
          ask : Request, overlooked : BOOLEAN]]
    /\ faults \in 0 .. MaxFaults /\ connects \in 0 .. MaxConnects
    /\ excused \in Position

Init ==
    /\ appended = 0 /\ stored = 0
    /\ lease = None /\ left = FALSE /\ alive = Server
    /\ ns = [s \in Server |-> Blank]
    /\ faults = 0 /\ connects = 0 /\ excused = 0

-----------------------------------------------------------------------------
(* What happens to a namespace, as operators on its record.                *)

GetDoc(kind) == [kind |-> kind, has |-> 1 .. appended,
                 changed |-> kind = "message" /\ stored < appended]

\* nsp.sockets.size is 0.  crowd: among them is one that toobusy turns away,
\* which stays there for 100 ms and which no handler hears leave.
Empty(r, crowd) == r.sockets = 0 /\ ~ crowd

\* debouncedPersist: a timer that is set is kept, unless this is urgent.
Debounced(r, immediate) ==
    IF r.timer = "none" \/ immediate THEN [r EXCEPT !.timer = "set"] ELSE r

\* cleanupNamespace: a timer that is set is kept, unless it is to be extended.
Armed(r, extend) ==
    [r EXCEPT !.cleanup = IF @ = "none" \/ extend THEN "set" ELSE @,
              !.overlooked = FALSE]

\* The end of redisMessageSubscriber.  due: MAX_PERSIST_INTERVAL is over.
Told(r, changed, due, crowd) ==
    IF changed \/ due \/ Empty(r, crowd)
    THEN Debounced(r, Empty(r, crowd))
    ELSE [r EXCEPT !.overlooked = @ \/ r.sockets = 0]

\* Faulty: the document stays.
ClosedWithDoc(r) ==
    [Blank EXCEPT !.sockets = r.sockets, !.save = r.save, !.calls = r.calls, !.doc = r.doc]

\* cleanupNamespaceImpl
Closed(r) ==
    [Blank EXCEPT !.sockets = r.sockets, !.save = r.save, !.calls = r.calls]

\* Faulty: gives up when a save is to come.
CleanupResumedOnce(r, failed, crowd) ==
    IF ~ failed /\ (~ Empty(r, crowd) \/ r.timer # "none")
    THEN [r EXCEPT !.cleanup = "none", !.overlooked = r.sockets = 0 /\ crowd]
    ELSE IF failed THEN [r EXCEPT !.cleanup = "set"]
    ELSE Closed(r)

\* Faulty: waits for the next save even if none is to come.
CleanupResumedIdle(r, failed, crowd) ==
    IF ~ failed /\ ~ Empty(r, crowd)
    THEN [r EXCEPT !.cleanup = "none", !.overlooked = r.sockets = 0]
    ELSE IF failed \/ r.doc # None THEN [r EXCEPT !.cleanup = "set"]
    ELSE Closed(r)

\* The rest of the cleanup timer's callback.
CleanupResumed(r, failed, crowd) ==
    IF ~ failed /\ ~ Empty(r, crowd)
    THEN [r EXCEPT !.cleanup = "none", !.overlooked = r.sockets = 0]
    ELSE IF failed \/ r.timer # "none" THEN [r EXCEPT !.cleanup = "set"]
    ELSE Closed(r)

\* A save that awaits the reply to the request for the lease.
Waiting(r) == r.save # None /\ r.save.pc = "acquire"

\* tryAcquirePersistentLeader: a request that is pending is shared.
Asking(r) == IF r.ask = "none" THEN [r EXCEPT !.ask = "sent"] ELSE r

SaveStarted(r) ==
    Asking([r EXCEPT !.timer = "none", !.save = [pc |-> "acquire", snap |-> 0]])

\* Faulty: a failed save is left at that.
SaveEndedForGood(r, failed, crowd) ==
    LET ended == [r EXCEPT !.save = None]
        next  == IF ended.cleanup = "fired" THEN CleanupResumed(ended, failed, crowd) ELSE ended
    IN  IF next.timer = "fired" THEN SaveStarted(next) ELSE next

\* persistNamespace settles, and in this order those go on who await it: its
\* own timer's callback, which sets another timer after a failure; the cleanup
\* timer's; and, one microtask later, that of the next persist timer.
SaveEnded(r, failed, crowd) ==
    LET ended == IF failed /\ r.doc # None
                 THEN Debounced([r EXCEPT !.save = None], FALSE)
                 ELSE [r EXCEPT !.save = None]
        next  == IF ended.cleanup = "fired" THEN CleanupResumed(ended, failed, crowd) ELSE ended
    IN  IF next.timer = "fired" THEN SaveStarted(next) ELSE next

\* The server that stands behind the lease: it knows its token, or is about to.
Holder == IF left THEN None ELSE lease

\* The namespace on s becomes r.  When it is closed, the lease is given back, by
\* a script that nobody awaits.  dropped: a save has been refused the lease.
\* Nobody need save what the holder, or the last, closes unread, nor what a
\* rejected socket keeps from being saved, nor what a server without sockets
\* drops for a lease that nobody stands behind.
Becomes(s, r, crowd, dropped) ==
    LET closing == ns[s].open /\ ~ r.open
        last    == \A t \in Server \ {s} : ~ ns[t].open
    IN  /\ ns' = [ns EXCEPT ![s] = r]
        /\ left' = (left \/ (closing /\ lease = s))
        /\ excused' = IF \/ closing /\ ns[s].seen < appended /\ (Holder = s \/ last)
                         \/ crowd /\ r.overlooked
                         \/ dropped /\ Holder = None /\ r.sockets = 0 /\ r.save = None
                      THEN appended ELSE excused
        /\ UNCHANGED lease

redisVars == <<appended, stored>>

leaseVars == <<lease, left>>

Fault == faults < MaxFaults /\ faults' = faults + 1 /\ UNCHANGED connects

boundVars == <<faults, connects>>

\* A socket that is turned away is one of the faults.
Counts(crowd) == IF crowd THEN Fault ELSE UNCHANGED boundVars

-----------------------------------------------------------------------------
(* Sockets.                                                                *)

\* The connection handler, up to its getDoc, or through with a cached document.
Connect(s) ==
    /\ s \in alive /\ connects < MaxConnects /\ connects' = connects + 1
    /\ \E n \in 0 .. stored :
         LET r == [ns[s] EXCEPT !.sockets = @ + 1, !.cleanup = "none",
                                !.overlooked = FALSE, !.open = TRUE,
                                !.seen = IF ns[s].open THEN @ ELSE n]
         IN  \/ /\ r.doc # None
                /\ ns' = [ns EXCEPT ![s] = Asking(r)]
             \/ /\ r.doc = None /\ Cardinality(r.calls) < MaxCalls
                /\ ns' = [ns EXCEPT ![s] = [r EXCEPT !.calls = @ \cup {GetDoc("other")}]]
    /\ UNCHANGED <<redisVars, leaseVars, alive, faults, excused>>

\* disconnect
Disconnect(s) ==
    /\ ns[s].sockets > 0
    /\ \E crowd \in BOOLEAN :
         LET r == [ns[s] EXCEPT !.sockets = @ - 1] IN
         /\ Counts(crowd)
         /\ Becomes(s, IF Empty(r, crowd)
                       THEN LET armed == Armed(r, FALSE)
                            IN  IF r.doc # None THEN Debounced(armed, TRUE) ELSE armed
                       ELSE [r EXCEPT !.overlooked = @ \/ r.sockets = 0], crowd, FALSE)
    /\ UNCHANGED <<redisVars, alive>>

\* A client of a server's namespace has an update appended.
Append(s) ==
    /\ ns[s].open /\ appended < MaxAppends
    /\ appended' = appended + 1
    /\ UNCHANGED <<stored, leaseVars, alive, ns, boundVars, excused>>

-----------------------------------------------------------------------------
(* What is read.                                                           *)

\* redisMessageSubscriber, up to its getDoc, or through with a cached document.
\* leads: isLeader, what persistentLeaderOf says.  An expiry, a reply that is late
\* and a renewal make that wrong in either direction, so it may say either.
Deliver(s) ==
    \E n \in ns[s].seen + 1 .. appended, due, crowd, leads \in BOOLEAN :
        /\ ns[s].open /\ Counts(crowd)
        /\ LET r == [ns[s] EXCEPT !.seen = n]
               heard == IF Empty(r, crowd) THEN Armed(r, leads) ELSE r
               batch == ns[s].seen + 1 .. n
           IN  Becomes(s, IF r.doc = None
                          THEN [heard EXCEPT !.calls = @ \cup {GetDoc("message")}]
                          ELSE [Told(heard, ~ (batch \subseteq r.doc), due, crowd)
                                  EXCEPT !.doc = @ \cup batch], crowd, FALSE)
        /\ UNCHANGED <<redisVars, alive>>

\* A getDoc resolves: the document is cached, over any other.
CallReturns(s) ==
    \E c \in ns[s].calls :
        LET r == [ns[s] EXCEPT !.calls = @ \ {c}, !.doc = c.has] IN
        /\ IF c.kind = "message"
           THEN \E due, crowd \in BOOLEAN :
                  Counts(crowd) /\ Becomes(s, Told(r, c.changed, due, crowd), crowd, FALSE)
           ELSE /\ \E asked \in BOOLEAN :
                     ns' = [ns EXCEPT ![s] = IF asked THEN Asking(r) ELSE r]
                /\ UNCHANGED <<leaseVars, boundVars, excused>>
        /\ UNCHANGED <<redisVars, alive>>

-----------------------------------------------------------------------------
(* Timers and saves.                                                       *)

\* The persist timer of debouncedPersist fires.
PersistTimer(s) ==
    /\ ns[s].timer = "set"
    /\ ns' = [ns EXCEPT ![s] = IF @.save = None THEN SaveStarted(@)
                               ELSE [@ EXCEPT !.timer = "fired"]]
    /\ UNCHANGED <<redisVars, leaseVars, alive, boundVars, excused>>

\* The cleanup timer of cleanupNamespace fires.
CleanupTimer(s) ==
    /\ ns[s].cleanup = "set" /\ ns[s].calls = {}
    /\ ns[s].ask = "none" \/ Waiting(ns[s])
    /\ \E crowd \in BOOLEAN :
         /\ Counts(crowd)
         /\ Becomes(s, IF ns[s].save # None THEN [ns[s] EXCEPT !.cleanup = "fired"]
                       ELSE CleanupResumed(ns[s], FALSE, crowd), crowd, FALSE)
    /\ UNCHANGED <<redisVars, alive>>

\* Faulty: one update too many is taken for saved.
StoredPast(n) == IF stored < n THEN n + 1 ELSE stored

StoredWith(n) == IF stored < n THEN n ELSE stored

\* persistDoc, of a snapshot taken some time after the request for the lease was
\* answered.
TakesEffect(save) == \E n \in save.snap .. appended : stored' = StoredWith(n)

\* persistDoc and the trim, which spares what is too young.
Write(s) ==
    /\ ns[s].save # None /\ ns[s].save.pc = "write"
    /\ TakesEffect(ns[s].save)
    /\ \E crowd \in BOOLEAN :
         Counts(crowd) /\ Becomes(s, SaveEnded(ns[s], FALSE, crowd), crowd, FALSE)
    /\ UNCHANGED <<appended, alive>>

\* Any of its calls rejects; if that was the trim, the document is saved.
SaveFails(s) ==
    /\ ns[s].save # None /\ ns[s].save.pc = "write" /\ Fault
    /\ \/ UNCHANGED stored
       \/ TakesEffect(ns[s].save)
    /\ Becomes(s, SaveEnded(ns[s], TRUE, FALSE), FALSE, FALSE)
    /\ UNCHANGED <<appended, alive>>

-----------------------------------------------------------------------------
(* The lease.                                                              *)

\* The script of tryAcquirePersistentLeader.
Execute(s) ==
    /\ ns[s].ask = "sent"
    /\ ns' = [ns EXCEPT ![s].ask = IF Holder = s \/ lease = None THEN "won" ELSE "refused"]
    /\ lease' = IF lease = None THEN s ELSE lease
    /\ UNCHANGED <<redisVars, left, alive, boundVars, excused>>

\* Its reply: a save that waits for it goes on, or is dropped.
Answered(s) ==
    /\ ns[s].ask \in {"won", "refused"}
    /\ LET won == ns[s].ask # "refused"
           r   == [ns[s] EXCEPT !.ask = "none"]
       IN  \/ /\ ~ Waiting(r)
              /\ Becomes(s, r, FALSE, FALSE) /\ UNCHANGED boundVars
           \/ /\ Waiting(r) /\ won
              /\ Becomes(s, [r EXCEPT !.save = [pc |-> "write", snap |-> appended]], FALSE, FALSE)
              /\ UNCHANGED boundVars
           \/ /\ Waiting(r) /\ ~ won
              /\ \E crowd \in BOOLEAN :
                   Counts(crowd) /\ Becomes(s, SaveEnded(r, FALSE, crowd), crowd, TRUE)
    /\ UNCHANGED <<redisVars, alive>>

\* The connection breaks under the request, or under its reply: the promise
\* rejects, and a token that it made, not renewed, is nobody's.
RequestFails(s) ==
    /\ ns[s].ask # "none" /\ Fault
    /\ LET r == [ns[s] EXCEPT !.ask = "none"]
       IN  ns' = [ns EXCEPT ![s] = IF Waiting(r) THEN SaveEnded(r, TRUE, FALSE) ELSE r]
    /\ \/ ns[s].ask = "sent" /\ lease = None /\ lease' = s /\ left' = TRUE /\ UNCHANGED excused
       \/ ns[s].ask = "won" /\ Holder = s /\ UNCHANGED lease /\ left' = TRUE /\ excused' = appended
       \/ UNCHANGED <<leaseVars, excused>>
    /\ UNCHANGED <<redisVars, alive>>

\* The key goes, by the script that a closing has sent, or as its time is over.
Release ==
    /\ left /\ lease' = None /\ left' = FALSE
    /\ UNCHANGED <<redisVars, alive, ns, boundVars, excused>>

\* The key's time is over before its holder has renewed it.  Whoever has dropped
\* a save for it does not learn of that: what is accepted so far is excused.
Expire ==
    /\ Holder # None
    /\ lease' = None /\ excused' = appended
    /\ UNCHANGED <<redisVars, left, alive, ns, boundVars>>

\* destroy, or the death of the process: its lease is left to run out, a save or
\* a request under way may take effect, and those who have dropped a save for
\* it do not learn of it.
Stop(s) ==
    /\ s \in alive /\ Fault
    /\ alive' = alive \ {s}
    /\ ns' = [ns EXCEPT ![s] = Blank]
    /\ \/ UNCHANGED stored
       \/ ns[s].save # None /\ ns[s].save.pc = "write" /\ TakesEffect(ns[s].save)
    /\ \/ UNCHANGED lease /\ left' = (left \/ lease = s)
       \/ ns[s].ask = "sent" /\ lease = None /\ lease' = s /\ left' = TRUE
    /\ excused' = appended
    /\ UNCHANGED appended

-----------------------------------------------------------------------------

Progress(s) ==
    \/ Deliver(s) \/ CallReturns(s)
    \/ PersistTimer(s) \/ CleanupTimer(s)
    \/ Execute(s) \/ Answered(s) \/ Write(s)

Next ==
    \/ \E s \in Server :
         \/ Connect(s) \/ Disconnect(s) \/ Append(s)
         \/ Progress(s) \/ SaveFails(s) \/ RequestFails(s) \/ Stop(s)
    \/ Release \/ Expire

Spec == Init /\ [][Next]_vars

\* Every server goes on: reads and requests are answered, timers fire and saves
\* settle.
Fairness == \A s \in Server : WF_vars(Progress(s))

FairSpec == Spec /\ Fairness

-----------------------------------------------------------------------------
(* Properties.                                                             *)

\* The server whose namespace is r has something before it that makes it save
\* update k.
Watches(r, k) ==
    /\ r.open
    /\ \/ r.seen < k
       \/ r.timer # "none"
       \/ r.save # None /\ (r.save.pc # "write" \/ k <= r.save.snap)
       \/ \E c \in r.calls : c.kind = "message" /\ c.changed /\ k \in c.has
       \/ r.sockets > 0 /\ r.doc # None

\* An update that is not saved yet is somebody's business: of the server that
\* stands behind the lease, so that the others may drop their saves
\* (y-socket-io.js:591), and as long as there is none, of every server that has
\* the namespace.  No cleanup, failed save, early getDoc, timer kept, shared
\* request or late reply takes that away.  What the code does not promise is
\* excused where it happens: see Becomes, RequestFails, Expire and Stop.
UnsavedIsWatched ==
    \A k \in Update :
        stored < k /\ k <= appended /\ excused < k =>
            /\ Holder # None => Watches(ns[Holder], k)
            /\ Holder = None => \A s \in Server : ns[s].open => Watches(ns[s], k)
            /\ \E s \in Server : ns[s].open

\* A namespace without users has a cleanup timer, wherever connections, messages
\* and timers cross, unless a socket that was turned away has been taken for
\* a user (y-socket-io.js:421, 806-808).
IdleIsCleanedUp ==
    \A s \in Server : ns[s].open /\ ns[s].sockets = 0 =>
        ns[s].cleanup # "none" \/ ns[s].overlooked

\* A namespace that is closed leaves nothing behind on its server, and if the
\* lease is still there, it is about to be deleted or to run out.
NothingLeftBehind ==
    \A s \in alive : ~ ns[s].open =>
        ns[s] = Blank /\ Holder # s

\* Once its users have left for good, the namespace is given up everywhere,
\* however often leases run out and are sought anew.
Deserted == \A s \in Server : ns[s].sockets = 0
DesertedIsClosed ==
    <>[]Deserted => <>[](\A s \in Server : ~ ns[s].open \/ ns[s].overlooked)
=============================================================================
