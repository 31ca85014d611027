------------------------------- MODULE Provider -------------------------------
(***************************************************************************)
(* SocketIOProvider, the client of a document (client.js): how a change    *)
(* gets from the document to the server's stream.  Each change is emitted  *)
(* and emitted again until it is acknowledged; after too many timeouts the *)
(* provider reconnects instead, and leaves the change to the handshake,    *)
(* with which the server asks for all it does not have.  Providers of one  *)
(* browser also tell one another over a broadcast channel, and what is     *)
(* learnt from there is not sent on.                                       *)
(*                                                                         *)
(* An update is the set of changes it carries.  The server is known by     *)
(* what its stream has accepted: it appends and acknowledges, or fails and *)
(* does not, and clients that are connected get all that is accepted       *)
(* (Subscription).  socket.io keeps what is emitted while the connection   *)
(* is down and loses, when it breaks, what is under way.                   *)
(***************************************************************************)
EXTENDS Integers, FiniteSets

CONSTANTS
    Client,    \* providers of one browser, for one room
    Change,    \* changes that users make
    Patience,  \* retries (3) after which onUpdateDoc reconnects
    MaxFaults  \* bound: broken connections, failed appends, late answers

ASSUME ProviderAssumption ==
    /\ IsFiniteSet(Client) /\ IsFiniteSet(Change)
    /\ Patience \in Nat /\ MaxFaults \in Nat

VARIABLES
    made,      \* changes that were made
    accepted,  \* changes in the stream
    tab,       \* the providers
    stray,     \* ghost: changes that nobody is about to send, see Becomes
    faults     \* how many there were

vars == <<made, accepted, tab, stray, faults>>

\* awaited: a sync-update whose ack counts; late: one that was given up, to be
\* retried or not; step2: the answer to the server's sync-step-1.
Message == [kind : {"awaited", "late", "step2"}, changes : SUBSET Change]

Awaited(u) == [kind |-> "awaited", changes |-> {u}]
Late(u) == [kind |-> "late", changes |-> {u}]

TypeOK ==
    /\ made \in SUBSET Change /\ accepted \in SUBSET made /\ stray \in SUBSET made
    /\ faults \in 0 .. MaxFaults
    /\ tab \in [Client ->
         [mode    : {"off", "connecting", "up", "gone"},  \* socket.connected
          synced  : BOOLEAN,
          doc     : SUBSET made,
          waiting : SUBSET Change,   \* calls of onUpdateDoc that await an ack
          retries : 0 .. Patience + Cardinality(Change),  \* _updateRetries
          out     : SUBSET Message,  \* emitted, not yet received
          acks    : SUBSET Change,   \* acks that count, not yet received
          bc      : BOOLEAN,         \* bcconnected
          heard   : SUBSET made]]    \* published, not yet received

Init ==
    /\ made = {} /\ accepted = {} /\ stray = {} /\ faults = 0
    /\ tab = [c \in Client |->
         [mode |-> "off", synced |-> FALSE, doc |-> {}, waiting |-> {}, retries |-> 0,
          out |-> {}, acks |-> {}, bc |-> FALSE, heard |-> {}]]

-----------------------------------------------------------------------------
(* What a provider does, as operators on all of them.                      *)

\* bc.publish of changes, as an update or as step 2.
Publish(t, c, S) ==
    [d \in Client |-> IF d # c /\ t[d].bc
                      THEN [t[d] EXCEPT !.heard = @ \cup (S \ t[d].doc)] ELSE t[d]]

\* connectBc: step 1, which the others answer, and step 2.
ConnectBc(t, c) ==
    LET told == UNION {t[d].doc : d \in {e \in Client \ {c} : t[e].bc}} IN
    Publish([t EXCEPT ![c].bc = TRUE, ![c].heard = @ \cup (told \ t[c].doc)], c, t[c].doc)

\* connect
Connecting(t, c) ==
    IF t[c].mode = "up" THEN t
    ELSE ConnectBc([t EXCEPT ![c].mode = "connecting", ![c].synced = FALSE], c)

\* The socket's disconnect event, whatever is under way being lost.
Broken(r, mode) ==
    [r EXCEPT !.mode = mode, !.synced = FALSE, !.out = {}, !.acks = {}]

\* disconnect, with disconnectBc
Disconnecting(t, c) ==
    IF t[c].mode = "up"
    THEN [t EXCEPT ![c] = [Broken(@, "off") EXCEPT !.bc = FALSE, !.heard = {}]]
    ELSE t

\* Faulty: the change is left to a handshake that does not come.
GiveUpQuietly(t, c) == [t EXCEPT ![c].retries = 0]

GiveUp(t, c) == Connecting(Disconnecting([t EXCEPT ![c].retries = 0], c), c)

\* Faulty: there is no end to it.
EmittedForEver(t, c, u) ==
    [t EXCEPT ![c].waiting = @ \cup {u}, ![c].out = @ \cup {Awaited(u)}]

\* onUpdateDoc, up to the ack, for a change of one's own.
Emitted(t, c, u) ==
    IF t[c].retries > Patience
    THEN GiveUp([t EXCEPT ![c].waiting = @ \ {u}], c)
    ELSE [t EXCEPT ![c].waiting = @ \cup {u},
                   ![c].out = @ \cup {Awaited(u)}]

\* applyUpdate, and onUpdateDoc for what does not come from the document's user.
Applied(t, c, S) ==
    LET next == [t EXCEPT ![c].doc = @ \cup S, ![c].heard = @ \ S] IN
    IF S \subseteq t[c].doc \/ t[c].retries <= Patience THEN next ELSE GiveUp(next, c)

\* The provider will send u: in a handshake to come, or as it is doing.
Owes(r, u) ==
    /\ r.mode # "gone" /\ u \in r.doc
    /\ \/ ~ r.synced
       \/ u \in r.waiting
       \/ \E m \in r.out : u \in m.changes

\* The providers become t.  Changes go astray that are lost, until one owes them.
Becomes(t, lost) ==
    /\ tab' = t
    /\ stray' = {u \in stray \cup lost : \A c \in Client : ~ Owes(t[c], u)}

Fault == faults < MaxFaults /\ faults' = faults + 1

-----------------------------------------------------------------------------
(* The user.                                                               *)

Edit(c, u) ==
    /\ tab[c].mode # "gone" /\ u \notin made
    /\ made' = made \cup {u}
    /\ Becomes(Emitted([tab EXCEPT ![c].doc = @ \cup {u}], c, u), {})
    /\ UNCHANGED <<accepted, faults>>

Connect(c) ==
    /\ tab[c].mode = "off"
    /\ Becomes(Connecting(tab, c), {})
    /\ UNCHANGED <<made, accepted, faults>>

Disconnect(c) ==
    /\ tab[c].mode = "up"
    /\ Becomes(Disconnecting(tab, c), {})
    /\ UNCHANGED <<made, accepted, faults>>

\* destroy, or the page is closed: what others have heard stays with them.
Destroy(c) ==
    /\ tab[c].mode # "gone"
    /\ Becomes([tab EXCEPT ![c] = [Broken(@, "gone") EXCEPT !.waiting = {}, !.bc = FALSE,
                                                            !.heard = {}]],
               tab[c].doc \ accepted)
    /\ UNCHANGED <<made, accepted, faults>>

-----------------------------------------------------------------------------
(* The connection and the server.                                          *)

\* onSocketConnection; the buffer is flushed.
Open(c) ==
    /\ tab[c].mode = "connecting"
    /\ Becomes([tab EXCEPT ![c].mode = "up"], {})
    /\ UNCHANGED <<made, accepted, faults>>

\* The connection breaks, or the server turns the client away.
Break(c) ==
    /\ tab[c].mode = "up" /\ Fault
    /\ Becomes([tab EXCEPT ![c] = Broken(@, "connecting")], {})
    /\ UNCHANGED <<made, accepted>>

\* sync-step-1 from the server
Answer(c) ==
    /\ tab[c].mode = "up" /\ ~ tab[c].synced
    /\ LET missing == tab[c].doc \ accepted IN
       Becomes([tab EXCEPT ![c].synced = TRUE,
                           ![c].out = @ \cup {[kind |-> "step2", changes |-> missing]}], {})
    /\ UNCHANGED <<made, accepted, faults>>

\* The server's handlers of sync-update and of the answer: they append.
Append(c) ==
    /\ tab[c].mode = "up"
    /\ \E m \in tab[c].out :
         /\ accepted' = accepted \cup m.changes
         /\ Becomes([tab EXCEPT ![c].out = @ \ {m},
                                ![c].acks = IF m.kind = "awaited" THEN @ \cup m.changes ELSE @], {})
    /\ UNCHANGED <<made, faults>>

\* The append fails.  A sync-update stays unacknowledged; if nobody awaits that,
\* or it is the answer to a sync-step-1, the error is logged, and that is all.
AppendFails(c) ==
    /\ tab[c].mode = "up" /\ Fault
    /\ \E m \in tab[c].out :
         Becomes([tab EXCEPT ![c].out = @ \ {m}],
                 IF m.kind = "awaited" THEN {} ELSE m.changes \ accepted)
    /\ UNCHANGED <<made, accepted>>

\* sync-update from the server, or its answer to sync-step-1
Learn(c) ==
    /\ tab[c].mode = "up" /\ ~ (accepted \subseteq tab[c].doc)
    /\ Becomes(Applied(tab, c, accepted), {})
    /\ UNCHANGED <<made, accepted, faults>>

\* onBroadcastChannelMessage
Hear(c) ==
    /\ tab[c].heard # {}
    /\ Becomes(Applied(tab, c, tab[c].heard), {})
    /\ UNCHANGED <<made, accepted, faults>>

-----------------------------------------------------------------------------
(* The rest of onUpdateDoc.                                                *)

\* The ack comes in time.
Acked(c) ==
    \E u \in tab[c].acks :
        LET t == [tab EXCEPT ![c].acks = @ \ {u}, ![c].waiting = @ \ {u}, ![c].retries = 0]
        IN  /\ Becomes(IF t[c].bc THEN Publish(t, c, {u}) ELSE t, {})
            /\ UNCHANGED <<made, accepted, faults>>

\* Faulty: there is no timeout.
NeverExpires(t, c, u) == t

\* The race is lost: again, if there is a connection.
Expires(t, c, u) ==
    LET next == [t EXCEPT ![c].retries = @ + 1] IN
    IF t[c].mode = "up" THEN Emitted(next, c, u)
    ELSE [next EXCEPT ![c].waiting = @ \ {u}]

\* Three seconds are over: for want of a connection or of an answer, or else
\* that is a fault.
Timeout(c) ==
    \E u \in tab[c].waiting :
        /\ IF tab[c].mode = "up" /\ (Awaited(u) \in tab[c].out \/ u \in tab[c].acks)
           THEN Fault ELSE UNCHANGED faults
        /\ LET t == [tab EXCEPT
                       ![c].acks = @ \ {u},
                       ![c].out = IF Awaited(u) \in @ THEN (@ \ {Awaited(u)}) \cup {Late(u)} ELSE @]
           IN  Becomes(Expires(t, c, u), {})
        /\ UNCHANGED <<made, accepted>>

-----------------------------------------------------------------------------

Progress(c) ==
    \/ Open(c) \/ Answer(c) \/ Append(c) \/ Learn(c) \/ Hear(c)
    \/ Acked(c) \/ Timeout(c)

Next ==
    \E c \in Client :
        \/ \E u \in Change : Edit(c, u)
        \/ Connect(c) \/ Disconnect(c) \/ Destroy(c)
        \/ Break(c) \/ AppendFails(c)
        \/ Progress(c)

Spec == Init /\ [][Next]_vars

\* A provider that wants to connect gets to, messages arrive, timers fire.
Fairness == \A c \in Client : WF_vars(Progress(c))

FairSpec == Spec /\ Fairness

-----------------------------------------------------------------------------
(* Properties.                                                             *)

Held == UNION {tab[c].doc : c \in {d \in Client : tab[d].mode # "gone"}}

\* Whatever a provider still has and the server has not, a provider is going
\* to send: retries, their end, reconnects and the buffer lose sight of no
\* change (client.js:434-457).  A change goes astray only in two ways, both
\* mended by a reconnect: an append fails that nobody awaits, of an answer or of
\* a sync-update given up (y-socket-io.js:455, 371), or the one that was sending
\* it is gone and others have it from the broadcast channel (client.js:612).
NothingForgotten ==
    Held \subseteq accepted \cup stray \cup {u \in Change : \E c \in Client : Owes(tab[c], u)}

\* Once the providers stay connected or are gone, it is accepted, and all
\* have it.
OnLine == \A c \in Client : tab[c].mode # "off"
Converged ==
    /\ Held \subseteq accepted \cup stray
    /\ \A c \in Client : tab[c].mode = "gone" \/ accepted \subseteq tab[c].doc
EventuallyConverges == <>[]OnLine => <>[]Converged
=============================================================================
