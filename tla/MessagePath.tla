----------------------------- MODULE MessagePath -----------------------------
(***************************************************************************)
(* What becomes of a message between the client that sends it and the      *)
(* clients it is for: it is encoded and appended to the room's stream      *)
(* (toRedis, addMessage), read there together with others and merged with  *)
(* them (getMessages, mergeMessages), decoded and emitted (fromRedis,      *)
(* redisMessageSubscriber).                                                *)
(*                                                                         *)
(* A document update is the set of changes it carries: Yjs merges updates  *)
(* as sets.  An awareness message carries, for some clients, a clock and   *)
(* whether the client is gone; which state a client shows is told by the   *)
(* clock.  An observer receives all that a server emits; what it should    *)
(* know is what it would know had each message been sent to it by itself.  *)
(***************************************************************************)
EXTENDS Integers, Sequences

CONSTANTS
    Change,     \* changes of the document
    Client,     \* clients as awareness knows them
    Phantom,    \* the client of the Awareness that mergeMessages makes
    Count,      \* XREAD's COUNT
    MaxLength,  \* bound: entries of the stream
    MaxClock    \* bound: awareness states of one client

ASSUME MessagePathAssumption ==
    /\ Phantom \notin Client
    /\ Count \in Nat \ {0} /\ MaxLength \in Nat /\ MaxClock \in Nat

VARIABLES
    stream,   \* the room's stream, nothing trimmed
    read,     \* how much of it the subscriber has read
    sent,     \* changes that clients have sent
    clock,    \* each client's own awareness clock
    doc,      \* what the observer has: changes of the document
    aware     \* and awareness

vars == <<stream, read, sent, clock, doc, aware>>

Message(type, payload) == [type |-> type, payload |-> payload]
State(c, n, gone) == [client |-> c, clock |-> n, gone |-> gone]

Peer == Client \cup {Phantom}
States == [client : Peer, clock : 0..MaxClock, gone : BOOLEAN]
Updates == [type : {"sync-update"}, payload : SUBSET Change]
Awareness == [type : {"awareness-update"}, payload : SUBSET States]

\* The stream holds no step 2: a reader would not know what to do with it.
TypeOK ==
    /\ stream \in Seq(Updates \cup Awareness)
    /\ read \in 0..Len(stream)
    /\ sent \in SUBSET Change
    /\ clock \in [Client -> 0..MaxClock]
    /\ doc \in SUBSET Change
    /\ aware \in [Peer -> [clock : 0..MaxClock, there : BOOLEAN]]

Nobody == [p \in Peer |-> [clock |-> 0, there |-> FALSE]]

Init ==
    /\ stream = <<>> /\ read = 0 /\ sent = {}
    /\ clock = [c \in Client |-> 0]
    /\ doc = {} /\ aware = Nobody

(***************************************************************************)
(* Awareness, as y-protocols has it.                                       *)
(***************************************************************************)

\* applyAwarenessUpdate takes a state with a higher clock, and a removal with
\* the clock of the state it removes.
Supersedes(s, known) ==
    \/ s.clock > known.clock
    \/ s.clock = known.clock /\ s.gone /\ known.there

ApplyAwareness(aw, states) ==
    [p \in Peer |->
        LET S == {s \in states : s.client = p /\ Supersedes(s, aw[p])}
        IN  IF S = {} THEN aw[p]
            ELSE LET s == CHOOSE s \in S : TRUE
                 IN  [clock |-> s.clock, there |-> ~s.gone]]

ApplyMessage(aw, m) ==
    IF m.type = "awareness-update" THEN ApplyAwareness(aw, m.payload) ELSE aw

\* One message after another.
ApplyMessages(aw, ms) ==
    LET known[i \in 0..Len(ms)] ==
          IF i = 0 THEN aw ELSE ApplyMessage(known[i - 1], ms[i])
    IN  known[Len(ms)]

\* encodeAwarenessUpdate for the clients that are there.
EncodeStates(aw) ==
    {State(p, aw[p].clock, FALSE) : p \in {q \in Peer : aw[q].there}}

\* A new Awareness has a state of its own, which getDoc takes care to remove
\* (api.js:252) and mergeMessages does not.
NewAwareness == [Nobody EXCEPT ![Phantom].there = TRUE]

(***************************************************************************)
(* From a client to the stream.                                            *)
(***************************************************************************)

\* Mutant: a step 2 appended as it is.
AppendAsItIs(m) == stream' = Append(stream, m)

\* toRedis and addMessage.  Step 2 of a synchronization is appended as an
\* update, which all the readers of the stream take it for.
AddMessage(m) ==
    stream' = Append(stream,
        IF m.type = "sync-step-2" THEN Message("sync-update", m.payload) ELSE m)

NotFull == Len(stream) < MaxLength

\* sync-update, or the client's answer to the server's sync-step-1, which may
\* repeat changes and may be empty.
SendUpdate ==
    /\ NotFull
    /\ \E type \in {"sync-step-2", "sync-update"}, S \in SUBSET Change :
          /\ type = "sync-update" => S # {}
          /\ AddMessage(Message(type, S))
          /\ sent' = sent \cup S
    /\ UNCHANGED <<read, clock, doc, aware>>

SendAwareness(states) ==
    /\ NotFull
    /\ AddMessage(Message("awareness-update", states))
    /\ UNCHANGED <<read, sent, doc, aware>>

\* A client changes its state, or leaves (client.js, beforeUnloadHandler).
Announce(c, gone) ==
    /\ clock[c] < MaxClock
    /\ clock' = [clock EXCEPT ![c] = @ + 1]
    /\ SendAwareness({State(c, clock[c] + 1, gone)})

\* awarenessUpdate (client.js:485-505) also sends on what a client has heard
\* of the others, be it late, and that it has timed another one out.
PassOn ==
    /\ \E i \in DOMAIN stream :
          /\ stream[i].type = "awareness-update"
          /\ \E s \in stream[i].payload :
                SendAwareness({s}) \/ SendAwareness({[s EXCEPT !.gone = TRUE]})
    /\ UNCHANGED clock

(***************************************************************************)
(* From the stream to the clients.                                         *)
(***************************************************************************)

IsUpdate(m) == m.type = "sync-update"
IsAwareness(m) == m.type = "awareness-update"

\* The changes of the updates among some messages.
Changes(ms) == UNION {ms[i].payload : i \in {j \in DOMAIN ms : IsUpdate(ms[j])}}

\* Mutant: the last awareness message of the batch stands for all of them.
LastAwareness(ms) ==
    LET A == {i \in DOMAIN ms : IsAwareness(ms[i])}
    IN  EncodeStates(
          IF A = {} THEN NewAwareness
          ELSE LET last == CHOOSE i \in A : \A j \in A : j <= i
               IN  ApplyAwareness(NewAwareness, ms[last].payload))

MergedStates(ms) == EncodeStates(ApplyMessages(NewAwareness, ms))

\* mergeMessages: one update and one awareness message for the whole batch.
\* A step 2 would be an unexpected case, which is logged and left out.
MergeMessages(ms) ==
    IF Len(ms) < 2 THEN ms
    ELSE LET states == MergedStates(ms)
         IN  (IF \A i \in DOMAIN ms : ~IsUpdate(ms[i]) THEN <<>>
              ELSE <<Message("sync-update", Changes(ms))>>) \o
             (IF states = {} THEN <<>> ELSE <<Message("awareness-update", states)>>)

\* fromRedis and the two loops of redisMessageSubscriber, and an observer that
\* receives what is emitted: the updates, and then the awareness.
Emit(ms) ==
    /\ doc' = doc \cup Changes(ms)
    /\ aware' = ApplyMessages(aware, ms)

\* getMessages, and the handler of what it returns.
Receive ==
    /\ read < Len(stream)
    /\ LET n == IF Len(stream) - read < Count THEN Len(stream) - read ELSE Count
       IN  /\ read' = read + n
           /\ Emit(MergeMessages(SubSeq(stream, read + 1, read + n)))
    /\ UNCHANGED <<stream, sent, clock>>

Next ==
    \/ SendUpdate
    \/ \E c \in Client, gone \in BOOLEAN : Announce(c, gone)
    \/ PassOn
    \/ Receive

Spec == Init /\ [][Next]_vars

(***************************************************************************)
(* Properties.                                                             *)
(***************************************************************************)

CaughtUp == read = Len(stream)

\* What an observer would know of the clients from the messages themselves.
Direct == ApplyMessages(Nobody, stream)

\* No change that a client sends is lost by encoding, merging or decoding,
\* whichever way it was sent (protocol.js:32-89, y-socket-io.js:489-497).
ChangesGetThrough == CaughtUp => doc = sent

\* The newest state of a client that is there gets through, however messages
\* are merged and repeated: "filter out older awareness messages"
\* (protocol.js:26-27) filters out no newer one.
PresenceGetsThrough ==
    CaughtUp => \A c \in Client : Direct[c].there => aware[c] = Direct[c]

\* And so does that it has left.
AbsenceGetsThrough ==
    CaughtUp => \A c \in Client : ~Direct[c].there => ~aware[c].there
=============================================================================
