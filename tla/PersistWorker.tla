---------------------------- MODULE PersistWorker ----------------------------
(***************************************************************************)
(* The worker thread that saves documents for a socket server: requests by *)
(* id, the thread's answers, its health check and its replacement          *)
(* (y-socket-io.js; persist-worker-thread.js runs in the thread).          *)
(*                                                                         *)
(* Messages between the server and a thread are sets: no order is assumed  *)
(* between them, except that the thread's exit comes after all it posted.  *)
(* A step of the server is what its event loop does without an await.      *)
(***************************************************************************)
EXTENDS Integers, FiniteSets

CONSTANTS
    Room,         \* documents
    Request,      \* requestId: one random UUID for each save
    MaxThreads,   \* bound: threads created; the last one stays healthy
    MaxStumbles   \* bound: how often a thread's event loop is blocked

ASSUME MaxThreadsAssumption == MaxThreads \in Nat \ {0}
ASSUME MaxStumblesAssumption == MaxStumbles \in Nat

VARIABLES
    current,    \* persistWorker
    ready,      \* workerReady
    beat,       \* workerLastHeartbeat: none, recent, or two intervals ago
    check,      \* where the health check is: its timer, ping or terminate
    requests,   \* workerPersistRequests
    destroyed,
    outcome,    \* what became of each request's promise
    status,     \* each thread
    doomed,     \* threads that terminate() was called for
    errors,     \* threads whose error event is still to come
    inbox,      \* messages to each thread
    outbox,     \* and from it
    saving,     \* requests whose persistDoc each thread awaits
    stored,     \* requests whose state is in storage
    stumbles    \* how often a thread has been blocked

serverVars == <<current, ready, beat, check, requests, destroyed, outcome>>
threadVars == <<status, errors, saving, stored, stumbles>>
vars == <<serverVars, threadVars, doomed, inbox, outbox>>

Thread == 1..MaxThreads
Entry == [id : Request, room : Room, worker : Thread]
Ping == [event |-> "ping"]
Save(r, room) == [event |-> "persist", id |-> r, room |-> room]
Word(event) == [event |-> event]
Answer(event, m) == [event |-> event, id |-> m.id, room |-> m.room]

Persists == [event : {"persist"}, id : Request, room : Room]
ToThread == {Ping} \cup Persists
FromThread == [event : {"ready", "pong"}] \cup
              [event : {"persisted", "persist-error"}, id : Request, room : Room]

Alive == {"starting", "running", "stuck"}

\* An entry is there exactly as long as its promise is unsettled (614-629).
TypeOK ==
    /\ current \in Thread
    /\ ready \in BOOLEAN /\ destroyed \in BOOLEAN
    /\ beat \in {"none", "recent", "old"}
    /\ check \in {"timer", "ping", "terminate"}
    /\ requests \in SUBSET Entry
    /\ outcome \in [Request -> {"none", "pending", "resolved", "rejected"}]
    /\ \A r \in Request :
          outcome[r] = "pending" <=> \E q \in requests : q.id = r
    /\ status \in [Thread -> Alive \cup {"absent", "dead", "gone"}]
    /\ doomed \in SUBSET Thread /\ errors \in SUBSET Thread
    /\ inbox \in [Thread -> SUBSET ToThread]
    /\ outbox \in [Thread -> SUBSET FromThread]
    /\ saving \in [Thread -> SUBSET Persists]
    /\ stored \in SUBSET Request
    /\ stumbles \in 0..MaxStumbles

\* initialize (232-237): the first thread is created, the check's timer set.
Init ==
    /\ current = 1 /\ ready = FALSE /\ beat = "none" /\ check = "timer"
    /\ requests = {} /\ destroyed = FALSE
    /\ outcome = [r \in Request |-> "none"]
    /\ status = [g \in Thread |-> IF g = 1 THEN "starting" ELSE "absent"]
    /\ doomed = {} /\ errors = {}
    /\ inbox = [g \in Thread |-> {}]
    /\ outbox = [g \in Thread |-> {}]
    /\ saving = [g \in Thread |-> {}]
    /\ stored = {} /\ stumbles = 0

(***************************************************************************)
(* The thread.                                                             *)
(***************************************************************************)

\* What is posted to a thread that has ended is dropped.
Post(g, m) ==
    inbox' = IF status[g] \in Alive THEN [inbox EXCEPT ![g] = @ \cup {m}]
                                    ELSE inbox

PostBack(g, m) == outbox' = [outbox EXCEPT ![g] = @ \cup {m}]

Start(g) ==
    /\ status[g] = "starting"
    /\ status' = [status EXCEPT ![g] = "running"]
    /\ PostBack(g, Word("ready"))
    /\ UNCHANGED <<serverVars, doomed, errors, inbox, saving, stored, stumbles>>

\* persist runs up to its await of persistDoc; a ping is answered at once,
\* whatever else the thread awaits.
Receive(g, m) ==
    /\ status[g] = "running"
    /\ m \in inbox[g]
    /\ inbox' = [inbox EXCEPT ![g] = @ \ {m}]
    /\ IF m = Ping
       THEN PostBack(g, Word("pong")) /\ UNCHANGED saving
       ELSE saving' = [saving EXCEPT ![g] = @ \cup {m}] /\ UNCHANGED outbox
    /\ UNCHANGED <<serverVars, status, doomed, errors, stored, stumbles>>

\* The storage commits; the thread learns of it later.  A write that is under
\* way when its thread ends may still commit.
Commit(g) ==
    /\ \E m \in saving[g] : m.id \notin stored /\ stored' = stored \cup {m.id}
    /\ UNCHANGED <<serverVars, status, doomed, errors, inbox, outbox, saving,
                   stumbles>>

\* persistDoc has settled: after a commit it may still have failed for the
\* thread, when the storage's answer is lost.
PersistEnds(g) ==
    /\ status[g] = "running"
    /\ \E m \in saving[g], event \in {"persisted", "persist-error"} :
          /\ event = "persisted" => m.id \in stored
          /\ saving' = [saving EXCEPT ![g] = @ \ {m}]
          /\ PostBack(g, Answer(event, m))
    /\ UNCHANGED <<serverVars, status, doomed, errors, inbox, stored, stumbles>>

Block(g) ==
    /\ status[g] = "running" /\ g < MaxThreads
    /\ stumbles < MaxStumbles
    /\ stumbles' = stumbles + 1
    /\ status' = [status EXCEPT ![g] = "stuck"]
    /\ UNCHANGED <<serverVars, doomed, errors, inbox, outbox, saving, stored>>

Unblock(g) ==
    /\ status[g] = "stuck"
    /\ status' = [status EXCEPT ![g] = "running"]
    /\ UNCHANGED <<serverVars, doomed, errors, inbox, outbox, saving, stored,
                   stumbles>>

\* A thread ends because it is told to, or by itself, which an error event
\* may announce.
Terminated(g) ==
    /\ g \in doomed /\ status[g] \in Alive
    /\ status' = [status EXCEPT ![g] = "dead"]
    /\ inbox' = [inbox EXCEPT ![g] = {}]
    /\ UNCHANGED <<serverVars, doomed, errors, outbox, saving, stored, stumbles>>

Die(g) ==
    /\ status[g] \in Alive /\ g < MaxThreads
    /\ status' = [status EXCEPT ![g] = "dead"]
    /\ errors' \in {errors, errors \cup {g}}
    /\ inbox' = [inbox EXCEPT ![g] = {}]
    /\ UNCHANGED <<serverVars, doomed, outbox, saving, stored, stumbles>>

(***************************************************************************)
(* The server.                                                             *)
(***************************************************************************)

\* The entries of Q leave the map when their promises settle (627).
Settle(Q, how) ==
    /\ requests' = requests \ Q
    /\ outcome' = [r \in Request |->
                     IF \E q \in Q : q.id = r THEN how ELSE outcome[r]]

\* persistNamespace and persistInWorker: while an operation of the room is
\* under way no other begins (debouncedPersist awaits it).
PersistInWorker(room) ==
    /\ ready /\ ~destroyed
    /\ ~ \E q \in requests : q.room = room
    /\ \E r \in Request :
          /\ outcome[r] = "none"
          /\ outcome' = [outcome EXCEPT ![r] = "pending"]
          /\ requests' = requests \cup
                {[id |-> r, room |-> room, worker |-> current]}
          /\ Post(current, Save(r, room))
    /\ UNCHANGED <<current, ready, beat, check, destroyed, threadVars, doomed,
                   outbox>>

\* Mutant: answers matched by room.
AnsweredByRoom(g, m) == {q \in requests : q.worker = g /\ q.room = m.room}

\* The requests that an answer of thread g is for.
Answered(g, m) ==
    {q \in requests : q.id = m.id /\ q.worker = g /\ q.room = m.room}

\* The handler of a thread's messages.  What a thread says that has been
\* replaced is ignored, as is everything after destroy.
OnMessage(g, m) ==
    /\ m \in outbox[g]
    /\ outbox' = [outbox EXCEPT ![g] = @ \ {m}]
    /\ IF g # current \/ destroyed
       THEN UNCHANGED <<ready, beat, check, requests, outcome>>
       ELSE /\ \/ m.event = "persisted" /\ Settle(Answered(g, m), "resolved")
               \/ m.event = "persist-error" /\ Settle(Answered(g, m), "rejected")
               \/ m.event \in {"ready", "pong"} /\ UNCHANGED <<requests, outcome>>
            /\ ready' = (ready \/ m.event \in {"ready", "pong"})
            /\ IF m.event = "pong" /\ check = "ping"
               THEN check' = "timer" /\ beat' = "recent"
               ELSE UNCHANGED <<check, beat>>
    /\ UNCHANGED <<current, destroyed, threadVars, doomed, inbox>>

\* The health check finds the current thread unhealthy: it is terminated.
Unhealthy ==
    IF destroyed THEN check' = "timer" /\ UNCHANGED doomed
                 ELSE check' = "terminate" /\ doomed' = doomed \cup {current}

\* Mutant: failPersistWorker, with the entries left in the map.
LeakEntries(g) ==
    /\ outcome' = [r \in Request |->
          IF \E q \in requests : q.id = r /\ q.worker = g THEN "rejected"
                                                         ELSE outcome[r]]
    /\ IF g = current
       THEN /\ ready' = FALSE /\ beat' = "none"
            /\ IF check = "ping" THEN Unhealthy ELSE UNCHANGED <<check, doomed>>
       ELSE UNCHANGED <<ready, beat, check, doomed>>
    /\ UNCHANGED <<current, destroyed, requests>>

\* failPersistWorker.  A check that awaits a pong goes on with false.
FailPersistWorker(g) ==
    /\ Settle({q \in requests : q.worker = g}, "rejected")
    /\ IF g = current
       THEN /\ ready' = FALSE /\ beat' = "none"
            /\ IF check = "ping" THEN Unhealthy ELSE UNCHANGED <<check, doomed>>
       ELSE UNCHANGED <<ready, beat, check, doomed>>
    /\ UNCHANGED <<current, destroyed>>

OnError(g) ==
    /\ g \in errors
    /\ errors' = errors \ {g}
    /\ FailPersistWorker(g)
    /\ UNCHANGED <<status, inbox, outbox, saving, stored, stumbles>>

\* Mutant: no handler for exit.
ExitUnheard(g) ==
    /\ status[g] = "dead" /\ outbox[g] = {} /\ g \notin errors
    /\ status' = [status EXCEPT ![g] = "gone"]
    /\ UNCHANGED <<serverVars, doomed, errors, inbox, outbox, saving, stored,
                   stumbles>>

\* What the thread has posted is handled before its exit.
OnExit(g) ==
    /\ status[g] = "dead" /\ outbox[g] = {} /\ g \notin errors
    /\ status' = [status EXCEPT ![g] = "gone"]
    /\ FailPersistWorker(g)
    /\ UNCHANGED <<errors, inbox, outbox, saving, stored, stumbles>>

\* The time between two checks and between two pongs is in the order of
\* seconds: a pong counts for two intervals.
Age ==
    /\ beat = "recent"
    /\ beat' = "old"
    /\ UNCHANGED <<current, ready, check, requests, destroyed, outcome,
                   threadVars, doomed, inbox, outbox>>

\* The timer of the health check; a recent pong is as good as a new one.
HealthCheck ==
    /\ check = "timer" /\ ~destroyed
    /\ beat # "recent"
    /\ check' = "ping"
    /\ Post(current, Ping)
    /\ UNCHANGED <<current, ready, beat, requests, destroyed, outcome,
                   threadVars, doomed, outbox>>

\* Mutant: no timer for the ping.
PingForEver == FALSE /\ UNCHANGED vars

\* No pong for three seconds.
PingTimeout ==
    /\ check = "ping" /\ ~destroyed
    /\ current < MaxThreads
    /\ FailPersistWorker(current)
    /\ UNCHANGED <<threadVars, inbox, outbox>>

\* Mutant: no look at destroyed after terminate.
ReplaceRegardless ==
    /\ check = "terminate" /\ status[current] = "gone"
    /\ check' = "timer"
    /\ current' = current + 1
    /\ status' = [status EXCEPT ![current + 1] = "starting"]
    /\ UNCHANGED <<ready, beat, requests, destroyed, outcome, doomed, errors,
                   inbox, outbox, saving, stored, stumbles>>

\* terminate() has resolved.  The new thread takes the place of the old one,
\* unless the server was destroyed meanwhile or no thread can be created.
Replace ==
    /\ check = "terminate" /\ status[current] = "gone"
    /\ check' = "timer"
    /\ \/ /\ ~destroyed
          /\ current' = current + 1
          /\ status' = [status EXCEPT ![current + 1] = "starting"]
       \/ UNCHANGED <<current, status>>
    /\ UNCHANGED <<ready, beat, requests, destroyed, outcome, doomed, errors,
                   inbox, outbox, saving, stored, stumbles>>

\* destroy: the current thread is failed and told to end.
Destroy ==
    /\ ~destroyed
    /\ destroyed' = TRUE
    /\ Settle({q \in requests : q.worker = current}, "rejected")
    /\ ready' = FALSE /\ beat' = "none"
    /\ check' = IF check = "ping" THEN "timer" ELSE check
    /\ doomed' = doomed \cup {current}
    /\ UNCHANGED <<current, threadVars, inbox, outbox>>

Serve ==
    \/ \E room \in Room : PersistInWorker(room)
    \/ \E g \in Thread : \/ \E m \in FromThread : OnMessage(g, m)
                        \/ OnError(g) \/ OnExit(g)
    \/ Age \/ HealthCheck \/ PingTimeout \/ Replace \/ Destroy

Run(g) ==
    \/ \E m \in ToThread : Receive(g, m)
    \/ Start(g) \/ Commit(g) \/ PersistEnds(g)
    \/ Block(g) \/ Unblock(g) \/ Terminated(g) \/ Die(g)

Next == Serve \/ \E g \in Thread : Run(g)

Spec == Init /\ [][Next]_vars

\* The event loops of the server and of a thread that is not blocked go on,
\* timers fire, terminate() ends a thread, and the storage settles each call.
Fairness ==
    /\ WF_vars(Age) /\ WF_vars(HealthCheck) /\ WF_vars(PingTimeout)
    /\ WF_vars(Replace)
    /\ \A g \in Thread :
          /\ \A m \in FromThread : WF_vars(OnMessage(g, m))
          /\ \A m \in ToThread : WF_vars(Receive(g, m))
          /\ WF_vars(OnError(g)) /\ WF_vars(OnExit(g)) /\ WF_vars(Start(g))
          /\ WF_vars(PersistEnds(g)) /\ WF_vars(Terminated(g))

FairSpec == Spec /\ Fairness

(***************************************************************************)
(* Properties.                                                             *)
(***************************************************************************)

\* persistNamespace trims the stream after persistInWorker has returned (599,
\* 603): a request is resolved only when its own state is in storage, not when
\* that of an earlier, given up save of the room is.
ResolvedIsStored ==
    \A r \in Request : outcome[r] = "resolved" => r \in stored

\* A save awaits only the thread in use, and one whose exit is still to come:
\* else nothing would settle it, and debouncedPersist (564) and the cleanup
\* (797) of its room would wait for it for ever.
NoOrphanRequest ==
    \A q \in requests : q.worker = current /\ status[q.worker] # "gone"

\* Saves are sent only to a thread that has started and that the server has
\* not seen exit, also while one is being replaced: ready is never left over
\* from the thread before (598, 746, 758, 869).
ReadyIsCurrent ==
    ready => status[current] \notin {"absent", "starting", "gone"}

\* No two threads save at a time, for a new one waits until the old one has
\* exited (861-872), and destroy leaves none behind that it has not told to end,
\* at whatever point of a replacement it comes.
OneThread ==
    \A g \in Thread : status[g] \in Alive => g = current /\ (destroyed => g \in doomed)

\* A save under way settles, although its thread is blocked or dies.
EverySaveSettles ==
    \A r \in Request :
        outcome[r] = "pending" ~> outcome[r] \in {"resolved", "rejected"}

\* After destroy no thread is left, also when it meets a replacement.
StopsForGood ==
    destroyed ~> [](\A g \in Thread : status[g] \notin Alive)
=============================================================================
