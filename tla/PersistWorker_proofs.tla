------------------------- MODULE PersistWorker_proofs -------------------------
(***************************************************************************)
(* Proofs about PersistWorker: for any rooms and requests, any number of   *)
(* threads and however often they stumble.                                 *)
(***************************************************************************)
EXTENDS PersistWorker, TLAPS

USE MaxThreadsAssumption, MaxStumblesAssumption

Silent == {"absent", "starting", "gone"}

\* A thread says "persisted" only of what is stored.
AnswersAreTrue ==
    \A g \in Thread : \A m \in outbox[g] : m.event = "persisted" => m.id \in stored

\* A request has one entry.
EntriesAreUnique == \A p, q \in requests : p.id = q.id => p = q

\* A thread is heard only between its start and its exit.
SilentIsUnheard == \A g \in Thread : status[g] \in Silent => outbox[g] = {}

\* Threads are created one after the other.
ThreadsInOrder ==
    /\ status[current] # "absent"
    /\ \A g \in Thread : g > current => status[g] = "absent"

\* The bound: the last thread ends only with the server, so that there is
\* another one wherever one is replaced.
LastThreadStays ==
    /\ MaxThreads \notin errors
    /\ MaxThreads \in doomed \/ status[MaxThreads] \in {"dead", "gone"} => destroyed
    /\ check = "terminate" => current < MaxThreads

Inv ==
    /\ AnswersAreTrue /\ EntriesAreUnique /\ SilentIsUnheard
    /\ ThreadsInOrder /\ LastThreadStays
    /\ ResolvedIsStored /\ NoOrphanRequest /\ ReadyIsCurrent

-----------------------------------------------------------------------------
(* Types.                                                                  *)

\* When entries settle, exactly theirs are the promises no longer pending.
LEMMA SettleType ==
    ASSUME TypeOK, EntriesAreUnique, NEW Q \in SUBSET requests,
           NEW how \in {"resolved", "rejected"}, Settle(Q, how)
    PROVE  /\ requests' \in SUBSET Entry
           /\ outcome' \in [Request -> {"none", "pending", "resolved", "rejected"}]
           /\ \A r \in Request :
                 outcome'[r] = "pending" <=> \E q \in requests' : q.id = r
  <1>1. /\ requests' \in SUBSET Entry
        /\ outcome' \in [Request -> {"none", "pending", "resolved", "rejected"}]
    BY DEF TypeOK, Settle
  <1>2. ASSUME NEW r \in Request
        PROVE  outcome'[r] = "pending" <=> \E q \in requests' : q.id = r
    <2>1. CASE \E q \in Q : q.id = r
      BY <2>1 DEF TypeOK, Settle, EntriesAreUnique
    <2>2. CASE ~ \E q \in Q : q.id = r
      BY <2>2 DEF TypeOK, Settle
    <2> QED BY <2>1, <2>2
  <1> QED BY <1>1, <1>2

\* failPersistWorker keeps its variables' types.
LEMMA FailType ==
    ASSUME TypeOK, EntriesAreUnique, NEW g \in Thread, FailPersistWorker(g)
    PROVE  /\ current' = current /\ destroyed' = destroyed
           /\ ready' \in BOOLEAN /\ beat' \in {"none", "recent", "old"}
           /\ check' \in {"timer", "ping", "terminate"}
           /\ doomed' \in SUBSET Thread
           /\ requests' \in SUBSET Entry
           /\ outcome' \in [Request -> {"none", "pending", "resolved", "rejected"}]
           /\ \A r \in Request :
                 outcome'[r] = "pending" <=> \E q \in requests' : q.id = r
  <1> DEFINE Q == {q \in requests : q.worker = g}
  <1>1. Q \in SUBSET requests /\ Settle(Q, "rejected")
    BY DEF FailPersistWorker
  <1>2. /\ requests' \in SUBSET Entry
        /\ outcome' \in [Request -> {"none", "pending", "resolved", "rejected"}]
        /\ \A r \in Request :
              outcome'[r] = "pending" <=> \E q \in requests' : q.id = r
    <2> HIDE DEF Q
    <2> QED BY <1>1, SettleType
  <1>3. /\ current' = current /\ destroyed' = destroyed
        /\ ready' \in BOOLEAN /\ beat' \in {"none", "recent", "old"}
        /\ check' \in {"timer", "ping", "terminate"}
        /\ doomed' \in SUBSET Thread
    <2> USE DEF FailPersistWorker, TypeOK
    <2>1. current' = current /\ destroyed' = destroyed  OBVIOUS
    <2>2. CASE g # current  BY <2>1, <2>2
    <2>3. CASE g = current
      <3>1. ready' = FALSE /\ beat' = "none"
        BY <2>3
      <3>2. check' \in {"timer", "ping", "terminate"} /\ doomed' \in SUBSET Thread
        BY <2>3 DEF Unhealthy
      <3> QED BY <2>1, <3>1, <3>2
    <2> QED BY <2>2, <2>3
  <1> QED BY <1>2, <1>3

LEMMA MessageTypes ==
    /\ Ping \in ToThread
    /\ \A e \in {"ready", "pong"} : Word(e) \in FromThread
    /\ \A r \in Request, room \in Room : Save(r, room) \in Persists
    /\ \A e \in {"persisted", "persist-error"}, m \in Persists :
          Answer(e, m) \in FromThread
    /\ \A m \in ToThread : m = Ping \/ m \in Persists
  BY DEF Ping, ToThread, Persists, FromThread, Word, Save, Answer

\* Each step of the server keeps the types.
LEMMA ServeType ==
    ASSUME TypeOK, EntriesAreUnique, ThreadsInOrder, LastThreadStays, Serve
    PROVE  TypeOK'
  <1> USE DEF TypeOK, serverVars, threadVars
  <1>1. ASSUME NEW room \in Room, PersistInWorker(room) PROVE TypeOK'
    <2>1. PICK r \in Request :
            /\ outcome[r] = "none"
            /\ outcome' = [outcome EXCEPT ![r] = "pending"]
            /\ requests' = requests \cup
                  {[id |-> r, room |-> room, worker |-> current]}
            /\ Post(current, Save(r, room))
      BY <1>1 DEF PersistInWorker
    <2>2. [id |-> r, room |-> room, worker |-> current] \in Entry
      BY DEF Entry
    <2>3. inbox' \in [Thread -> SUBSET ToThread]
      BY <2>1, MessageTypes DEF Post, ToThread
    <2>4. ASSUME NEW x \in Request
          PROVE  outcome'[x] = "pending" <=> \E q \in requests' : q.id = x
      <3>1. CASE x = r
        <4> DEFINE new == [id |-> r, room |-> room, worker |-> current]
        <4>1. new \in requests' /\ new.id = r
          BY <2>1
        <4>2. outcome'[r] = "pending"
          BY <2>1
        <4> QED BY <3>1, <4>1, <4>2
      <3>2. CASE x # r
        <4>1. outcome'[x] = outcome[x]
          BY <2>1, <3>2
        <4>2. (\E q \in requests' : q.id = x) <=> \E q \in requests : q.id = x
          BY <2>1, <3>2
        <4> QED BY <4>1, <4>2
      <3> QED BY <3>1, <3>2
    <2> QED BY <1>1, <2>1, <2>2, <2>3, <2>4 DEF PersistInWorker
  <1>2. ASSUME NEW g \in Thread, NEW m \in FromThread, OnMessage(g, m) PROVE TypeOK'
    <2>1. /\ UNCHANGED <<current, destroyed, threadVars, doomed, inbox>>
          /\ outbox' = [outbox EXCEPT ![g] = @ \ {m}]
          /\ ready' \in BOOLEAN /\ beat' \in {"none", "recent", "old"}
          /\ check' \in {"timer", "ping", "terminate"}
      BY <1>2 DEF OnMessage
    <2>2. Answered(g, m) \in SUBSET requests
      BY DEF Answered
    <2>3. \/ Settle(Answered(g, m), "resolved")
          \/ Settle(Answered(g, m), "rejected")
          \/ UNCHANGED <<requests, outcome>>
      BY <1>2 DEF OnMessage
    <2>4. /\ requests' \in SUBSET Entry
          /\ outcome' \in [Request -> {"none", "pending", "resolved", "rejected"}]
          /\ \A r \in Request :
                outcome'[r] = "pending" <=> \E q \in requests' : q.id = r
      <3>1. CASE UNCHANGED <<requests, outcome>>  BY <3>1
      <3>2. CASE Settle(Answered(g, m), "resolved")  BY <2>2, <3>2, SettleType
      <3>3. CASE Settle(Answered(g, m), "rejected")  BY <2>2, <3>3, SettleType
      <3> QED BY <2>3, <3>1, <3>2, <3>3
    <2> QED BY <2>1, <2>4
  <1>3. ASSUME NEW g \in Thread, OnError(g) PROVE TypeOK'
    BY <1>3, FailType DEF OnError
  <1>4. ASSUME NEW g \in Thread, OnExit(g) PROVE TypeOK'
    BY <1>4, FailType DEF OnExit
  <1>5. CASE Age  BY <1>5 DEF Age
  <1>6. CASE HealthCheck
    <2>1. inbox' \in [Thread -> SUBSET ToThread]
      BY <1>6, MessageTypes DEF HealthCheck, Post
    <2> QED BY <1>6, <2>1 DEF HealthCheck
  <1>7. CASE PingTimeout
    BY <1>7, FailType DEF PingTimeout
  <1>8. CASE Replace
    <2>1. current < MaxThreads
      BY <1>8 DEF Replace, LastThreadStays
    <2>2. current' \in Thread
      BY <1>8, <2>1 DEF Replace, Thread
    <2>3. status' \in [Thread -> Alive \cup {"absent", "dead", "gone"}]
      BY <1>8 DEF Replace, Alive
    <2> QED BY <1>8, <2>2, <2>3 DEF Replace
  <1>9. CASE Destroy
    <2> DEFINE Q == {q \in requests : q.worker = current}
    <2>1. Q \in SUBSET requests /\ Settle(Q, "rejected")
      BY <1>9 DEF Destroy
    <2>2. /\ requests' \in SUBSET Entry
          /\ outcome' \in [Request -> {"none", "pending", "resolved", "rejected"}]
          /\ \A r \in Request :
                outcome'[r] = "pending" <=> \E q \in requests' : q.id = r
      <3> HIDE DEF Q
      <3> QED BY <2>1, SettleType
    <2> QED BY <1>9, <2>2 DEF Destroy
  <1> QED BY <1>1, <1>2, <1>3, <1>4, <1>5, <1>6, <1>7, <1>8, <1>9 DEF Serve

\* So does each step of a thread.
LEMMA RunType ==
    ASSUME TypeOK, NEW g \in Thread, Run(g)
    PROVE  TypeOK'
  <1> USE DEF TypeOK, serverVars
  <1>1. ASSUME NEW m \in ToThread, Receive(g, m) PROVE TypeOK'
    <2>1. m = Ping \/ m \in Persists
      BY MessageTypes
    <2>2. /\ outbox' \in [Thread -> SUBSET FromThread]
          /\ saving' \in [Thread -> SUBSET Persists]
      BY <1>1, <2>1, MessageTypes DEF Receive, PostBack
    <2> QED BY <1>1, <2>2 DEF Receive
  <1>2. CASE Start(g)
    <2>1. outbox' \in [Thread -> SUBSET FromThread]
      BY <1>2, MessageTypes DEF Start, PostBack
    <2> QED BY <1>2, <2>1 DEF Start, Alive
  <1>3. CASE Commit(g)
    BY <1>3 DEF Commit, Persists
  <1>4. CASE PersistEnds(g)
    <2>1. /\ outbox' \in [Thread -> SUBSET FromThread]
          /\ saving' \in [Thread -> SUBSET Persists]
      BY <1>4, MessageTypes DEF PersistEnds, PostBack
    <2> QED BY <1>4, <2>1 DEF PersistEnds
  <1>5. CASE Block(g)       BY <1>5 DEF Block, Alive
  <1>6. CASE Unblock(g)     BY <1>6 DEF Unblock, Alive
  <1>7. CASE Terminated(g)  BY <1>7 DEF Terminated
  <1>8. CASE Die(g)         BY <1>8 DEF Die
  <1> QED BY <1>1, <1>2, <1>3, <1>4, <1>5, <1>6, <1>7, <1>8 DEF Run

LEMMA TypeStep ==
    ASSUME TypeOK, Inv, [Next]_vars
    PROVE  TypeOK'
  <1>1. CASE UNCHANGED vars
    BY <1>1 DEF vars, serverVars, threadVars, TypeOK
  <1>2. CASE Serve
    BY <1>2, ServeType DEF Inv
  <1>3. ASSUME NEW g \in Thread, Run(g) PROVE TypeOK'
    BY <1>3, RunType
  <1> QED BY <1>1, <1>2, <1>3 DEF Next

-----------------------------------------------------------------------------
(* Threads.                                                                *)

\* What a step of a thread does to the threads' states and messages.
LEMMA RunSteps ==
    ASSUME TypeOK, NEW g \in Thread, Run(g)
    PROVE  /\ UNCHANGED <<serverVars, doomed>>
           /\ stored \subseteq stored'
           /\ \A h \in Thread \ {g} : status'[h] = status[h] /\ outbox'[h] = outbox[h]
           /\ status[g] \in Alive \/ UNCHANGED <<status, outbox, errors>>
           /\ status'[g] \in {"running", "stuck", "dead"} \/ status'[g] = status[g]
           /\ outbox'[g] = outbox[g] \/ status'[g] = "running"
           /\ status'[g] = "dead" =>
                 status[g] = "dead" \/ g \in doomed \/ g < MaxThreads
           /\ errors' \subseteq errors \cup {g}
           /\ g \in errors' => g \in errors \/ g < MaxThreads
           /\ \A m \in outbox'[g] \ outbox[g] :
                 m.event = "persisted" => m.id \in stored
  <1> USE DEF TypeOK, serverVars, Alive, PostBack
  <1>1. ASSUME NEW m \in ToThread, Receive(g, m)
        PROVE  /\ UNCHANGED <<serverVars, status, doomed, errors, stored>>
               /\ status[g] = "running"
               /\ \/ UNCHANGED outbox
                  \/ outbox' = [outbox EXCEPT ![g] = @ \cup {Word("pong")}]
    BY <1>1 DEF Receive
  <1>2. CASE \E m \in ToThread : Receive(g, m)
    <2>1. PICK m \in ToThread : Receive(g, m)
      BY <1>2
    <2>2. CASE UNCHANGED outbox  BY <1>1, <2>1, <2>2
    <2>3. CASE outbox' = [outbox EXCEPT ![g] = @ \cup {Word("pong")}]
      BY <1>1, <2>1, <2>3 DEF Word
    <2> QED BY <1>1, <2>1, <2>2, <2>3
  <1>3. CASE Start(g)       BY <1>3 DEF Start, Word
  <1>4. CASE Commit(g)      BY <1>4 DEF Commit
  <1>5. CASE PersistEnds(g)
    <2>1. PICK m \in saving[g], event \in {"persisted", "persist-error"} :
            /\ event = "persisted" => m.id \in stored
            /\ outbox' = [outbox EXCEPT ![g] = @ \cup {Answer(event, m)}]
      BY <1>5 DEF PersistEnds
    <2>2. \A x \in outbox'[g] \ outbox[g] : x.event = "persisted" => x.id \in stored
      BY <2>1 DEF Answer
    <2> QED BY <1>5, <2>1, <2>2 DEF PersistEnds
  <1>6. CASE Block(g)       BY <1>6 DEF Block
  <1>7. CASE Unblock(g)     BY <1>7 DEF Unblock
  <1>8. CASE Terminated(g)  BY <1>8 DEF Terminated
  <1>9. CASE Die(g)         BY <1>9 DEF Die, Thread
  <1> QED BY <1>2, <1>3, <1>4, <1>5, <1>6, <1>7, <1>8, <1>9 DEF Run

LEMMA RunInv ==
    ASSUME TypeOK, Inv, NEW g \in Thread, Run(g)
    PROVE  Inv'
  <1> USE RunSteps
  <1>0. MaxThreads \in Thread /\ current \in Thread
    BY DEF Thread, TypeOK
  <1>1. AnswersAreTrue'
    <2>1. ASSUME NEW h \in Thread, NEW m \in outbox'[h], m.event = "persisted"
          PROVE  m.id \in stored'
      <3>1. CASE m \in outbox[h]   BY <2>1, <3>1 DEF Inv, AnswersAreTrue
      <3>2. CASE m \notin outbox[h]  BY <2>1, <3>2
      <3> QED BY <3>1, <3>2
    <2> QED BY <2>1 DEF AnswersAreTrue
  <1>2. EntriesAreUnique'
    BY DEF Inv, EntriesAreUnique, serverVars
  <1>3. SilentIsUnheard'
    <2>1. ASSUME NEW h \in Thread, status'[h] \in Silent PROVE outbox'[h] = {}
      <3>1. CASE h # g  BY <2>1, <3>1 DEF Inv, SilentIsUnheard
      <3>2. CASE h = g  BY <2>1, <3>2 DEF Inv, SilentIsUnheard, Silent
      <3> QED BY <3>1, <3>2
    <2> QED BY <2>1 DEF SilentIsUnheard
  <1>4. ThreadsInOrder'
    BY <1>0 DEF Inv, ThreadsInOrder, serverVars, Alive
  <1>5. LastThreadStays'
    BY <1>0 DEF Inv, LastThreadStays, serverVars, Alive
  <1>6. ResolvedIsStored'
    BY DEF Inv, ResolvedIsStored, serverVars
  <1>7. NoOrphanRequest'
    BY <1>0 DEF Inv, NoOrphanRequest, serverVars
  <1>8. ReadyIsCurrent'
    BY <1>0 DEF Inv, ReadyIsCurrent, serverVars
  <1> QED BY <1>1, <1>2, <1>3, <1>4, <1>5, <1>6, <1>7, <1>8 DEF Inv

-----------------------------------------------------------------------------
(* The server.                                                             *)

LEMMA SettleSteps ==
    ASSUME TypeOK, NEW Q \in SUBSET requests,
           NEW how \in {"resolved", "rejected"}, Settle(Q, how)
    PROVE  /\ requests' = requests \ Q
           /\ \A r \in Request : outcome'[r] = "resolved" =>
                 outcome[r] = "resolved" \/ (how = "resolved" /\ \E q \in Q : q.id = r)
  BY DEF Settle, TypeOK

\* failPersistWorker resolves nothing, leaves no entry of its thread, and dooms
\* at most the current thread, of a server that goes on.
LEMMA FailSteps ==
    ASSUME TypeOK, NEW g \in Thread, FailPersistWorker(g)
    PROVE  /\ UNCHANGED <<current, destroyed>>
           /\ requests' = {q \in requests : q.worker # g}
           /\ \A r \in Request : outcome'[r] = "resolved" => outcome[r] = "resolved"
           /\ ready' => ready /\ g # current
           /\ \/ check' # "terminate" /\ doomed' = doomed
              \/ check' = check /\ doomed' = doomed
              \/ /\ doomed' = doomed \cup {current}
                 /\ g = current /\ check = "ping" /\ ~ destroyed
  <1> DEFINE Q == {q \in requests : q.worker = g}
  <1>1. Q \in SUBSET requests /\ Settle(Q, "rejected")
    BY DEF FailPersistWorker
  <1>2. /\ requests' = requests \ Q
        /\ \A r \in Request : outcome'[r] = "resolved" => outcome[r] = "resolved"
    <2> HIDE DEF Q
    <2> QED BY <1>1, SettleSteps
  <1>3. UNCHANGED <<current, destroyed>> /\ (ready' => ready /\ g # current)
    BY DEF FailPersistWorker
  <1>4. \/ check' # "terminate" /\ doomed' = doomed
        \/ check' = check /\ doomed' = doomed
        \/ /\ doomed' = doomed \cup {current}
           /\ g = current /\ check = "ping" /\ ~ destroyed
    BY DEF FailPersistWorker, Unhealthy
  <1> QED BY <1>2, <1>3, <1>4

\* What a thread has failed for need not be the last.
LEMMA FailInv ==
    ASSUME TypeOK, Inv, NEW g \in Thread, FailPersistWorker(g),
           UNCHANGED <<inbox, outbox, saving, stored, stumbles>>,
           errors' \subseteq errors,
           status' = [status EXCEPT ![g] = status'[g]],
           \/ status'[g] = status[g]
           \/ status[g] = "dead" /\ status'[g] = "gone" /\ outbox[g] = {},
           g = current /\ check = "ping" /\ ~ destroyed => current < MaxThreads
    PROVE  Inv'
  <1>0. current \in Thread /\ MaxThreads \in Thread /\ (destroyed' <=> destroyed)
    BY FailSteps DEF TypeOK, Thread
  <1>1. \A h \in Thread :
           \/ status'[h] = status[h]
           \/ h = g /\ status[h] = "dead" /\ status'[h] = "gone" /\ outbox[h] = {}
    BY DEF TypeOK
  <1>2. AnswersAreTrue' /\ EntriesAreUnique'
    BY FailSteps DEF Inv, AnswersAreTrue, EntriesAreUnique
  <1>3. SilentIsUnheard'
    BY <1>1 DEF Inv, SilentIsUnheard
  <1>4. ThreadsInOrder'
    BY <1>0, <1>1, FailSteps DEF Inv, ThreadsInOrder
  <1>5. LastThreadStays'
    <2>1. MaxThreads \notin errors'
      BY DEF Inv, LastThreadStays
    <2>2. status'[MaxThreads] \in {"dead", "gone"} => destroyed'
      BY <1>0, <1>1 DEF Inv, LastThreadStays
    <2>3. /\ MaxThreads \in doomed' => destroyed'
          /\ check' = "terminate" => current' < MaxThreads
      BY <1>0, FailSteps DEF Inv, LastThreadStays, Thread
    <2> QED BY <2>1, <2>2, <2>3 DEF LastThreadStays
  <1>6. ResolvedIsStored'
    BY FailSteps DEF Inv, ResolvedIsStored
  <1>7. NoOrphanRequest'
    BY <1>0, <1>1, FailSteps DEF Inv, NoOrphanRequest
  <1>8. ReadyIsCurrent'
    BY <1>0, <1>1, FailSteps DEF Inv, ReadyIsCurrent
  <1> QED BY <1>2, <1>3, <1>4, <1>5, <1>6, <1>7, <1>8 DEF Inv

\* Each step of the server keeps the invariant.
LEMMA ServeInv ==
    ASSUME TypeOK, Inv, Serve
    PROVE  Inv'
  <1>0. current \in Thread /\ MaxThreads \in Thread
    BY DEF TypeOK, Thread
  <1> USE DEF Inv
  <1>1. ASSUME NEW room \in Room, PersistInWorker(room) PROVE Inv'
    <2>1. PICK r \in Request :
            /\ outcome[r] = "none"
            /\ outcome' = [outcome EXCEPT ![r] = "pending"]
            /\ requests' = requests \cup
                  {[id |-> r, room |-> room, worker |-> current]}
      BY <1>1 DEF PersistInWorker
    <2>2. /\ ready
          /\ UNCHANGED <<current, ready, check, destroyed, status, errors, stored,
                         doomed, outbox>>
      BY <1>1 DEF PersistInWorker, threadVars
    <2>3. ~ \E q \in requests : q.id = r
      BY <2>1 DEF TypeOK
    <2>4. EntriesAreUnique'
      BY <2>1, <2>3 DEF EntriesAreUnique
    <2>5. NoOrphanRequest'
      BY <2>1, <2>2 DEF NoOrphanRequest, ReadyIsCurrent
    <2>6. ResolvedIsStored'
      BY <2>1, <2>2 DEF ResolvedIsStored, TypeOK
    <2> QED BY <2>2, <2>4, <2>5, <2>6 DEF AnswersAreTrue, SilentIsUnheard,
               ThreadsInOrder, LastThreadStays, ReadyIsCurrent
  <1>2. ASSUME NEW g \in Thread, NEW m \in FromThread, OnMessage(g, m) PROVE Inv'
    <2>1. /\ m \in outbox[g]
          /\ outbox' = [outbox EXCEPT ![g] = @ \ {m}]
          /\ UNCHANGED <<current, destroyed, status, errors, stored, doomed>>
          /\ check' = check \/ check' = "timer"
          /\ ready' => ready \/ g = current
      BY <1>2 DEF OnMessage, threadVars
    <2>2. /\ requests' \subseteq requests
          /\ \A r \in Request : outcome'[r] = "resolved" =>
                outcome[r] = "resolved" \/ (m.event = "persisted" /\ r = m.id)
      <3>1. Answered(g, m) \in SUBSET requests /\ \A q \in Answered(g, m) : q.id = m.id
        BY DEF Answered
      <3>2. CASE UNCHANGED <<requests, outcome>>  BY <3>2
      <3>3. CASE m.event = "persisted" /\ Settle(Answered(g, m), "resolved")
        BY <3>1, <3>3, SettleSteps
      <3>4. CASE Settle(Answered(g, m), "rejected")
        BY <3>1, <3>4, SettleSteps
      <3> QED BY <1>2, <3>2, <3>3, <3>4 DEF OnMessage
    <2>3. \A h \in Thread : outbox'[h] \subseteq outbox[h]
      BY <2>1 DEF TypeOK
    <2>4. AnswersAreTrue' /\ SilentIsUnheard'
      BY <2>1, <2>3 DEF AnswersAreTrue, SilentIsUnheard
    <2>5. EntriesAreUnique' /\ NoOrphanRequest'
      BY <2>1, <2>2 DEF EntriesAreUnique, NoOrphanRequest
    <2>6. ResolvedIsStored'
      BY <2>1, <2>2 DEF ResolvedIsStored, AnswersAreTrue
    <2>7. ReadyIsCurrent'
      BY <1>0, <2>1 DEF ReadyIsCurrent, SilentIsUnheard, Silent
    <2> QED BY <2>1, <2>4, <2>5, <2>6, <2>7 DEF ThreadsInOrder, LastThreadStays
  <1>3. ASSUME NEW g \in Thread, OnError(g) PROVE Inv'
    <2>1. g = current => current < MaxThreads
      BY <1>0, <1>3 DEF OnError, LastThreadStays, Thread
    <2>2. status' = [status EXCEPT ![g] = status'[g]] /\ status'[g] = status[g]
      BY <1>3 DEF OnError, TypeOK
    <2> QED BY <1>3, <2>1, <2>2, FailInv DEF OnError
  <1>4. ASSUME NEW g \in Thread, OnExit(g) PROVE Inv'
    <2>1. g = current /\ ~ destroyed => current < MaxThreads
      BY <1>0, <1>4 DEF OnExit, LastThreadStays, Thread
    <2>2. /\ status' = [status EXCEPT ![g] = status'[g]]
          /\ status[g] = "dead" /\ status'[g] = "gone" /\ outbox[g] = {}
      BY <1>4 DEF OnExit, TypeOK
    <2> QED BY <1>4, <2>1, <2>2, FailInv DEF OnExit
  <1>5. CASE Age
    BY <1>5 DEF Age, threadVars, AnswersAreTrue, EntriesAreUnique, SilentIsUnheard,
       ThreadsInOrder, LastThreadStays, ResolvedIsStored, NoOrphanRequest,
       ReadyIsCurrent
  <1>6. CASE HealthCheck
    BY <1>6 DEF HealthCheck, threadVars, AnswersAreTrue, EntriesAreUnique,
       SilentIsUnheard, ThreadsInOrder, LastThreadStays, ResolvedIsStored,
       NoOrphanRequest, ReadyIsCurrent
  <1>7. CASE PingTimeout
    <2>1. status' = [status EXCEPT ![current] = status'[current]] /\ status' = status
      BY <1>7 DEF PingTimeout, threadVars, TypeOK
    <2> QED BY <1>0, <1>7, <2>1, FailInv DEF PingTimeout, threadVars
  <1>8. CASE Replace
    <2>1. /\ status[current] = "gone" /\ check' = "timer"
          /\ UNCHANGED <<ready, requests, destroyed, outcome, doomed, errors, outbox,
                         stored>>
          /\ current < MaxThreads /\ current + 1 \in Thread
      BY <1>0, <1>8 DEF Replace, LastThreadStays, Thread
    <2>2. requests = {} /\ ready = FALSE
      BY <2>1 DEF NoOrphanRequest, ReadyIsCurrent, TypeOK
    <2>3. \/ UNCHANGED <<current, status>>
          \/ /\ ~ destroyed /\ current' = current + 1
             /\ status' = [status EXCEPT ![current + 1] = "starting"]
             /\ status[current + 1] = "absent"
      BY <1>0, <1>8, <2>1 DEF Replace, ThreadsInOrder, Thread
    <2>4. SilentIsUnheard'
      BY <2>1, <2>3 DEF SilentIsUnheard, Silent, TypeOK
    <2>5. ThreadsInOrder'
      BY <1>0, <2>1, <2>3 DEF ThreadsInOrder, Thread, TypeOK
    <2>6. LastThreadStays'
      BY <1>0, <2>1, <2>3 DEF LastThreadStays, TypeOK
    <2> QED BY <2>1, <2>2, <2>4, <2>5, <2>6 DEF AnswersAreTrue, EntriesAreUnique,
               ResolvedIsStored, NoOrphanRequest, ReadyIsCurrent
  <1>9. CASE Destroy
    <2> DEFINE Q == {q \in requests : q.worker = current}
    <2>1. Q \in SUBSET requests /\ Settle(Q, "rejected")
      BY <1>9 DEF Destroy
    <2>2. /\ requests' \subseteq requests
          /\ \A r \in Request : outcome'[r] = "resolved" => outcome[r] = "resolved"
      <3> HIDE DEF Q
      <3> QED BY <2>1, SettleSteps
    <2>3. /\ destroyed' = TRUE /\ ready' = FALSE
          /\ check' = "terminate" => check = "terminate"
          /\ UNCHANGED <<current, status, errors, stored, outbox>>
      BY <1>9 DEF Destroy, threadVars
    <2>4. LastThreadStays'
      BY <2>3 DEF LastThreadStays
    <2>5. ResolvedIsStored' /\ NoOrphanRequest' /\ EntriesAreUnique'
      BY <2>2, <2>3 DEF ResolvedIsStored, NoOrphanRequest, EntriesAreUnique
    <2> QED BY <2>3, <2>4, <2>5 DEF AnswersAreTrue, SilentIsUnheard, ThreadsInOrder,
               ReadyIsCurrent
  <1> QED BY <1>1, <1>2, <1>3, <1>4, <1>5, <1>6, <1>7, <1>8, <1>9 DEF Serve

-----------------------------------------------------------------------------
(* The theorems.                                                           *)

LEMMA InitInv == Init => TypeOK /\ Inv
  <1> SUFFICES ASSUME Init PROVE TypeOK /\ Inv
    OBVIOUS
  <1>1. 1 \in Thread /\ MaxThreads \in Thread
    BY DEF Thread
  <1>2. TypeOK
    <2>1. 0 \in 0..MaxStumbles
      OBVIOUS
    <2>2. status \in [Thread -> Alive \cup {"absent", "dead", "gone"}]
      BY <1>1 DEF Init, Alive
    <2>3. \A r \in Request : outcome[r] = "pending" <=> \E q \in requests : q.id = r
      BY DEF Init
    <2> QED BY <1>1, <2>1, <2>2, <2>3 DEF Init, TypeOK
  <1>3. ThreadsInOrder /\ LastThreadStays
    BY <1>1 DEF Init, ThreadsInOrder, LastThreadStays, Thread
  <1>4. /\ AnswersAreTrue /\ EntriesAreUnique /\ SilentIsUnheard
        /\ ResolvedIsStored /\ NoOrphanRequest /\ ReadyIsCurrent
    BY DEF Init, AnswersAreTrue, EntriesAreUnique, SilentIsUnheard,
       ResolvedIsStored, NoOrphanRequest, ReadyIsCurrent
  <1> QED BY <1>2, <1>3, <1>4 DEF Inv

LEMMA InvStep ==
    ASSUME TypeOK, Inv, [Next]_vars
    PROVE  Inv'
  <1>1. CASE UNCHANGED vars
    BY <1>1 DEF vars, serverVars, threadVars, Inv, AnswersAreTrue, EntriesAreUnique,
       SilentIsUnheard, ThreadsInOrder, LastThreadStays, ResolvedIsStored,
       NoOrphanRequest, ReadyIsCurrent
  <1>2. CASE Serve
    BY <1>2, ServeInv
  <1>3. ASSUME NEW g \in Thread, Run(g) PROVE Inv'
    BY <1>3, RunInv
  <1> QED BY <1>1, <1>2, <1>3 DEF Next

\* The types and the invariant hold, however many threads there are, of the
\* server's bookkeeping of its worker thread (y-socket-io.js 598-629, 719-878).
THEOREM ThreadInvariance == Spec => [](TypeOK /\ Inv)
  <1>1. Init => TypeOK /\ Inv
    BY InitInv
  <1>2. TypeOK /\ Inv /\ [Next]_vars => (TypeOK /\ Inv)'
    BY TypeStep, InvStep
  <1> QED BY <1>1, <1>2, PTL DEF Spec

\* A save is reported as done only when its own state is in storage, whatever
\* late answers of replaced threads and given up saves there are (599, 603).
THEOREM SavesAreTruthful == Spec => []ResolvedIsStored
  <1>1. Inv => ResolvedIsStored
    BY DEF Inv
  <1> QED BY <1>1, ThreadInvariance, PTL

\* No save is left to a thread whose exit the server has already handled, so
\* that each has something that will settle it (627).
THEOREM SavesAreHeard == Spec => []NoOrphanRequest
  <1>1. Inv => NoOrphanRequest
    BY DEF Inv
  <1> QED BY <1>1, ThreadInvariance, PTL

\* Saves go only to a thread that has started and not exited (598, 869).
THEOREM ReadinessIsTrue == Spec => []ReadyIsCurrent
  <1>1. Inv => ReadyIsCurrent
    BY DEF Inv
  <1> QED BY <1>1, ThreadInvariance, PTL

\* A thread is created where the one before is gone, and told to end where it
\* is current.
LEMMA OneThreadStep ==
    ASSUME TypeOK, Inv, OneThread, [Next]_vars
    PROVE  OneThread'
  <1>1. ASSUME UNCHANGED <<status, current>>, doomed \subseteq doomed',
               destroyed' => destroyed \/ current \in doomed'
        PROVE  OneThread'
    BY <1>1 DEF OneThread
  <1>2. ASSUME NEW g \in Thread, Run(g) PROVE OneThread'
    BY <1>2, RunSteps DEF OneThread, serverVars, Alive
  <1>3. ASSUME NEW room \in Room, PersistInWorker(room) PROVE OneThread'
    BY <1>1, <1>3 DEF PersistInWorker, threadVars
  <1>4. ASSUME NEW g \in Thread, NEW m \in FromThread, OnMessage(g, m) PROVE OneThread'
    BY <1>1, <1>4 DEF OnMessage, threadVars
  <1>5. ASSUME NEW g \in Thread, OnError(g) PROVE OneThread'
    <2>1. status' = status /\ FailPersistWorker(g)
      BY <1>5 DEF OnError
    <2> QED BY <1>1, <2>1, FailSteps
  <1>6. ASSUME NEW g \in Thread, OnExit(g) PROVE OneThread'
    <2>1. \A h \in Thread : status'[h] \in Alive => status'[h] = status[h]
      BY <1>6 DEF OnExit, TypeOK, Alive
    <2>2. UNCHANGED <<current, destroyed>> /\ doomed \subseteq doomed'
      BY <1>6, FailSteps DEF OnExit
    <2> QED BY <2>1, <2>2 DEF OneThread
  <1>7. CASE Age \/ HealthCheck
    BY <1>1, <1>7 DEF Age, HealthCheck, threadVars
  <1>8. CASE PingTimeout
    <2>1. status' = status /\ FailPersistWorker(current) /\ current \in Thread
      BY <1>8 DEF PingTimeout, threadVars, TypeOK
    <2> QED BY <1>1, <2>1, FailSteps
  <1>9. CASE Replace
    <2>1. \A g \in Thread : status[g] \notin Alive
      BY <1>9 DEF Replace, OneThread, Alive
    <2>2. CASE UNCHANGED <<current, status>>
      BY <2>1, <2>2 DEF OneThread
    <2>3. CASE ~ destroyed /\ current' = current + 1
               /\ status' = [status EXCEPT ![current + 1] = "starting"]
      <3>1. \A g \in Thread : g # current' => status'[g] = status[g]
        BY <2>3 DEF TypeOK
      <3>2. ~ destroyed'
        BY <1>9, <2>3 DEF Replace
      <3> QED BY <2>1, <3>1, <3>2 DEF OneThread
    <2> QED BY <1>9, <2>2, <2>3 DEF Replace
  <1>10. CASE Destroy
    BY <1>1, <1>10 DEF Destroy, threadVars
  <1>11. CASE UNCHANGED vars
    BY <1>1, <1>11 DEF vars, serverVars, threadVars
  <1> QED BY <1>2, <1>3, <1>4, <1>5, <1>6, <1>7, <1>8, <1>9, <1>10, <1>11 DEF Next, Serve

\* A new thread begins only where no other is alive, and destroy, at whatever
\* point of a replacement it comes, leaves no thread alive that has not been told
\* to end (709-717, 861-872).  That it then ends is StopsForGood's part.
THEOREM ThreadsTakeTurns == Spec => []OneThread
  <1>1. Init => OneThread
    BY DEF Init, OneThread, Alive
  <1> QED BY <1>1, OneThreadStep, ThreadInvariance, PTL DEF Spec

\* A server that was destroyed and has no thread alive stays so: what is still
\* under way, a replacement above all, creates none (868).  With it StopsForGood
\* comes down to that the threads end.
Stopped == destroyed /\ \A g \in Thread : status[g] \notin Alive

THEOREM StoppedForGood == Spec => [](Stopped => []Stopped)
  <1>1. TypeOK /\ Stopped /\ [Next]_vars => Stopped'
    <2> SUFFICES ASSUME TypeOK, Stopped, [Next]_vars PROVE Stopped'
      OBVIOUS
    <2>1. ASSUME status' = status, destroyed' = destroyed \/ destroyed' PROVE Stopped'
      BY <2>1 DEF Stopped
    <2>2. ASSUME NEW g \in Thread, Run(g) PROVE Stopped'
      BY <2>2, RunSteps DEF Stopped, serverVars
    <2>3. ASSUME NEW room \in Room, PersistInWorker(room) PROVE Stopped'
      BY <2>3 DEF PersistInWorker, Stopped
    <2>4. ASSUME NEW g \in Thread, NEW m \in FromThread, OnMessage(g, m) PROVE Stopped'
      BY <2>1, <2>4 DEF OnMessage, threadVars
    <2>5. ASSUME NEW g \in Thread, OnError(g) PROVE Stopped'
      BY <2>1, <2>5, FailSteps DEF OnError
    <2>6. ASSUME NEW g \in Thread, OnExit(g) PROVE Stopped'
      BY <2>6, FailSteps DEF OnExit, Stopped, TypeOK, Alive
    <2>7. CASE Age \/ HealthCheck
      BY <2>1, <2>7 DEF Age, HealthCheck, threadVars
    <2>8. CASE PingTimeout
      BY <2>8 DEF PingTimeout, Stopped
    <2>9. CASE Replace
      BY <2>1, <2>9 DEF Replace, Stopped
    <2>10. CASE Destroy
      BY <2>10 DEF Destroy, Stopped
    <2>11. CASE UNCHANGED vars
      BY <2>1, <2>11 DEF vars, serverVars, threadVars
    <2> QED BY <2>2, <2>3, <2>4, <2>5, <2>6, <2>7, <2>8, <2>9, <2>10, <2>11
            DEF Next, Serve
  <1> QED BY <1>1, ThreadInvariance, PTL DEF Spec
=============================================================================
