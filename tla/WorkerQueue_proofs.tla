-------------------------- MODULE WorkerQueue_proofs --------------------------
(***************************************************************************)
(* Proofs about WorkerQueue, for any workers, messages and bounds, however *)
(* often calls fail and workers die, and with the same task processed by   *)
(* any number of workers at once.                                          *)
(***************************************************************************)
EXTENDS WorkerQueue, FiniteSetTheorems, TLAPS

USE QueueAssumption, MaxSeqAssumption, MinLifetimeAssumption

-----------------------------------------------------------------------------
(* The stream (RedisStream).                                               *)

\* "0" is the smallest id: it never stands for an entry (api.js:29-35).
LEMMA ZeroIsLeast ==
    /\ Zero \in RedisId
    /\ \A a \in RedisId : ~ IsSmallerRedisId(a, Zero)
  BY MaxSeqAssumption DEF Zero, RedisId, IsSmallerRedisId

\* isSmallerRedisId (api.js:29-35) orders ids strictly and totally.
LEMMA IdOrder ==
    ASSUME NEW a \in RedisId, NEW b \in RedisId, NEW c \in RedisId
    PROVE  /\ ~ IsSmallerRedisId(a, a)
           /\ IsSmallerRedisId(a, b) => ~ IsSmallerRedisId(b, a)
           /\ ~ IsSmallerRedisId(a, b) /\ ~ IsSmallerRedisId(b, a) => a = b
           /\ IsSmallerRedisId(a, b) /\ ~ IsSmallerRedisId(c, b)
                => IsSmallerRedisId(a, c)
           /\ ~ IsSmallerRedisId(b, a) /\ IsSmallerRedisId(b, c)
                => IsSmallerRedisId(a, c)
           /\ ~ IsSmallerRedisId(b, a) /\ ~ IsSmallerRedisId(c, b)
                => ~ IsSmallerRedisId(c, a)
  BY MaxSeqAssumption DEF RedisId, IsSmallerRedisId

\* An id XADD gives is above the last one, and no older than the clock.
LEMMA NextIdIsLater ==
    ASSUME NEW last \in RedisId, NEW time \in Nat
    PROVE  /\ NextId(last, time) \in RedisId
           /\ IsSmallerRedisId(last, NextId(last, time))
           /\ time <= NextId(last, time).ms
  BY MaxSeqAssumption DEF RedisId, IsSmallerRedisId, NextId, Successor

\* What trimRoomStream (api.js:316-322) removes was part of the snapshot, and
\* was more than the minimum lifetime old by the caller's clock.
LEMMA TrimIsBounded ==
    ASSUME NEW es, \A e \in es : e.id \in RedisId,
           NEW persistedId \in RedisId, NEW clock \in Int,
           NEW e \in es \ TrimRoomStream(es, persistedId, clock)
    PROVE  /\ ~ IsSmallerRedisId(persistedId, e.id)
           /\ clock > e.id.ms + MinLifetime
  <1>1. e.id \in RedisId /\ IsSmallerRedisId(e.id, TrimBoundary(persistedId, clock))
    BY DEF TrimRoomStream, XTrim
  <1> QED
    BY <1>1, MinLifetimeAssumption, MaxSeqAssumption
    DEF RedisId, IsSmallerRedisId, TrimBoundary, RetentionBoundary, Successor

\* A trim only removes.
LEMMA TrimRemoves ==
    ASSUME NEW es, NEW persistedId, NEW clock
    PROVE  TrimRoomStream(es, persistedId, clock) \subseteq es
  BY DEF TrimRoomStream, XTrim

\* It removes from the old end: what is not older than an entry that stays,
\* stays.
LEMMA TrimKeepsSuffix ==
    ASSUME NEW es, \A e \in es : e.id \in RedisId,
           NEW persistedId \in RedisId, NEW clock \in Int,
           NEW e \in TrimRoomStream(es, persistedId, clock),
           NEW f \in es, ~ IsSmallerRedisId(f.id, e.id)
    PROVE  f \in TrimRoomStream(es, persistedId, clock)
  <1>1. e.id \in RedisId /\ f.id \in RedisId
    BY DEF TrimRoomStream, XTrim
  <1> QED
    BY <1>1, MaxSeqAssumption, MinLifetimeAssumption
    DEF TrimRoomStream, XTrim, RedisId, IsSmallerRedisId, TrimBoundary,
        RetentionBoundary, Successor

-----------------------------------------------------------------------------
(* What steps do to the stream, the rows and the jobs.                     *)

Entry == [id : RedisId, m : SUBSET Update]

\* Only four actions touch the stream.
LEMMA StreamSteps ==
    ASSUME [Next]_vars
    PROVE  \/ \E m \in Message : AddMessage(m)
           \/ ExpireStream
           \/ \E j \in jobs : DropTask(j)
           \/ \E j \in jobs : Requeue(j)
           \/ UNCHANGED streamVars /\ (Tick \/ now' = now)
  BY ZenonT(30) DEF Next, vars, streamVars, Tick, WorkerLoop, Reclaim, Claim, EndRound,
         ScanConsumers, ListChecked, RecoverOrphan, ClearChecklist, FailLoop, Crash,
         ExpireIdset, ProcessTask, CheckLengthOf, ReadStream, RetrieveDoc, PersistDoc,
         Purge, FailJob

\* Only two touch the rows.
LEMMA RowSteps ==
    ASSUME [Next]_vars
    PROVE  \/ \E j \in jobs : PersistDoc(j)
           \/ \E j \in jobs : Purge(j)
           \/ UNCHANGED rows
  BY DEF Next, vars, Tick, AddMessage, ExpireStream, WorkerLoop, Reclaim, Claim, EndRound,
         ScanConsumers, ListChecked, RecoverOrphan, ClearChecklist, FailLoop, Crash,
         ExpireIdset, ProcessTask, CheckLengthOf, DropTask, ReadStream, RetrieveDoc,
         Requeue, FailJob

\* k is what has become of job i, some of whose calls have settled since.
Remains(i, k) ==
    /\ k.pc = i.pc /\ k.doc = i.doc /\ k.lastId = i.lastId /\ k.refs = i.refs
    /\ k.todo \subseteq i.todo

\* k has only just begun.
Begun(k) ==
    k.pc = "length" /\ k.doc = {} /\ k.lastId = Zero /\ k.refs = {} /\ k.todo = {}

\* Four actions take a job further; all others begin, settle or end some.
LEMMA JobSteps ==
    ASSUME jobs \in SUBSET Job, [Next]_vars
    PROVE  \/ \E j \in jobs : CheckLengthOf(j) \/ ReadStream(j) \/ RetrieveDoc(j) \/ PersistDoc(j)
           \/ \A k \in jobs' : Begun(k) \/ \E i \in jobs : Remains(i, k)
  <1> DEFINE Kept == \A k \in jobs' : Begun(k) \/ \E i \in jobs : Remains(i, k)
  <1>0. \A i \in jobs : Remains(i, i)
    BY DEF Remains
  <1>1. ASSUME jobs' \subseteq jobs PROVE Kept
    BY <1>0, <1>1
  <1>2. ASSUME NEW w \in Worker, Claim(w) PROVE Kept
    BY <1>0, <1>2 DEF Claim, NewJob, Begun
  <1>3. ASSUME NEW j \in jobs, NEW call, Did(j, call) PROVE Kept
    <2>1. Remains(j, [j EXCEPT !.todo = @ \ {call}])
      BY DEF Remains, Job
    <2> QED BY <1>0, <1>3, <2>1 DEF Did, Become
  <1>4. ASSUME NEW j \in jobs, FailJob(j) PROVE Kept
    <2>1. PICK call : jobs' =
            LET left == {[j EXCEPT !.todo = @ \ {call}]}
                on == (jobs \ {j}) \cup IF Cardinality(j.todo) = 2 THEN left ELSE {}
            IN  {IF k.w = j.w /\ j.awaited THEN [k EXCEPT !.awaited = FALSE]
                 ELSE k : k \in on}
      BY <1>4 DEF FailJob
    <2> DEFINE left == [j EXCEPT !.todo = @ \ {call}]
    <2>2. left \in Job /\ Remains(j, left)
      BY DEF Remains, Job
    <2>3. \A k \in Job : Remains(k, [k EXCEPT !.awaited = FALSE]) /\ Remains(k, k)
      BY DEF Remains, Job
    <2>4. \A k \in jobs' : \E i \in jobs \cup {left} :
            k = i \/ k = [i EXCEPT !.awaited = FALSE]
      BY <2>1
    <2> HIDE DEF left
    <2>5. ASSUME NEW k \in jobs' PROVE \E i \in jobs : Remains(i, k)
      <3>1. PICK i \in jobs \cup {left} : k = i \/ k = [i EXCEPT !.awaited = FALSE]
        BY <2>4, <2>5
      <3>2. Remains(i, k)
        BY <2>2, <2>3, <3>1
      <3> QED BY <2>2, <3>1, <3>2 DEF Remains
    <2> QED BY <2>5
  <1>5. ASSUME NEW w \in Worker, WorkerLoop(w) \/ FailLoop(w) \/ Crash(w) \/ ExpireIdset(w)
        PROVE  Claim(w) \/ jobs' \subseteq jobs
    BY <1>5 DEF WorkerLoop, Reclaim, EndRound, ScanConsumers, ListChecked, RecoverOrphan,
       ClearChecklist, FailLoop, Crash, ExpireIdset
  <1>6. ASSUME NEW j \in jobs, DropTask(j) \/ Purge(j) \/ Requeue(j) PROVE Kept
    <2>1. CASE DropTask(j)  BY <1>1, <2>1 DEF DropTask
    <2>2. CASE Purge(j)     BY <1>3, <2>2 DEF Purge
    <2>3. CASE Requeue(j)   BY <1>3, <2>3 DEF Requeue
    <2> QED BY <1>6, <2>1, <2>2, <2>3
  <1>7. ASSUME Tick \/ ExpireStream \/ (\E m \in Message : AddMessage(m)) \/ UNCHANGED vars
        PROVE  jobs' \subseteq jobs
    BY <1>7 DEF Tick, ExpireStream, AddMessage, vars
  <1> HIDE DEF Kept
  <1>8. CASE Kept
    BY <1>8 DEF Kept
  <1> QED BY <1>1, <1>2, <1>4, <1>5, <1>6, <1>7, <1>8 DEF Next, ProcessTask

\* k is what job i goes on with after the step that it takes itself.
Advances(i, k) ==
    \/ /\ CheckLengthOf(i)
       /\ k.pc = IF entries = {} THEN "drop" ELSE "read"
       /\ k.doc = i.doc /\ k.lastId = i.lastId /\ k.refs = i.refs /\ k.todo = i.todo
    \/ /\ ReadStream(i)
       /\ k.pc = "retrieve" /\ k.doc = Content(entries) /\ k.lastId = LastId(entries)
       /\ k.refs = i.refs /\ k.todo = i.todo
    \/ /\ RetrieveDoc(i) /\ ~ (i.doc \subseteq Stored)
       /\ k.pc = "persist" /\ k.doc = Stored \cup i.doc /\ k.lastId = i.lastId
       /\ k.refs = {row.ref : row \in rows} /\ k.todo = {}
    \/ /\ RetrieveDoc(i) /\ i.doc \subseteq Stored
       /\ k.pc = "finish" /\ k.doc = {} /\ k.lastId = i.lastId
       /\ k.refs = {} /\ k.todo = {"requeue"}
    \/ /\ PersistDoc(i)
       /\ k.pc = "finish" /\ k.doc = {} /\ k.lastId = i.lastId /\ k.refs = i.refs

LEMMA EveryJob ==
    ASSUME jobs \in SUBSET Job, [Next]_vars, NEW k \in jobs'
    PROVE  Begun(k) \/ \E i \in jobs : Remains(i, k) \/ Advances(i, k)
  <1> DEFINE Known == \E i \in jobs : Remains(i, k) \/ Advances(i, k)
  <1>1. ASSUME NEW j \in jobs, NEW next, Become(j, next), Advances(j, next) PROVE Known
    BY <1>1 DEF Become, Remains
  <1>2. ASSUME NEW j \in jobs, CheckLengthOf(j) PROVE Known
    <2> DEFINE next == [j EXCEPT !.pc = IF entries = {} THEN "drop" ELSE "read"]
    <2>1. Become(j, next)
      BY <1>2 DEF CheckLengthOf
    <2>2. Advances(j, next)
      BY <1>2 DEF Advances, Job
    <2> HIDE DEF next, Known
    <2> QED BY <1>1, <2>1, <2>2
  <1>3. ASSUME NEW j \in jobs, ReadStream(j) PROVE Known
    <2> DEFINE next == [j EXCEPT !.pc = "retrieve", !.doc = Content(entries),
                                 !.lastId = LastId(entries)]
    <2>1. Become(j, next)
      BY <1>3 DEF ReadStream
    <2>2. Advances(j, next)
      BY <1>3 DEF Advances, Job
    <2> HIDE DEF next, Known
    <2> QED BY <1>1, <2>1, <2>2
  <1>4. ASSUME NEW j \in jobs, RetrieveDoc(j) PROVE Known
    <2> DEFINE changed == ~ (j.doc \subseteq Stored)
               next == [j EXCEPT
                 !.pc = IF changed THEN "persist" ELSE "finish",
                 !.doc = IF changed THEN Stored \cup @ ELSE {},
                 !.refs = IF changed THEN {row.ref : row \in rows} ELSE {},
                 !.todo = IF changed THEN {} ELSE {"requeue"}]
    <2>1. Become(j, next)
      BY <1>4 DEF RetrieveDoc
    <2>2. /\ next.pc = IF changed THEN "persist" ELSE "finish"
          /\ next.doc = IF changed THEN Stored \cup j.doc ELSE {}
          /\ next.refs = IF changed THEN {row.ref : row \in rows} ELSE {}
          /\ next.todo = IF changed THEN {} ELSE {"requeue"}
          /\ next.lastId = j.lastId
      BY DEF Job
    <2> HIDE DEF next, Known
    <2>3. Advances(j, next)
      BY <1>4, <2>2 DEF Advances
    <2> QED BY <1>1, <2>1, <2>3
  <1>5. ASSUME NEW j \in jobs, PersistDoc(j) PROVE Known
    <2> DEFINE next == [j EXCEPT !.pc = "finish", !.doc = {},
                  !.todo = {"requeue"} \cup IF j.refs = {} THEN {} ELSE {"purge"}]
    <2>1. Become(j, next)
      BY <1>5 DEF PersistDoc
    <2>2. Advances(j, next)
      BY <1>5 DEF Advances, Job
    <2> HIDE DEF next, Known
    <2> QED BY <1>1, <2>1, <2>2
  <1> HIDE DEF Known
  <1>6. (\E i \in jobs : Remains(i, k)) => Known
    BY DEF Known
  <1>7. Begun(k) \/ Known
    BY <1>2, <1>3, <1>4, <1>5, <1>6, JobSteps
  <1> QED BY <1>7 DEF Known

-----------------------------------------------------------------------------
(* Types.                                                                  *)

\* What entries carry is a set of updates.
LEMMA ContentType ==
    ASSUME NEW es \in SUBSET Entry
    PROVE  Content(es) \in SUBSET Update
  BY DEF Content, Entry

LEMMA StoredType ==
    ASSUME TypeOK
    PROVE  Stored \in SUBSET Update
  BY DEF TypeOK, Stored

\* LastId names the last entry, because the last generated id is one's id.
LEMMA LastIdIsLastGen ==
    ASSUME TypeOK, StreamIsOrdered
    PROVE  /\ LastId(entries) \in RedisId
           /\ entries # {} => LastId(entries) = lastGen
           /\ ~ IsSmallerRedisId(lastGen, LastId(entries))
  <1>1. CASE entries = {}
    BY <1>1, ZeroIsLeast, IdOrder DEF LastId, TypeOK
  <1>2. CASE entries # {}
    <2> DEFINE IsLast(e) == \A f \in entries : ~ IsSmallerRedisId(e.id, f.id)
    <2>1. \A e \in entries : e.id \in RedisId
      BY DEF TypeOK
    <2>2. PICK g \in entries : g.id = lastGen
      BY <1>2 DEF StreamIsOrdered
    <2>3. IsLast(g)
      BY <2>2 DEF StreamIsOrdered
    <2>4. PICK l \in entries : l = (CHOOSE e \in entries : IsLast(e)) /\ IsLast(l)
      BY <2>3
    <2>5. ~ IsSmallerRedisId(l.id, lastGen) /\ ~ IsSmallerRedisId(lastGen, l.id)
      BY <2>2, <2>4 DEF StreamIsOrdered
    <2>6. l.id = lastGen
      BY <2>1, <2>5, IdOrder DEF TypeOK
    <2>7. LastId(entries) = l.id
      BY <1>2, <2>4 DEF LastId
    <2> QED BY <2>6, <2>7, IdOrder DEF TypeOK
  <1> QED BY <1>1, <1>2

\* There is always a ref that nobody knows.
LEMMA FreshRefIsFresh ==
    ASSUME IsFiniteSet(KnownRefs)
    PROVE  FreshRef \in Nat /\ FreshRef \notin KnownRefs
  <1> DEFINE n == Cardinality(KnownRefs)
  <1>1. n \in Nat
    BY FS_CardinalityType
  <1>2. IsFiniteSet(0 .. n) /\ Cardinality(0 .. n) = n + 1
    BY <1>1, FS_Interval
  <1>3. ~ (0 .. n \subseteq KnownRefs)
    <2> SUFFICES ASSUME 0 .. n \subseteq KnownRefs PROVE FALSE
      OBVIOUS
    <2>1. Cardinality(0 .. n) <= n
      BY FS_Subset
    <2> HIDE DEF n
    <2> QED BY <1>1, <1>2, <2>1
  <1>4. \E ref \in 0 .. n : ref \notin KnownRefs
    BY <1>3
  <1>5. FreshRef \in 0 .. n /\ FreshRef \notin KnownRefs
    BY <1>4 DEF FreshRef
  <1> QED BY <1>1, <1>5

\* What may be replaced in a job.
LEMMA JobUpdates ==
    ASSUME NEW j \in Job, NEW doc \in SUBSET Update, NEW id \in RedisId,
           NEW refs \in SUBSET Nat, NEW todo \in SUBSET {"purge", "requeue"}
    PROVE  /\ j.w \in Worker
           /\ [j EXCEPT !.pc = "retrieve", !.doc = doc, !.lastId = id] \in Job
           /\ [j EXCEPT !.pc = "persist", !.doc = doc, !.refs = refs, !.todo = todo] \in Job
           /\ [j EXCEPT !.pc = "finish", !.doc = doc, !.refs = refs, !.todo = todo] \in Job
           /\ [j EXCEPT !.pc = "finish", !.doc = doc, !.todo = todo] \in Job
  BY DEF Job

\* A task's job keeps to its type, whichever step it takes.
LEMMA JobTypeStep ==
    ASSUME TypeOK, StreamIsOrdered, [Next]_vars
    PROVE  jobs' \in SUBSET Job
  <1> USE DEF TypeOK
  <1>1. Content(entries) \in SUBSET Update /\ LastId(entries) \in RedisId
          /\ Stored \in SUBSET Update
    BY ContentType, StoredType, LastIdIsLastGen DEF Entry
  <1>2. ASSUME NEW j \in jobs, ProcessTask(j) PROVE jobs' \in SUBSET Job
    <2>1. CASE CheckLengthOf(j)
      <3> DEFINE next == [j EXCEPT !.pc = IF entries = {} THEN "drop" ELSE "read"]
      <3>1. next \in Job  BY DEF Job
      <3> QED BY <2>1, <3>1 DEF CheckLengthOf, Become
    <2>2. CASE DropTask(j)  BY <2>2 DEF DropTask
    <2>3. CASE ReadStream(j)
      <3> DEFINE doc == Content(entries)
                 id == LastId(entries)
      <3>1. jobs' = (jobs \ {j}) \cup
                    {[j EXCEPT !.pc = "retrieve", !.doc = doc, !.lastId = id]}
        BY <2>3 DEF ReadStream, Become
      <3>2. j \in Job /\ doc \in SUBSET Update /\ id \in RedisId
        BY <1>1
      <3> HIDE DEF doc, id
      <3>3. [j EXCEPT !.pc = "retrieve", !.doc = doc, !.lastId = id] \in Job
        BY <3>2, JobUpdates
      <3> QED BY <3>1, <3>3
    <2>4. CASE RetrieveDoc(j)
      <3> DEFINE changed == ~ (j.doc \subseteq Stored)
                 next == [j EXCEPT
                   !.pc = IF changed THEN "persist" ELSE "finish",
                   !.doc = IF changed THEN Stored \cup @ ELSE {},
                   !.refs = IF changed THEN {row.ref : row \in rows} ELSE {},
                   !.todo = IF changed THEN {} ELSE {"requeue"}]
      <3>1. {row.ref : row \in rows} \in SUBSET Nat
        OBVIOUS
      <3>2. j \in Job /\ Stored \cup j.doc \in SUBSET Update
        BY <1>1 DEF Job
      <3> HIDE DEF changed
      <3>3. next \in Job
        <4>1. CASE changed  BY <3>1, <3>2, <4>1 DEF Job
        <4>2. CASE ~ changed  BY <3>2, <4>2 DEF Job
        <4> QED BY <4>1, <4>2
      <3>4. jobs' = (jobs \ {j}) \cup {next}
        BY <2>4 DEF RetrieveDoc, Become, changed
      <3> QED BY <3>3, <3>4
    <2>5. CASE PersistDoc(j)
      <3> DEFINE todo == {"requeue"} \cup IF j.refs = {} THEN {} ELSE {"purge"}
      <3>1. todo \in SUBSET {"purge", "requeue"} /\ {} \in SUBSET Update /\ j \in Job
        OBVIOUS
      <3>3. jobs' = (jobs \ {j}) \cup {[j EXCEPT !.pc = "finish", !.doc = {}, !.todo = todo]}
        BY <2>5 DEF PersistDoc, Become
      <3> HIDE DEF todo
      <3>2. [j EXCEPT !.pc = "finish", !.doc = {}, !.todo = todo] \in Job
        BY <3>1, JobUpdates
      <3> QED BY <3>2, <3>3
    <2>6. ASSUME NEW call, Did(j, call) PROVE jobs' \in SUBSET Job
      <3>1. [j EXCEPT !.todo = @ \ {call}] \in Job  BY DEF Job
      <3> QED BY <2>6, <3>1 DEF Did, Become
    <2> QED BY <1>2, <2>1, <2>2, <2>3, <2>4, <2>5, <2>6 DEF ProcessTask, Purge, Requeue
  <1>3. ASSUME NEW j \in jobs, FailJob(j) PROVE jobs' \in SUBSET Job
    <2>1. PICK call : jobs' =
            LET left == {[j EXCEPT !.todo = @ \ {call}]}
                on == (jobs \ {j}) \cup IF Cardinality(j.todo) = 2 THEN left ELSE {}
            IN  {IF k.w = j.w /\ j.awaited THEN [k EXCEPT !.awaited = FALSE]
                 ELSE k : k \in on}
      BY <1>3 DEF FailJob
    <2> DEFINE left == [j EXCEPT !.todo = @ \ {call}]
    <2>2. left \in Job
      BY DEF Job
    <2>3. \A k \in Job : [k EXCEPT !.awaited = FALSE] \in Job
      BY DEF Job
    <2>4. \A k \in jobs' : \E i \in jobs \cup {left} :
            k = i \/ k = [i EXCEPT !.awaited = FALSE]
      BY <2>1
    <2> HIDE DEF left
    <2> QED BY <2>2, <2>3, <2>4
  <1>4. ASSUME NEW w \in Worker, Claim(w) PROVE jobs' \in SUBSET Job
    <2>1. \A id \in TaskId : NewJob(w, id) \in Job
      BY ZeroIsLeast DEF NewJob, Job
    <2>2. taken[w] \cup Undelivered \subseteq TaskId
      BY DEF Undelivered
    <2> QED BY <1>4, <2>1, <2>2 DEF Claim
  <1>5. ASSUME NEW w \in Worker, WorkerLoop(w) \/ FailLoop(w) \/ Crash(w) \/ ExpireIdset(w)
        PROVE  Claim(w) \/ jobs' \subseteq jobs
    BY <1>5 DEF WorkerLoop, Reclaim, EndRound, ScanConsumers, ListChecked, RecoverOrphan,
       ClearChecklist, FailLoop, Crash, ExpireIdset
  <1>6. ASSUME Tick \/ ExpireStream \/ (\E m \in Message : AddMessage(m)) \/ UNCHANGED vars
        PROVE  jobs' \subseteq jobs
    BY <1>6 DEF Tick, ExpireStream, AddMessage, vars
  <1> QED BY <1>2, <1>3, <1>4, <1>5, <1>6 DEF Next

LEMMA TypeStep ==
    ASSUME TypeOK, StreamIsOrdered, IsFiniteSet(KnownRefs), [Next]_vars
    PROVE  TypeOK'
  <1> USE DEF TypeOK, streamVars, loopVars, ghostVars
  <1>0. jobs' \in SUBSET Job
    BY JobTypeStep
  <1>1. CASE UNCHANGED vars
    BY <1>1 DEF vars
  <1>2. CASE Tick
    BY <1>2 DEF Tick
  <1> DEFINE Tasks == [id : TaskId, owner : Worker \cup {None}]
  <1>3. \A id \in TaskId : Queued(id) \in Tasks
    BY DEF Queued
  <1>4. ASSUME NEW w \in Worker, NEW ids PROVE DeliverTo(w, ids) \in SUBSET Tasks
    <2>1. \A t \in Tasks : [t EXCEPT !.owner = w] \in Tasks
      OBVIOUS
    <2> QED BY <2>1 DEF DeliverTo
  <1>5. Overdue \subseteq TaskId
    BY DEF Overdue
  <1>6. ASSUME NEW m \in Message, AddMessage(m) PROVE TypeOK'
    <2>1. NextId(lastGen, now) \in RedisId /\ m \in SUBSET Update
      BY NextIdIsLater
    <2>2. deadline' \in Nat /\ raced' \in BOOLEAN
      BY <1>6 DEF AddMessage
    <2>3. tasks' \in SUBSET Tasks /\ checklist' \in BOOLEAN
      BY <1>3, <1>6 DEF AddMessage, QueueOrCheck
    <2>4. entries' \in SUBSET [id : RedisId, m : SUBSET Update]
      BY <1>6, <2>1 DEF AddMessage
    <2> QED BY <1>0, <1>6, <2>1, <2>2, <2>3, <2>4 DEF AddMessage
  <1>7. CASE ExpireStream
    <2>1. Content(entries) \in SUBSET Update
      BY ContentType DEF Entry
    <2> QED BY <1>0, <1>7, <2>1, ZeroIsLeast DEF ExpireStream
  <1>8. ASSUME NEW w \in Worker, WorkerLoop(w) PROVE TypeOK'
    <2> USE DEF Goto
    <2>1. CASE Reclaim(w)         BY <1>0, <1>4, <1>5, <2>1 DEF Reclaim
    <2>2. CASE Claim(w)           BY <1>0, <1>4, <2>2 DEF Claim
    <2>3. CASE EndRound(w)        BY <1>0, <2>3 DEF EndRound
    <2>4. CASE ScanConsumers(w)   BY <1>0, <2>4 DEF ScanConsumers
    <2>5. CASE ListChecked(w)     BY <1>0, <2>5 DEF ListChecked
    <2>6. CASE RecoverOrphan(w)   BY <1>0, <1>3, <2>6 DEF RecoverOrphan
    <2>7. CASE ClearChecklist(w)  BY <1>0, <2>7 DEF ClearChecklist
    <2> QED BY <1>8, <2>1, <2>2, <2>3, <2>4, <2>5, <2>6, <2>7 DEF WorkerLoop
  <1>9. ASSUME NEW w \in Worker, FailLoop(w) \/ Crash(w) \/ ExpireIdset(w) PROVE TypeOK'
    <2>1. CASE FailLoop(w)     BY <1>0, <1>4, <2>1 DEF FailLoop, Goto
    <2>2. CASE Crash(w)        BY <1>0, <2>2 DEF Crash
    <2>3. CASE ExpireIdset(w)  BY <1>0, <2>3 DEF ExpireIdset
    <2> QED BY <1>9, <2>1, <2>2, <2>3
  <1>10. ASSUME NEW j \in jobs, ProcessTask(j) PROVE TypeOK'
    <2>0. j.w \in Worker
      BY DEF Job
    <2>1. CASE CheckLengthOf(j)  BY <1>0, <2>1 DEF CheckLengthOf
    <2>2. CASE DropTask(j)
      <3>1. exists' \in BOOLEAN /\ lastGen' \in RedisId /\ deadline' \in Nat
        <4>1. CASE entries = {}
          <5>1. exists' = FALSE /\ lastGen' = Zero /\ deadline' = 0
            BY <2>2, <4>1 DEF DropTask
          <5> QED BY <5>1, ZeroIsLeast
        <4>2. CASE entries # {}
          BY <2>2, <4>2 DEF DropTask
        <4> QED BY <4>1, <4>2
      <3>2. tasks' \subseteq tasks /\ idset' \in [Worker -> BOOLEAN]
        BY <2>0, <2>2 DEF DropTask, Without
      <3> QED BY <1>0, <2>2, <3>1, <3>2 DEF DropTask
    <2>3. CASE ReadStream(j)     BY <1>0, <2>3 DEF ReadStream
    <2>4. CASE RetrieveDoc(j)    BY <1>0, <2>4 DEF RetrieveDoc
    <2>5. CASE PersistDoc(j)
      <3>1. [ref |-> FreshRef, doc |-> j.doc] \in [ref : Nat, doc : SUBSET Update]
        BY FreshRefIsFresh DEF Job
      <3> QED BY <1>0, <2>5, <3>1 DEF PersistDoc
    <2>6. CASE Purge(j)          BY <1>0, <2>6 DEF Purge
    <2>7. CASE Requeue(j)
      <3>1. entries' \subseteq entries
        BY <2>7, TrimRemoves DEF Requeue
      <3>2. tasks' \in SUBSET Tasks
        BY <1>3, <2>7 DEF Requeue, Without
      <3> QED BY <1>0, <2>0, <2>7, <3>1, <3>2 DEF Requeue
    <2> QED BY <1>10, <2>1, <2>2, <2>3, <2>4, <2>5, <2>6, <2>7 DEF ProcessTask
  <1>11. ASSUME NEW j \in jobs, FailJob(j) PROVE TypeOK'
    <2>1. loop' \in [Worker -> {"reclaim", "claim", "tasks", "scan", "list", "recover", "clear"}]
      BY <1>11 DEF FailJob
    <2>2. failures' \in Nat
      BY <1>11 DEF FailJob
    <2> QED BY <1>0, <1>11, <2>1, <2>2 DEF FailJob
  <1> QED BY <1>1, <1>2, <1>6, <1>7, <1>8, <1>9, <1>10, <1>11 DEF Next

\* Refs come from rows: only a save makes one.
LEMMA RefsStep ==
    ASSUME TypeOK, IsFiniteSet(KnownRefs), [Next]_vars
    PROVE  IsFiniteSet(KnownRefs)'
  <1>0. jobs \in SUBSET Job
    BY DEF TypeOK
  <1>1. \A row \in rows' : row.ref \in KnownRefs \cup {FreshRef}
    <2>1. \A row \in rows : row.ref \in KnownRefs
      BY DEF KnownRefs
    <2>2. \A row \in rows' : row \in rows \/ row.ref = FreshRef
      <3>1. ASSUME NEW j \in jobs, PersistDoc(j)
            PROVE  \A row \in rows' : row \in rows \/ row.ref = FreshRef
        <4> DEFINE ref == FreshRef
        <4>1. rows' = rows \cup {[ref |-> ref, doc |-> j.doc]}
          BY <3>1 DEF PersistDoc
        <4> HIDE DEF ref
        <4>2. \A row \in rows' : row \in rows \/ row.ref = ref
          BY <4>1
        <4> QED BY <4>2 DEF ref
      <3>2. ASSUME NEW j \in jobs, Purge(j) PROVE rows' \subseteq rows
        BY <3>2 DEF Purge
      <3> QED BY <3>1, <3>2, RowSteps
    <2> QED BY <2>1, <2>2
  <1>2. ASSUME NEW k \in jobs' PROVE k.refs \subseteq KnownRefs
    <2>1. /\ \A j \in jobs : j.refs \subseteq KnownRefs
          /\ {row.ref : row \in rows} \subseteq KnownRefs
      BY DEF KnownRefs
    <2>2. \/ k.refs = {} \/ k.refs = {row.ref : row \in rows}
          \/ \E j \in jobs : k.refs = j.refs
      BY <1>0, EveryJob DEF Begun, Remains, Advances
    <2> QED BY <2>1, <2>2
  <1>3. KnownRefs' \subseteq KnownRefs \cup {FreshRef}
    BY <1>1, <1>2 DEF KnownRefs
  <1>4. IsFiniteSet(KnownRefs \cup {FreshRef})
    BY FS_AddElement
  <1> QED BY <1>3, <1>4, FS_Subset

-----------------------------------------------------------------------------
(* The stream.                                                             *)

LEMMA StreamStep ==
    ASSUME TypeOK, StreamIsOrdered, [Next]_vars
    PROVE  StreamIsOrdered'
  <1> USE DEF StreamIsOrdered
  <1>0. /\ lastGen \in RedisId /\ now \in Nat /\ deadline \in Nat
        /\ \A e \in entries : e.id \in RedisId
    BY DEF TypeOK
  <1>1. ASSUME NEW m \in Message, AddMessage(m) PROVE StreamIsOrdered'
    <2> DEFINE id == NextId(lastGen, now)
               new == [id |-> id, m |-> m]
    <2>1. id \in RedisId /\ IsSmallerRedisId(lastGen, id) /\ id.ms <= now
      BY <1>0, <1>1, NextIdIsLater DEF AddMessage
    <2>2. /\ lastGen' = id /\ entries' = entries \cup {new} /\ new.id = id
          /\ now' = now /\ deadline' = now + TTL /\ exists'
      BY <1>1 DEF AddMessage
    <2>3. id.ms \in Nat
      BY <2>1 DEF RedisId
    <2> HIDE DEF id, new
    <2>4. \A e \in entries' : ~ IsSmallerRedisId(id, e.id)
      BY <1>0, <2>1, <2>2, IdOrder
    <2>5. now' >= 1 /\ lastGen'.ms <= now' /\ lastGen'.ms + TTL <= deadline'
      BY <1>0, <2>1, <2>2, <2>3
    <2> QED BY <2>2, <2>4, <2>5
  <1>2. CASE ExpireStream
    <2>1. now' = now /\ lastGen' = Zero /\ entries' = {} /\ ~ exists'
      BY <1>2 DEF ExpireStream
    <2> QED BY <1>0, <2>1 DEF Zero
  <1>3. ASSUME NEW j \in jobs, DropTask(j) PROVE StreamIsOrdered'
    <2>1. CASE entries = {}
      <3>1. now' = now /\ lastGen' = Zero /\ entries' = {} /\ ~ exists'
        BY <1>3, <2>1 DEF DropTask
      <3> QED BY <1>0, <3>1 DEF Zero
    <2>2. CASE entries # {}
      BY <1>3, <2>2 DEF DropTask
    <2> QED BY <2>1, <2>2
  <1>4. ASSUME NEW j \in jobs, Requeue(j) PROVE StreamIsOrdered'
    <2>1. /\ entries' = TrimRoomStream(entries, j.lastId, now)
          /\ UNCHANGED <<now, lastGen, deadline, exists>>
          /\ j.lastId \in RedisId
      BY <1>4 DEF Requeue, TypeOK, Job
    <2>2. entries' \subseteq entries
      BY <2>1, TrimRemoves
    <2>3. ASSUME NEW e \in entries' PROVE \E f \in entries' : f.id = lastGen
      <3>1. PICK f \in entries : f.id = lastGen
        BY <2>2
      <3>2. ~ IsSmallerRedisId(f.id, e.id)
        BY <2>2, <3>1
      <3>3. f \in entries'
        BY <1>0, <2>1, <3>2, TrimKeepsSuffix
      <3> QED BY <3>1, <3>3
    <2>4. CASE entries' = {} /\ entries # {}
      <3>1. PICK f \in entries : f.id = lastGen
        BY <2>4
      <3>2. f \in entries \ TrimRoomStream(entries, j.lastId, now)
        BY <2>1, <2>4, <3>1
      <3>3. now > lastGen.ms + MinLifetime
        BY <1>0, <2>1, <3>1, <3>2, TrimIsBounded
      <3>4. now > lastGen.ms
        BY <1>0, <3>3 DEF RedisId
      <3> QED BY <2>1, <2>2, <2>4, <3>4
    <2> QED BY <2>1, <2>2, <2>3, <2>4
  <1>5. CASE UNCHANGED streamVars /\ (Tick \/ now' = now)
    BY <1>0, <1>5 DEF streamVars, Tick, RedisId
  <1> QED BY <1>1, <1>2, <1>3, <1>4, <1>5, StreamSteps

\* A position that has been passed stays passed, and a new entry is above it,
\* also when the stream was dropped or expired in between.
LEMMA PassedStep ==
    ASSUME TypeOK, StreamIsOrdered, [Next]_vars, NEW id \in RedisId, Passed(id)
    PROVE  /\ Passed(id)'
           /\ \A e \in entries' \ entries : IsSmallerRedisId(id, e.id)
  <1>0. lastGen \in RedisId /\ now \in Nat /\ deadline \in Nat
    BY DEF TypeOK
  <1>1. ASSUME NEW m \in Message, AddMessage(m)
        PROVE  Passed(id)' /\ \A e \in entries' \ entries : IsSmallerRedisId(id, e.id)
    <2> DEFINE new == NextId(lastGen, now)
    <2>1. new \in RedisId /\ IsSmallerRedisId(lastGen, new) /\ now <= new.ms
      BY <1>0, NextIdIsLater
    <2>2. lastGen' = new /\ \A e \in entries' \ entries : e.id = new
      BY <1>1 DEF AddMessage
    <2> HIDE DEF new
    <2>3. IsSmallerRedisId(id, new)
      <3>1. CASE ~ IsSmallerRedisId(lastGen, id)
        BY <1>0, <2>1, <3>1, IdOrder
      <3>2. CASE id.ms < now
        BY <1>0, <2>1, <3>2 DEF IsSmallerRedisId, RedisId
      <3> QED BY <3>1, <3>2 DEF Passed
    <2> QED BY <2>1, <2>2, <2>3, IdOrder DEF Passed
  \* The stream begins anew, and the clock has moved on since its last entry.
  <1>2. ASSUME lastGen.ms < now, lastGen' = Zero, now' = now, entries' = {}
        PROVE  Passed(id)' /\ \A e \in entries' \ entries : IsSmallerRedisId(id, e.id)
    <2>1. id.ms < now
      BY <1>0, <1>2 DEF Passed, IsSmallerRedisId, RedisId
    <2> QED BY <1>2, <2>1 DEF Passed
  <1>3. CASE ExpireStream
    <2>1. lastGen' = Zero /\ now' = now /\ entries' = {}
      BY <1>3 DEF ExpireStream
    <2>2. lastGen.ms < now
      BY <1>0, <1>3 DEF ExpireStream, StreamIsOrdered, RedisId
    <2> QED BY <1>2, <2>1, <2>2
  <1>4. ASSUME NEW j \in jobs, DropTask(j)
        PROVE  Passed(id)' /\ \A e \in entries' \ entries : IsSmallerRedisId(id, e.id)
    <2>1. CASE entries = {}
      <3>1. lastGen' = Zero /\ now' = now /\ entries' = {}
        BY <1>4, <2>1 DEF DropTask
      <3>2. lastGen.ms < now
        BY <2>1 DEF StreamIsOrdered
      <3> QED BY <1>2, <3>1, <3>2
    <2>2. CASE entries # {}
      BY <1>4, <2>2 DEF DropTask, Passed
    <2> QED BY <2>1, <2>2
  <1>5. ASSUME NEW j \in jobs, Requeue(j)
        PROVE  Passed(id)' /\ \A e \in entries' \ entries : IsSmallerRedisId(id, e.id)
    BY <1>5, TrimRemoves DEF Requeue, Passed
  <1>6. CASE UNCHANGED streamVars /\ (Tick \/ now' = now)
    BY <1>0, <1>6 DEF streamVars, Tick, Passed, RedisId
  <1> QED BY <1>1, <1>3, <1>4, <1>5, <1>6, StreamSteps

-----------------------------------------------------------------------------
(* The rows.                                                               *)

\* The rows whose deletion is not under way.
Spared == {row \in rows : row.ref \notin Doomed}

LEMMA DoomedStep ==
    ASSUME jobs \in SUBSET Job, [Next]_vars
    PROVE  \A ref \in Doomed' : ref \in Doomed \/ \E j \in jobs : PersistDoc(j) /\ ref \in j.refs
  <1> SUFFICES ASSUME NEW k \in jobs', "purge" \in k.todo, NEW ref \in k.refs
               PROVE  ref \in Doomed \/ \E j \in jobs : PersistDoc(j) /\ ref \in j.refs
    BY DEF Doomed
  <1>1. PICK i \in jobs : Remains(i, k) \/ Advances(i, k)
    BY EveryJob DEF Begun
  <1>2. ref \in i.refs /\ ("purge" \in i.todo \/ PersistDoc(i))
    BY <1>1 DEF Remains, Advances
  <1> QED BY <1>2 DEF Doomed

\* Only one job saves in a step, and it adds a row that is its own.
LEMMA NewRow ==
    ASSUME jobs \in SUBSET Job, [Next]_vars, IsFiniteSet(KnownRefs),
           NEW j \in jobs, PersistDoc(j)
    PROVE  /\ \A i \in jobs : PersistDoc(i) => i = j
           /\ \E new : rows' = rows \cup {new} /\ new.doc = j.doc /\ new.ref \notin KnownRefs
  <1>1. ASSUME NEW i \in jobs, PersistDoc(i) PROVE i = j
    <2> DEFINE saved(k) == [k EXCEPT !.pc = "finish", !.doc = {},
                      !.todo = {"requeue"} \cup IF k.refs = {} THEN {} ELSE {"purge"}]
    <2>1. saved(j).pc = "finish"
      BY DEF Job
    <2>2. j.pc = "persist" /\ jobs' = (jobs \ {j}) \cup {saved(j)}
      BY DEF PersistDoc, Become
    <2>3. jobs' = (jobs \ {i}) \cup {saved(i)}
      BY <1>1 DEF PersistDoc, Become
    <2> HIDE DEF saved
    <2>4. j \notin jobs'
      BY <2>1, <2>2
    <2> QED BY <2>3, <2>4
  <1>2. \E new : rows' = rows \cup {new} /\ new.doc = j.doc /\ new.ref \notin KnownRefs
    <2> DEFINE ref == FreshRef
               new == [ref |-> ref, doc |-> j.doc]
    <2>1. rows' = rows \cup {new}
      BY DEF PersistDoc
    <2>2. ref \notin KnownRefs
      BY FreshRefIsFresh
    <2> HIDE DEF ref
    <2>3. new.ref = ref /\ new.doc = j.doc
      OBVIOUS
    <2> HIDE DEF new
    <2> QED BY <2>1, <2>2, <2>3
  <1> QED BY <1>1, <1>2

\* What is deleted is in rows that stay.
LEMMA SparedStep ==
    ASSUME TypeOK, IsFiniteSet(KnownRefs), PurgesAreCovered, [Next]_vars
    PROVE  /\ Stored \subseteq UNION {row.doc : row \in Spared'}
           /\ \A j \in jobs : PersistDoc(j) => j.doc \subseteq UNION {row.doc : row \in Spared'}
           /\ \A row \in rows' : \/ row.doc \subseteq Stored
                                 \/ \E j \in jobs : PersistDoc(j) /\ row.doc = j.doc
  <1> DEFINE Kept == UNION {row.doc : row \in Spared'}
  <1>0. jobs \in SUBSET Job
    BY DEF TypeOK
  <1>1. Stored \subseteq UNION {row.doc : row \in Spared}
    BY DEF PurgesAreCovered, Spared
  <1>2. \A row \in rows : row.doc \subseteq Stored
    BY DEF Stored
  <1>3. ASSUME NEW j \in jobs, PersistDoc(j)
        PROVE  /\ Stored \subseteq Kept
               /\ j.doc \subseteq Kept
               /\ \A row \in rows' : row.doc \subseteq Stored \/ row.doc = j.doc
               /\ \A i \in jobs : PersistDoc(i) => i = j
    <2>1. PICK new : rows' = rows \cup {new} /\ new.doc = j.doc /\ new.ref \notin KnownRefs
      BY <1>0, <1>3, NewRow
    <2>2. \A i \in jobs : PersistDoc(i) => i = j
      BY <1>0, <1>3, NewRow
    <2>3. \A ref \in Doomed' : ref \in Doomed \cup j.refs
      BY <1>0, <2>2, DoomedStep
    <2>4. Doomed \cup j.refs \subseteq KnownRefs
      BY DEF Doomed, KnownRefs
    <2>5. new \in Spared'
      BY <2>1, <2>3, <2>4 DEF Spared
    <2>6. ASSUME NEW row \in Spared PROVE row.doc \subseteq Kept
      <3>1. CASE row.ref \in j.refs
        <4>1. row.doc \subseteq new.doc
          BY <1>3, <2>1, <3>1 DEF Spared, PurgesAreCovered, PersistDoc
        <4> QED BY <2>5, <4>1
      <3>2. CASE row.ref \notin j.refs
        <4>1. row \in Spared'
          BY <2>1, <2>3, <3>2 DEF Spared
        <4> QED BY <4>1
      <3> QED BY <3>1, <3>2
    <2>7. Stored \subseteq Kept
      BY <1>1, <2>6
    <2>8. j.doc \subseteq Kept
      BY <2>1, <2>5
    <2> QED BY <1>2, <2>1, <2>2, <2>7, <2>8
  <1>4. CASE ~ \E j \in jobs : PersistDoc(j)
    <2>1. \A row \in Spared : row \in rows'
      <3>1. ASSUME NEW j \in jobs, Purge(j) PROVE \A row \in Spared : row \in rows'
        BY <3>1 DEF Purge, Spared, Doomed
      <3> QED BY <1>4, <3>1, RowSteps DEF Spared
    <2>2. rows' \subseteq rows
      BY <1>4, RowSteps DEF Purge
    <2>3. Doomed' \subseteq Doomed
      BY <1>0, <1>4, DoomedStep
    <2>4. Spared \subseteq Spared'
      BY <2>1, <2>3 DEF Spared
    <2>5. Stored \subseteq Kept
      BY <1>1, <2>4
    <2> QED BY <1>2, <1>4, <2>2, <2>5
  <1> HIDE DEF Kept
  <1>5. CASE \E j \in jobs : PersistDoc(j)
    BY <1>3, <1>5 DEF Kept
  <1> QED BY <1>4, <1>5 DEF Kept

\* How a step changes what storage holds: it never loses anything.
LEMMA StoredStep ==
    ASSUME TypeOK, IsFiniteSet(KnownRefs), PurgesAreCovered, [Next]_vars
    PROVE  \/ \E j \in jobs : PersistDoc(j) /\ Stored' = Stored \cup j.doc
           \/ Stored' = Stored /\ ~ \E j \in jobs : PersistDoc(j)
  <1>0. jobs \in SUBSET Job
    BY DEF TypeOK
  <1> DEFINE Kept == UNION {row.doc : row \in Spared'}
  <1>1. /\ Stored \subseteq Kept
        /\ \A j \in jobs : PersistDoc(j) => j.doc \subseteq Kept
        /\ \A row \in rows' : \/ row.doc \subseteq Stored
                              \/ \E j \in jobs : PersistDoc(j) /\ row.doc = j.doc
    BY SparedStep
  <1>2. Kept \subseteq Stored'
    BY DEF Spared, Stored
  <1>3. Stored' = UNION {row.doc : row \in rows'}
    BY DEF Stored
  <1> HIDE DEF Kept
  <1>4. ASSUME NEW j \in jobs, PersistDoc(j) PROVE Stored' = Stored \cup j.doc
    <2>1. \A i \in jobs : PersistDoc(i) => i = j
      BY <1>0, <1>4, NewRow
    <2>2. \A row \in rows' : row.doc \subseteq Stored \/ row.doc = j.doc
      BY <1>1, <2>1
    <2>3. Stored' \subseteq Stored \cup j.doc
      BY <1>3, <2>2
    <2> QED BY <1>1, <1>2, <1>4, <2>3
  <1>5. CASE ~ \E j \in jobs : PersistDoc(j)
    <2>1. Stored' \subseteq Stored
      BY <1>1, <1>3, <1>5
    <2> QED BY <1>1, <1>2, <1>5, <2>1
  <1> QED BY <1>4, <1>5

LEMMA PurgeStep ==
    ASSUME TypeOK, IsFiniteSet(KnownRefs), PurgesAreCovered, [Next]_vars
    PROVE  PurgesAreCovered'
  <1>0. jobs \in SUBSET Job
    BY DEF TypeOK
  <1>1. Stored' \subseteq UNION {row.doc : row \in Spared'}
    BY SparedStep, StoredStep
  <1>2. ASSUME NEW k \in jobs', NEW row \in rows', k.pc = "persist", row.ref \in k.refs
        PROVE  row.doc \subseteq k.doc
    <2>1. PICK i \in jobs : Remains(i, k) \/ Advances(i, k)
      BY <1>0, <1>2, EveryJob DEF Begun
    <2>2. CASE Remains(i, k)
      <3>1. row \in rows
        <4>1. row.ref \in KnownRefs
          BY <1>2, <2>2 DEF Remains, KnownRefs
        <4>2. ASSUME NEW j \in jobs, PersistDoc(j) PROVE row \in rows
          BY <1>0, <4>1, <4>2, NewRow
        <4> QED BY <4>2, RowSteps DEF Purge
      <3> QED BY <1>2, <2>2, <3>1 DEF Remains, PurgesAreCovered
    <2>3. CASE Advances(i, k)
      <3>1. RetrieveDoc(i) /\ k.doc = Stored \cup i.doc
        BY <1>2, <2>3 DEF Advances
      <3>2. row \in rows
        BY <3>1 DEF RetrieveDoc
      <3> QED BY <3>1, <3>2 DEF Stored
    <2> QED BY <2>1, <2>2, <2>3
  <1> QED BY <1>1, <1>2 DEF PurgesAreCovered, Spared

-----------------------------------------------------------------------------
(* What the jobs have read.                                                *)

\* The part of JobsCover about one job.
Covers(j) ==
    /\ Passed(j.lastId)
    /\ \A e \in entries : ~ IsSmallerRedisId(j.lastId, e.id) =>
         /\ j.pc \in {"retrieve", "persist"} => e.m \subseteq j.doc
         /\ j.pc = "finish" /\ "requeue" \in j.todo => e.m \subseteq Stored

LEMMA CoverStep ==
    ASSUME TypeOK, StreamIsOrdered, IsFiniteSet(KnownRefs), JobsCover, PurgesAreCovered,
           [Next]_vars
    PROVE  JobsCover'
  <1>0. /\ jobs \in SUBSET Job /\ lastGen \in RedisId
        /\ \A j \in jobs : j.lastId \in RedisId
        /\ \A e \in entries : e.id \in RedisId
    BY DEF TypeOK, Job
  <1> SUFFICES ASSUME NEW k \in jobs' PROVE Covers(k)'
    BY DEF JobsCover, Covers
  <1>1. \A j \in jobs : Covers(j)
    BY DEF JobsCover, Covers
  <1>2. Stored \subseteq Stored'
    BY StoredStep
  <1>3. ASSUME NEW i \in jobs, k.lastId = i.lastId
        PROVE  /\ Passed(k.lastId)'
               /\ \A e \in entries' \ entries : IsSmallerRedisId(k.lastId, e.id)
    <2>1. PICK id \in RedisId : id = i.lastId
      BY <1>0
    <2>2. Passed(id)
      BY <1>1, <2>1 DEF Covers
    <2>3. Passed(id)' /\ \A e \in entries' \ entries : IsSmallerRedisId(id, e.id)
      BY <2>2, PassedStep
    <2> QED BY <1>3, <2>1, <2>3
  <1>4. CASE Begun(k)
    <2>1. Passed(Zero)'
      <3>1. Passed(Zero)
        BY <1>0, ZeroIsLeast DEF Passed
      <3> QED BY <3>1, PassedStep, ZeroIsLeast
    <2> QED BY <1>4, <2>1 DEF Begun, Covers
  <1>5. ASSUME NEW i \in jobs, Remains(i, k) PROVE Covers(k)'
    BY <1>1, <1>2, <1>3, <1>5 DEF Remains, Covers
  <1>6. ASSUME NEW i \in jobs, Advances(i, k) PROVE Covers(k)'
    <2>0. entries' = entries /\ lastGen' = lastGen /\ now' = now
      BY <1>6 DEF Advances, CheckLengthOf, ReadStream, RetrieveDoc, PersistDoc, streamVars
    <2>1. CASE CheckLengthOf(i) /\ k.lastId = i.lastId /\ k.pc \in {"drop", "read"}
      BY <1>3, <2>1 DEF Covers
    <2>2. CASE k.pc = "retrieve" /\ k.doc = Content(entries) /\ k.lastId = LastId(entries)
      <3>1. Passed(k.lastId)'
        BY <2>0, <2>2, LastIdIsLastGen DEF Passed
      <3>2. \A e \in entries : e.m \subseteq k.doc
        BY <2>2 DEF Content
      <3> QED BY <2>0, <2>2, <3>1, <3>2 DEF Covers
    <2>3. CASE RetrieveDoc(i) /\ k.lastId = i.lastId
      <3>0. i.pc = "retrieve"
        BY <2>3 DEF RetrieveDoc
      <3>1. CASE k.pc = "persist" /\ i.doc \subseteq k.doc
        BY <1>1, <1>3, <2>0, <2>3, <3>0, <3>1 DEF Covers
      <3>2. CASE k.pc = "finish" /\ i.doc \subseteq Stored
        BY <1>1, <1>2, <1>3, <2>0, <2>3, <3>0, <3>2 DEF Covers
      <3> QED BY <1>6, <2>3, <3>0, <3>1, <3>2
              DEF Advances, CheckLengthOf, ReadStream, PersistDoc
    <2>4. CASE PersistDoc(i) /\ k.lastId = i.lastId /\ k.pc = "finish"
      <3>1. i.pc = "persist"
        BY <2>4 DEF PersistDoc
      <3>2. i.doc \subseteq Stored'
        <4>1. PICK j \in jobs : PersistDoc(j) /\ Stored' = Stored \cup j.doc
          BY <2>4, StoredStep
        <4>2. i = j
          BY <1>0, <2>4, <4>1, NewRow
        <4> QED BY <4>1, <4>2
      <3> QED BY <1>1, <1>3, <2>0, <2>4, <3>1, <3>2 DEF Covers
    <2> QED BY <1>6, <2>1, <2>2, <2>3, <2>4 DEF Advances
  <1> QED BY <1>0, <1>4, <1>5, <1>6, EveryJob

-----------------------------------------------------------------------------
(* The task of a stream.                                                   *)

LEMMA DropStep ==
    ASSUME TypeOK, DropsAreRaced, [Next]_vars
    PROVE  DropsAreRaced'
  <1>0. jobs \in SUBSET Job
    BY DEF TypeOK
  <1> SUFFICES ASSUME entries' # {}, NEW k \in jobs', k.pc = "drop" PROVE raced'
    BY DEF DropsAreRaced
  <1>1. PICK i \in jobs : Remains(i, k) \/ Advances(i, k)
    BY <1>0, EveryJob DEF Begun
  <1>2. raced => raced'
    BY DEF Next, vars, ghostVars, Tick, AddMessage, ExpireStream, WorkerLoop, Reclaim, Claim,
       EndRound, ScanConsumers, ListChecked, RecoverOrphan, ClearChecklist, FailLoop, Crash,
       ExpireIdset, ProcessTask, CheckLengthOf, DropTask, ReadStream, RetrieveDoc, PersistDoc,
       Purge, Requeue, FailJob
  <1>3. CASE Advances(i, k)
    <2>1. CheckLengthOf(i) /\ entries = {}
      BY <1>3 DEF Advances
    <2> QED BY <2>1 DEF CheckLengthOf, streamVars
  <1>4. CASE i.pc = "drop"
    <2>1. CASE entries # {}
      BY <1>2, <1>4, <2>1 DEF DropsAreRaced
    <2>2. CASE entries = {}
      <3>1. PICK m \in Message : AddMessage(m)
        BY <2>2, TrimRemoves, StreamSteps DEF ExpireStream, DropTask, Requeue, streamVars
      <3> QED BY <1>4, <3>1 DEF AddMessage
    <2> QED BY <2>1, <2>2
  <1> QED BY <1>1, <1>3, <1>4 DEF Remains

\* No step but the dropping MULTI leaves an existing stream without a task.
LEMMA QueueSteps ==
    ASSUME [Next]_vars
    PROVE  \/ \E j \in jobs : DropTask(j)
           \/ tasks' # {}
           \/ tasks = {} /\ (exists' => exists)
  <1> DEFINE Fine == tasks' # {} \/ (tasks = {} /\ (exists' => exists))
  <1>1. ASSUME NEW w, NEW ids PROVE tasks # {} => DeliverTo(w, ids) # {}
    BY DEF DeliverTo
  <1>2. ASSUME NEW m \in Message, AddMessage(m) PROVE Fine
    BY <1>2 DEF AddMessage, QueueOrCheck
  <1>3. ASSUME NEW j \in jobs, Requeue(j) PROVE Fine
    BY <1>3 DEF Requeue
  <1>4. ASSUME ExpireStream PROVE Fine
    BY <1>4 DEF ExpireStream
  <1>5. ASSUME UNCHANGED <<tasks, exists>> PROVE Fine
    BY <1>5
  <1>6. ASSUME NEW w \in Worker, WorkerLoop(w) \/ FailLoop(w) PROVE Fine
    BY <1>1, <1>6 DEF WorkerLoop, Reclaim, Claim, EndRound, ScanConsumers, ListChecked,
       RecoverOrphan, ClearChecklist, FailLoop, streamVars
  <1> HIDE DEF Fine
  <1>7. \/ UNCHANGED <<tasks, exists>> \/ ExpireStream
        \/ \E m \in Message : AddMessage(m)
        \/ \E w \in Worker : WorkerLoop(w) \/ FailLoop(w)
        \/ \E j \in jobs : DropTask(j) \/ Requeue(j)
    BY DEF Next, vars, streamVars, Tick, Crash, ExpireIdset,
       ProcessTask, CheckLengthOf, ReadStream, RetrieveDoc, PersistDoc, Purge, FailJob
  <1>8. (\E j \in jobs : DropTask(j)) \/ Fine
    BY <1>2, <1>3, <1>4, <1>5, <1>6, <1>7
  <1> QED BY <1>8 DEF Fine

LEMMA QueueStep ==
    ASSUME DropsAreRaced, StreamsAreQueued, [Next]_vars
    PROVE  StreamsAreQueued'
  <1> USE DEF StreamsAreQueued
  <1>1. raced => raced'
    BY DEF Next, vars, ghostVars, Tick, AddMessage, ExpireStream, WorkerLoop, Reclaim, Claim,
       EndRound, ScanConsumers, ListChecked, RecoverOrphan, ClearChecklist, FailLoop, Crash,
       ExpireIdset, ProcessTask, CheckLengthOf, DropTask, ReadStream, RetrieveDoc, PersistDoc,
       Purge, Requeue, FailJob
  <1>2. ASSUME NEW j \in jobs, DropTask(j) PROVE StreamsAreQueued'
    <2>1. CASE entries = {}
      BY <1>2, <2>1 DEF DropTask
    <2>2. CASE entries # {}
      BY <1>1, <1>2, <2>2 DEF DropTask, DropsAreRaced
    <2> QED BY <2>1, <2>2
  <1> QED BY <1>1, <1>2, QueueSteps

-----------------------------------------------------------------------------
(* What is readable.                                                       *)

\* A requeue trims only what is saved.
LEMMA TrimOfSaved ==
    ASSUME TypeOK, JobsCover, NEW j \in jobs, Requeue(j), NEW e \in entries \ entries'
    PROVE  e.m \subseteq Stored
  <1>1. /\ j.lastId \in RedisId /\ now \in Nat
        /\ \A f \in entries : f.id \in RedisId
    BY DEF TypeOK, Job
  <1>2. entries' = TrimRoomStream(entries, j.lastId, now)
    BY DEF Requeue
  <1>3. ~ IsSmallerRedisId(j.lastId, e.id)
    BY <1>1, <1>2, TrimIsBounded
  <1> QED BY <1>3 DEF JobsCover, Requeue

\* How each step changes what is readable: appends and saves add to it, the
\* expiry of the stream leaves what is stored, and nothing else shows, neither
\* trims nor the deletion of rows.
ReadableStep ==
    \/ \E m \in Message : AddMessage(m) /\ Readable' = Readable \cup m /\ Stored' = Stored
    \/ ExpireStream /\ Readable' = Stored /\ Stored' = Stored
    \/ /\ \E doc \in SUBSET accepted :
            Stored' = Stored \cup doc /\ Readable' = Readable \cup doc
       /\ accepted' = accepted /\ lapsed' = lapsed
    \/ accepted' = accepted /\ lapsed' = lapsed /\ Stored' = Stored /\ Readable' = Readable

LEMMA ReadableSteps ==
    ASSUME TypeOK, IsFiniteSet(KnownRefs), JobsCover, PurgesAreCovered, OnlyAccepted,
           [Next]_vars
    PROVE  ReadableStep
  <1> USE DEF ReadableStep
  <1>1. ASSUME NEW m \in Message, AddMessage(m) PROVE ReadableStep
    <2>1. PICK new : new.m = m /\ entries' = entries \cup {new}
      BY <1>1 DEF AddMessage
    <2>2. Content(entries)' = Content(entries) \cup m
      BY <2>1 DEF Content
    <2>3. Stored' = Stored
      BY <1>1 DEF AddMessage, Stored
    <2> QED BY <1>1, <2>2, <2>3 DEF Readable
  <1>2. CASE ExpireStream
    <2>1. entries' = {} /\ Stored' = Stored
      BY <1>2 DEF ExpireStream, Stored
    <2>2. Content(entries)' = {}
      BY <2>1 DEF Content
    <2> QED BY <1>2, <2>1, <2>2 DEF Readable
  <1>3. ASSUME NEW j \in jobs, PersistDoc(j), Stored' = Stored \cup j.doc PROVE ReadableStep
    <2>1. entries' = entries /\ accepted' = accepted /\ lapsed' = lapsed
      BY <1>3 DEF PersistDoc, streamVars, ghostVars
    <2>2. Readable' = Readable \cup j.doc
      BY <1>3, <2>1 DEF Readable, Content
    <2>3. j.doc \in SUBSET accepted
      BY DEF OnlyAccepted
    <2> QED BY <1>3, <2>1, <2>2, <2>3
  <1>4. ASSUME NEW j \in jobs, Requeue(j), Stored' = Stored PROVE ReadableStep
    <2>1. entries' \subseteq entries
      BY <1>4, TrimRemoves DEF Requeue
    <2>2. \A e \in entries \ entries' : e.m \subseteq Stored
      BY <1>4, TrimOfSaved
    <2>3. Content(entries) \subseteq Content(entries)' \cup Stored
      BY <2>2 DEF Content
    <2>4. Content(entries)' \subseteq Content(entries)
      BY <2>1 DEF Content
    <2>5. accepted' = accepted /\ lapsed' = lapsed
      BY <1>4 DEF Requeue, ghostVars
    <2> QED BY <1>4, <2>3, <2>4, <2>5 DEF Readable
  <1>5. CASE entries' = entries /\ accepted' = accepted /\ lapsed' = lapsed /\ Stored' = Stored
    BY <1>5 DEF Readable, Content
  <1>6. \/ \E m \in Message : AddMessage(m)
        \/ ExpireStream
        \/ \E j \in jobs : Requeue(j)
        \/ entries' = entries /\ accepted' = accepted /\ lapsed' = lapsed
    BY ZenonT(30) DEF Next, vars, ghostVars, streamVars, Tick, WorkerLoop, Reclaim, Claim,
       EndRound, ScanConsumers, ListChecked, RecoverOrphan, ClearChecklist, FailLoop, Crash,
       ExpireIdset, ProcessTask, CheckLengthOf, DropTask, ReadStream, RetrieveDoc, PersistDoc,
       Purge, FailJob
  <1> HIDE DEF ReadableStep
  <1>7. CASE \E j \in jobs : PersistDoc(j)
    BY <1>3, <1>7, StoredStep
  <1>8. CASE ~ \E j \in jobs : PersistDoc(j)
    BY <1>1, <1>2, <1>4, <1>5, <1>6, <1>8, StoredStep
  <1> QED BY <1>7, <1>8

LEMMA AcceptedStep ==
    ASSUME TypeOK, IsFiniteSet(KnownRefs), JobsCover, PurgesAreCovered, OnlyAccepted,
           NoLostUpdate, [Next]_vars
    PROVE  /\ accepted \subseteq accepted'
           /\ Readable' \cup lapsed' \subseteq accepted'
           /\ NoLostUpdate'
  <1> DEFINE Good == /\ accepted \subseteq accepted'
                     /\ Readable' \cup lapsed' \subseteq accepted'
                     /\ accepted' \subseteq Readable' \cup lapsed'
  <1>0. Readable \cup lapsed \subseteq accepted /\ accepted \subseteq Readable \cup lapsed
    BY DEF OnlyAccepted, NoLostUpdate
  <1>1. ASSUME NEW m \in Message, AddMessage(m), Readable' = Readable \cup m PROVE Good
    BY <1>0, <1>1 DEF AddMessage
  <1>2. ASSUME ExpireStream, Readable' = Stored PROVE Good
    <2>1. lapsed' = lapsed \cup (Content(entries) \ Stored) /\ accepted' = accepted
      BY <1>2 DEF ExpireStream
    <2>2. Readable = Content(entries) \cup Stored
      BY DEF Readable
    <2>3. accepted' \subseteq Readable' \cup lapsed'
      BY <1>0, <1>2, <2>1, <2>2
    <2>4. Readable' \cup lapsed' \subseteq accepted'
      BY <1>0, <1>2, <2>1, <2>2
    <2> QED BY <2>1, <2>3, <2>4
  <1>3. ASSUME NEW doc \in SUBSET accepted, Readable' = Readable \cup doc,
               accepted' = accepted, lapsed' = lapsed
        PROVE  Good
    BY <1>0, <1>3
  <1>4. ASSUME accepted' = accepted, lapsed' = lapsed, Readable' = Readable PROVE Good
    BY <1>0, <1>4
  <1> HIDE DEF Good
  <1>5. Good
    BY <1>1, <1>2, <1>3, <1>4, ReadableSteps DEF ReadableStep
  <1> QED BY <1>5 DEF Good, NoLostUpdate

\* Jobs hold only what was readable.
LEMMA OnlyAcceptedStep ==
    ASSUME TypeOK, IsFiniteSet(KnownRefs), JobsCover, PurgesAreCovered, OnlyAccepted,
           NoLostUpdate, [Next]_vars
    PROVE  OnlyAccepted'
  <1>0. jobs \in SUBSET Job
    BY DEF TypeOK
  <1>1. accepted \subseteq accepted' /\ Readable' \cup lapsed' \subseteq accepted'
    BY AcceptedStep
  <1>2. Content(entries) \cup Stored \subseteq accepted /\ \A j \in jobs : j.doc \subseteq accepted
    BY DEF OnlyAccepted, Readable
  <1>3. ASSUME NEW k \in jobs' PROVE k.doc \subseteq accepted
    BY <1>0, <1>2, EveryJob DEF Begun, Remains, Advances
  <1> QED BY <1>1, <1>3 DEF OnlyAccepted

-----------------------------------------------------------------------------
(* The theorems.                                                           *)

LEMMA Initially == ASSUME Init PROVE Inv
  <1>1. TypeOK
    BY ZeroIsLeast DEF Init, TypeOK
  <1>2. StreamIsOrdered
    BY DEF Init, StreamIsOrdered, Zero
  <1>3. IsFiniteSet(KnownRefs)
    <2>1. KnownRefs = {}
      BY DEF Init, KnownRefs
    <2> QED BY <2>1, FS_EmptySet
  <1>4. JobsCover /\ PurgesAreCovered /\ DropsAreRaced /\ StreamsAreQueued
    BY DEF Init, JobsCover, PurgesAreCovered, DropsAreRaced, StreamsAreQueued, Stored
  <1>5. OnlyAccepted /\ NoLostUpdate
    BY DEF Init, OnlyAccepted, NoLostUpdate, Readable, Stored, Content
  <1> QED BY <1>1, <1>2, <1>3, <1>4, <1>5 DEF Inv

LEMMA Inductive ==
    ASSUME Inv, [Next]_vars PROVE Inv'
  BY TypeStep, StreamStep, RefsStep, CoverStep, PurgeStep, DropStep, QueueStep,
     AcceptedStep, OnlyAcceptedStep DEF Inv

\* The inductive invariant holds of every behaviour, types included.
THEOREM QueueInvariance == Spec => []Inv
  <1>1. Init => Inv
    BY Initially
  <1>2. Inv /\ [Next]_vars => Inv'
    BY Inductive
  <1> QED BY <1>1, <1>2, PTL DEF Spec

\* Every variable keeps to its set, whichever tasks run twice, fail or die.
THEOREM QueueTypes == Spec => []TypeOK
  <1>1. Inv => TypeOK
    BY DEF Inv
  <1> QED BY <1>1, QueueInvariance, PTL

\* However often a task runs at once, neither its trims nor its deletions lose
\* an accepted update (api.js:374-384).
THEOREM QueueDurability == Spec => []NoLostUpdate
  <1>1. Inv => NoLostUpdate
    BY DEF Inv
  <1> QED BY <1>1, QueueInvariance, PTL

\* A stream has a task, but for an append between XLEN and MULTI (api.js:355-362).
THEOREM TasksAreKept == Spec => []StreamsAreQueued
  <1>1. Inv => StreamsAreQueued
    BY DEF Inv
  <1> QED BY <1>1, QueueInvariance, PTL

\* The workers implement the abstract room: requeues and purges never show.
THEOREM QueueRefinement == Spec => ImplementsDurableRoom
  <1>1. Init => Abstract!Init
    BY DEF Init, Abstract!Init, Readable, Stored, Content
  <1>2. Inv /\ [Next]_vars => [Abstract!Next]_(Abstract!vars)
    <2> SUFFICES ASSUME Inv, [Next]_vars PROVE [Abstract!Next]_(Abstract!vars)
      OBVIOUS
    <2>1. ASSUME NEW m \in Message, AddMessage(m), Readable' = Readable \cup m, Stored' = Stored
          PROVE  Abstract!Next
      <3>1. Abstract!Accept(m)
        BY <2>1 DEF Abstract!Accept, AddMessage
      <3>2. m \in SUBSET Update
        OBVIOUS
      <3> QED BY <3>1, <3>2 DEF Abstract!Next
    <2>2. CASE ExpireStream /\ Readable' = Stored /\ Stored' = Stored
      BY <2>2 DEF Abstract!Next, Abstract!Lapse, ExpireStream
    <2>3. ASSUME NEW doc \in SUBSET accepted, Stored' = Stored \cup doc,
                 Readable' = Readable \cup doc, accepted' = accepted
          PROVE  Abstract!Next
      <3>1. Abstract!Save(doc)
        BY <2>3 DEF Abstract!Save
      <3> QED BY <3>1 DEF Abstract!Next
    <2>4. CASE accepted' = accepted /\ Stored' = Stored /\ Readable' = Readable
      BY <2>4 DEF Abstract!vars
    <2>5. ReadableStep
      BY ReadableSteps DEF Inv
    <2> QED BY <2>1, <2>2, <2>3, <2>4, <2>5 DEF ReadableStep
  <1> QED BY <1>1, <1>2, QueueInvariance, PTL DEF Spec, ImplementsDurableRoom, Abstract!Spec

\* What has been saved stays, and only the expiry of a stream makes anything
\* unreadable: no trim and no deletion of merged rows does (api.js:370-384),
\* however many jobs with snapshots of any age save, trim and delete at once.
THEOREM QueueKeepsWhatIsSaved ==
    Spec => [][ Stored \subseteq Stored'
                /\ (Readable \subseteq Readable' \/ ExpireStream) ]_vars
  <1>1. ASSUME Inv, [Next]_vars
        PROVE  Stored \subseteq Stored' /\ (Readable \subseteq Readable' \/ ExpireStream)
    <2>1. ReadableStep
      BY <1>1, ReadableSteps DEF Inv
    <2>2. \A m \in Message : AddMessage(m) => Stored' = Stored
      BY DEF AddMessage, Stored
    <2> QED BY <2>1, <2>2 DEF ReadableStep
  <1> QED BY <1>1, QueueInvariance, PTL DEF Spec
=============================================================================
