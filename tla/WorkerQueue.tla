----------------------------- MODULE WorkerQueue -----------------------------
(***************************************************************************)
(* One document when workers persist it (Y_WORKER_DISABLED not set).       *)
(*                                                                         *)
(* The first append to a document's stream also puts a compaction task on  *)
(* the workers' queue, a Redis stream read as a consumer group.  A worker  *)
(* that takes the task saves the document, trims its stream and puts the   *)
(* task back for the next round, until it finds the stream empty and drops *)
(* both.  Documents have their own streams, tasks and rows and meet only   *)
(* in the order in which a worker takes tasks, so one document is enough.  *)
(***************************************************************************)
EXTENDS RedisStream, FiniteSets

CONSTANTS
    Worker,        \* worker processes; one that restarts is another
    Update,        \* Yjs updates
    Message,       \* the messages clients send, as sets of updates
    None,          \* a task not yet delivered to a worker
    CheckLength,   \* stream length above which a document is to be checked
    TTL,           \* Y_ROOM_STREAM_TTL, in ticks
    SlowJobs,      \* whether a job may take longer than redisWorkerTimeout
    MaxFailures,   \* bound: calls to Redis or storage that fail
    MaxCrashes,    \* bound: workers that die
    MaxTasks,      \* bound: tasks queued at once
    MaxTime        \* bound: ticks of the clock

ASSUME QueueAssumption ==
    /\ Message \subseteq SUBSET Update
    /\ None \notin Worker
    /\ {CheckLength, MaxFailures, MaxCrashes, MaxTasks, MaxTime} \subseteq Nat
    /\ TTL \in Nat \ {0}
    /\ SlowJobs \in BOOLEAN

VARIABLES
    now,        \* Redis' clock
    entries,    \* the document's stream, entries [id, m]
    lastGen,    \* its last generated id
    exists,     \* whether its key exists: an empty stream still does
    deadline,   \* when the key expires
    tasks,      \* the queue: tasks [id, owner], owner the consumer it is pending for
    idset,      \* for each worker, whether its idset holds the document
    checklist,  \* whether the checklist does
    rows,       \* the document's rows in storage, [ref, doc]
    alive,      \* workers that run
    loop,       \* what each worker's loop awaits
    taken,      \* the tasks it has reclaimed in this round
    orphaned,   \* what its orphan check has found so far
    jobs,       \* tasks being processed
    failures,   \* how many calls have failed
    accepted,   \* every update Redis has accepted
    lapsed,     \* those that expired with the stream before any save
    raced       \* whether an append fell between a worker's XLEN and its MULTI

streamVars == <<entries, lastGen, exists, deadline>>
loopVars == <<loop, taken, orphaned>>
ghostVars == <<accepted, lapsed, raced>>
vars == <<now, streamVars, tasks, idset, checklist, rows, alive, loopVars, jobs,
          failures, ghostVars>>

TaskId == 1 .. MaxTasks

\* A job holds what its closure does: the getDoc result, and which of the two
\* parallel calls at its end are still to come.  awaited: the round's
\* promise.all still waits for it.
Job == [w : Worker, task : TaskId, awaited : BOOLEAN,
        pc : {"length", "drop", "read", "retrieve", "persist", "finish"},
        doc : SUBSET Update, lastId : RedisId, refs : SUBSET Nat,
        todo : SUBSET {"purge", "requeue"}]

Stored == UNION {row.doc : row \in rows}
Readable == Content(entries) \cup Stored

TypeOK ==
    /\ now \in Nat
    /\ entries \in SUBSET [id : RedisId, m : SUBSET Update]
    /\ lastGen \in RedisId /\ exists \in BOOLEAN /\ deadline \in Nat
    /\ tasks \in SUBSET [id : TaskId, owner : Worker \cup {None}]
    /\ idset \in [Worker -> BOOLEAN] /\ checklist \in BOOLEAN
    /\ rows \in SUBSET [ref : Nat, doc : SUBSET Update]
    /\ alive \in SUBSET Worker
    /\ loop \in [Worker -> {"reclaim", "claim", "tasks", "scan", "list", "recover", "clear"}]
    /\ taken \in [Worker -> SUBSET TaskId]
    /\ orphaned \in [Worker -> BOOLEAN]
    /\ jobs \in SUBSET Job
    /\ failures \in Nat
    /\ accepted \in SUBSET Update /\ lapsed \in SUBSET Update /\ raced \in BOOLEAN

Init ==
    /\ now = 1
    /\ entries = {} /\ lastGen = Zero /\ exists = FALSE /\ deadline = 0
    /\ tasks = {} /\ rows = {}
    /\ idset = [w \in Worker |-> FALSE] /\ checklist = FALSE
    /\ alive = Worker
    /\ loop = [w \in Worker |-> "reclaim"]
    /\ taken = [w \in Worker |-> {}]
    /\ orphaned = [w \in Worker |-> FALSE]
    /\ jobs = {} /\ failures = 0
    /\ accepted = {} /\ lapsed = {} /\ raced = FALSE

-----------------------------------------------------------------------------
(* The queue.                                                              *)

TaskIds(ts) == {t.id : t \in ts}

\* An id for XADD ... compact, of no task queued or being processed.
FreshTask(id) ==
    /\ id \in TaskId \ (TaskIds(tasks) \cup {j.task : j \in jobs})
    /\ \A other \in TaskId :
         other < id => other \in TaskIds(tasks) \cup {j.task : j \in jobs}

Without(id) == {t \in tasks : t.id # id}
Queued(id) == [id |-> id, owner |-> None]
DeliverTo(w, ids) ==
    {IF t.id \in ids THEN [t EXCEPT !.owner = w] ELSE t : t \in tasks}
Undelivered == {t.id : t \in {x \in tasks : x.owner = None}}

-----------------------------------------------------------------------------
(* Clients and Redis.                                                      *)

Tick ==
    /\ now < MaxTime
    /\ now' = now + 1
    /\ UNCHANGED <<streamVars, tasks, idset, checklist, rows, alive, loopVars, jobs,
                   failures, ghostVars>>

\* Faulty: no document is ever queued by its appends.
NeverQueue == UNCHANGED <<tasks, checklist>>

\* The branches of the addMessage script.
QueueOrCheck ==
    IF ~ exists
    THEN /\ \E id \in TaskId : FreshTask(id) /\ tasks' = tasks \cup {Queued(id)}
         /\ UNCHANGED checklist
    ELSE /\ checklist' = (checklist \/ Cardinality(entries) > CheckLength)
         /\ UNCHANGED tasks

AddMessage(m) ==
    LET id == NextId(lastGen, now) IN
    /\ id.ms <= now
    /\ QueueOrCheck
    /\ entries' = entries \cup {[id |-> id, m |-> m]}
    /\ lastGen' = id
    /\ exists' = TRUE
    /\ deadline' = now + TTL
    /\ accepted' = accepted \cup m
    /\ raced' = (raced \/ \E j \in jobs : j.pc = "drop")
    /\ UNCHANGED <<now, idset, rows, alive, loopVars, jobs, failures, lapsed>>

ExpireStream ==
    /\ exists /\ now >= deadline
    /\ entries' = {} /\ lastGen' = Zero /\ exists' = FALSE /\ deadline' = 0
    /\ lapsed' = lapsed \cup (Content(entries) \ Stored)
    /\ UNCHANGED <<now, tasks, idset, checklist, rows, alive, loopVars, jobs,
                   failures, accepted, raced>>

-----------------------------------------------------------------------------
(* consumeWorkerQueue: taking tasks.                                       *)

Goto(w, label) == loop' = [loop EXCEPT ![w] = label]

\* Tasks that may have been pending longer than redisWorkerTimeout: those
\* nobody works on any more, and those somebody works on for so long.
InHand == {j.task : j \in jobs} \cup UNION {taken[w] : w \in alive}
Overdue == {t.id : t \in {x \in tasks : x.owner # None /\ (SlowJobs \/ x.id \notin InHand)}}

\* XAUTOCLAIM takes overdue tasks, this worker's own included.
Reclaim(w) ==
    /\ w \in alive /\ loop[w] = "reclaim"
    /\ \E ids \in SUBSET Overdue :
         /\ tasks' = DeliverTo(w, ids)
         /\ taken' = [taken EXCEPT ![w] = ids]
    /\ Goto(w, "claim")
    /\ UNCHANGED <<now, streamVars, idset, checklist, rows, alive, orphaned, jobs,
                   failures, ghostVars>>

NewJob(w, id) ==
    [w |-> w, task |-> id, awaited |-> TRUE, pc |-> "length", doc |-> {},
     lastId |-> Zero, refs |-> {}, todo |-> {}]

\* XREADGROUP ">": every task nobody has had (of one document there are fewer
\* than the five it may take); then all tasks are processed at once.
Claim(w) ==
    /\ w \in alive /\ loop[w] = "claim"
    /\ tasks' = DeliverTo(w, Undelivered)
    /\ jobs' = jobs \cup {NewJob(w, id) : id \in taken[w] \cup Undelivered}
    /\ taken' = [taken EXCEPT ![w] = {}]
    /\ Goto(w, "tasks")
    /\ UNCHANGED <<now, streamVars, idset, checklist, rows, alive, orphaned,
                   failures, ghostVars>>

\* promise.all resolves.
EndRound(w) ==
    /\ w \in alive /\ loop[w] = "tasks"
    /\ ~ \E j \in jobs : j.w = w /\ j.awaited
    /\ Goto(w, "scan")
    /\ UNCHANGED <<now, streamVars, tasks, idset, checklist, rows, alive, taken,
                   orphaned, jobs, failures, ghostVars>>

-----------------------------------------------------------------------------
(* consumeWorkerQueue: one task.                                           *)

Become(j, next) == jobs' = (jobs \ {j}) \cup {next}

CheckLengthOf(j) ==
    /\ j.pc = "length"
    /\ Become(j, [j EXCEPT !.pc = IF entries = {} THEN "drop" ELSE "read"])
    /\ UNCHANGED <<now, streamVars, tasks, idset, checklist, rows, alive, loopVars,
                   failures, ghostVars>>

\* Faulty: the key of an empty stream is left behind.
KeepEmptyStream(j) ==
    /\ j.pc = "drop"
    /\ tasks' = Without(j.task)
    /\ idset' = [idset EXCEPT ![j.w] = FALSE]
    /\ jobs' = jobs \ {j}
    /\ UNCHANGED <<now, streamVars, checklist, rows, alive, loopVars, failures, ghostVars>>

\* MULTI xDelIfEmpty, xAck, xDel, sRem: the key goes only if it is still
\* empty, the task goes in any case.
DropTask(j) ==
    /\ j.pc = "drop"
    /\ IF entries = {} THEN exists' = FALSE /\ lastGen' = Zero /\ deadline' = 0
                       ELSE UNCHANGED <<exists, lastGen, deadline>>
    /\ tasks' = Without(j.task)
    /\ idset' = [idset EXCEPT ![j.w] = FALSE]
    /\ jobs' = jobs \ {j}
    /\ UNCHANGED <<now, entries, checklist, rows, alive, loopVars, failures, ghostVars>>

ReadStream(j) ==
    /\ j.pc = "read"
    /\ Become(j, [j EXCEPT !.pc = "retrieve", !.doc = Content(entries),
                           !.lastId = LastId(entries)])
    /\ UNCHANGED <<now, streamVars, tasks, idset, checklist, rows, alive, loopVars,
                   failures, ghostVars>>

\* Faulty: what the rows hold is not merged into what will replace them.
RetrieveRefsOnly(j) ==
    /\ j.pc = "retrieve"
    /\ Become(j, [j EXCEPT
           !.pc = IF j.doc \subseteq Stored THEN "finish" ELSE "persist",
           !.doc = IF j.doc \subseteq Stored THEN {} ELSE @,
           !.refs = IF j.doc \subseteq Stored THEN {} ELSE {row.ref : row \in rows},
           !.todo = IF j.doc \subseteq Stored THEN {"requeue"} ELSE {}])
    /\ UNCHANGED <<now, streamVars, tasks, idset, checklist, rows, alive, loopVars,
                   failures, ghostVars>>

RetrieveDoc(j) ==
    /\ j.pc = "retrieve"
    /\ LET changed == ~ (j.doc \subseteq Stored) IN
       Become(j, [j EXCEPT
           !.pc = IF changed THEN "persist" ELSE "finish",
           !.doc = IF changed THEN Stored \cup @ ELSE {},
           !.refs = IF changed THEN {row.ref : row \in rows} ELSE {},
           !.todo = IF changed THEN {} ELSE {"requeue"}])
    /\ UNCHANGED <<now, streamVars, tasks, idset, checklist, rows, alive, loopVars,
                   failures, ghostVars>>

\* A ref of no row, nor of one that a job still knows.
KnownRefs == {row.ref : row \in rows} \cup UNION {j.refs : j \in jobs}
FreshRef == CHOOSE ref \in 0 .. Cardinality(KnownRefs) : ref \notin KnownRefs

\* persistDoc adds a row.
PersistDoc(j) ==
    /\ j.pc = "persist"
    /\ rows' = rows \cup {[ref |-> FreshRef, doc |-> j.doc]}
    /\ Become(j, [j EXCEPT !.pc = "finish", !.doc = {},
                  !.todo = {"requeue"} \cup IF j.refs = {} THEN {} ELSE {"purge"}])
    /\ UNCHANGED <<now, streamVars, tasks, idset, checklist, alive, loopVars,
                   failures, ghostVars>>

\* The job ends with the last of its two parallel calls.
Did(j, call) ==
    IF j.todo = {call} THEN jobs' = jobs \ {j}
                       ELSE Become(j, [j EXCEPT !.todo = @ \ {call}])

\* Faulty: every row goes but the newest.
PurgeAll(j) ==
    /\ j.pc = "finish" /\ "purge" \in j.todo
    /\ rows' = {row \in rows : \A other \in rows : other.ref <= row.ref}
    /\ Did(j, "purge")
    /\ UNCHANGED <<now, streamVars, tasks, idset, checklist, alive, loopVars,
                   failures, ghostVars>>

\* deleteReferences: the rows that the new one was merged from.
Purge(j) ==
    /\ j.pc = "finish" /\ "purge" \in j.todo
    /\ rows' = {row \in rows : row.ref \notin j.refs}
    /\ Did(j, "purge")
    /\ UNCHANGED <<now, streamVars, tasks, idset, checklist, alive, loopVars,
                   failures, ghostVars>>

\* MULTI xTrim, xAdd, xAck, xDel, sAdd: trim the stream and put the task back
\* under a new id.
Requeue(j) ==
    /\ j.pc = "finish" /\ "requeue" \in j.todo
    /\ entries' = TrimRoomStream(entries, j.lastId, now)
    /\ \E id \in TaskId : FreshTask(id) /\ tasks' = Without(j.task) \cup {Queued(id)}
    /\ idset' = [idset EXCEPT ![j.w] = TRUE]
    /\ Did(j, "requeue")
    /\ UNCHANGED <<now, lastGen, exists, deadline, checklist, rows, alive, loopVars,
                   failures, ghostVars>>

\* A call rejects: so does the round's promise.all, and the loop starts over.
\* The task stays pending; the round's other jobs run on, and so does the
\* other of two parallel calls.
FailJob(j) ==
    /\ failures < MaxFailures
    /\ failures' = failures + 1
    /\ \E call \in j.todo \cup {"other"} :
         LET left == {[j EXCEPT !.todo = @ \ {call}]}
             on == (jobs \ {j}) \cup IF Cardinality(j.todo) = 2 THEN left ELSE {}
         IN  /\ call = "other" <=> j.todo = {}
             /\ jobs' = {IF k.w = j.w /\ j.awaited THEN [k EXCEPT !.awaited = FALSE]
                         ELSE k : k \in on}
    /\ loop' = IF j.awaited THEN [loop EXCEPT ![j.w] = "reclaim"] ELSE loop
    /\ UNCHANGED <<now, streamVars, tasks, idset, checklist, rows, alive, taken,
                   orphaned, ghostVars>>

\* A call of the loop itself rejects: what it has reclaimed or found is
\* forgotten.  XREADGROUP may have delivered its tasks all the same.
FailLoop(w) ==
    /\ failures < MaxFailures
    /\ failures' = failures + 1
    /\ w \in alive /\ loop[w] # "tasks"
    /\ \/ UNCHANGED tasks
       \/ loop[w] = "claim" /\ tasks' = DeliverTo(w, Undelivered)
    /\ taken' = [taken EXCEPT ![w] = {}]
    /\ orphaned' = [orphaned EXCEPT ![w] = FALSE]
    /\ Goto(w, "reclaim")
    /\ UNCHANGED <<now, streamVars, idset, checklist, rows, alive, jobs, ghostVars>>

ProcessTask(j) ==
    \/ CheckLengthOf(j) \/ DropTask(j) \/ ReadStream(j) \/ RetrieveDoc(j)
    \/ PersistDoc(j) \/ Purge(j) \/ Requeue(j)

-----------------------------------------------------------------------------
(* checkAndRecoverOrphanStreams.                                           *)

\* XINFO CONSUMERS and the idsets.  Consumers with pending tasks count, and of
\* the others those active of late.  The first of them by name does the check;
\* which one that is is left open.
ScanConsumers(w) ==
    /\ w \in alive /\ loop[w] = "scan"
    /\ \/ /\ \E consumers \in SUBSET Worker :
               /\ w \in consumers /\ {t.owner : t \in tasks} \ {None} \subseteq consumers
               /\ orphaned' = [orphaned EXCEPT ![w] = \A c \in consumers : ~ idset[c]]
          /\ Goto(w, "list")
       \/ Goto(w, "reclaim") /\ UNCHANGED orphaned
    /\ UNCHANGED <<now, streamVars, tasks, idset, checklist, rows, alive, taken, jobs,
                   failures, ghostVars>>

ListChecked(w) ==
    /\ w \in alive /\ loop[w] = "list"
    /\ orphaned' = [orphaned EXCEPT ![w] = @ /\ checklist]
    /\ Goto(w, "recover")
    /\ UNCHANGED <<now, streamVars, tasks, idset, checklist, rows, alive, taken, jobs,
                   failures, ghostVars>>

RecoverOrphan(w) ==
    /\ w \in alive /\ loop[w] = "recover"
    /\ IF orphaned[w]
       THEN \E id \in TaskId : FreshTask(id) /\ tasks' = tasks \cup {Queued(id)}
       ELSE UNCHANGED tasks
    /\ orphaned' = [orphaned EXCEPT ![w] = FALSE]
    /\ Goto(w, "clear")
    /\ UNCHANGED <<now, streamVars, idset, checklist, rows, alive, taken, jobs,
                   failures, ghostVars>>

ClearChecklist(w) ==
    /\ w \in alive /\ loop[w] = "clear"
    /\ checklist' = FALSE
    /\ Goto(w, "reclaim")
    /\ UNCHANGED <<now, streamVars, tasks, idset, rows, alive, taken, orphaned, jobs,
                   failures, ghostVars>>

\* The process dies between any two steps; a write already sent counts as its
\* last step.
Crash(w) ==
    /\ w \in alive /\ Cardinality(Worker \ alive) < MaxCrashes
    /\ alive' = alive \ {w}
    /\ jobs' = {j \in jobs : j.w # w}
    /\ taken' = [taken EXCEPT ![w] = {}]
    /\ orphaned' = [orphaned EXCEPT ![w] = FALSE]
    /\ UNCHANGED <<now, streamVars, tasks, idset, checklist, rows, loop, failures, ghostVars>>

\* The idset of a worker that no longer refreshes it expires.
ExpireIdset(w) ==
    /\ w \notin alive /\ idset[w]
    /\ idset' = [idset EXCEPT ![w] = FALSE]
    /\ UNCHANGED <<now, streamVars, tasks, checklist, rows, alive, loopVars, jobs,
                   failures, ghostVars>>

-----------------------------------------------------------------------------

WorkerLoop(w) ==
    \/ Reclaim(w) \/ Claim(w) \/ EndRound(w)
    \/ ScanConsumers(w) \/ ListChecked(w) \/ RecoverOrphan(w) \/ ClearChecklist(w)

Next ==
    \/ Tick \/ ExpireStream
    \/ \E m \in Message : AddMessage(m)
    \/ \E w \in Worker : WorkerLoop(w) \/ FailLoop(w) \/ Crash(w) \/ ExpireIdset(w)
    \/ \E j \in jobs : ProcessTask(j) \/ FailJob(j)

Spec == Init /\ [][Next]_vars

\* A worker's loop and its jobs run on, and a task that stays pending is some
\* day older than redisWorkerTimeout when the loop asks for such.
Fairness ==
    \A w \in Worker :
        /\ WF_vars(WorkerLoop(w))
        /\ SF_vars(Reclaim(w) /\ taken'[w] # {})
        /\ \A id \in TaskId :
             WF_vars(\E j \in jobs : j.w = w /\ j.task = id /\ ProcessTask(j))

FairSpec == Spec /\ Fairness

-----------------------------------------------------------------------------
(* Properties.                                                             *)

\* An accepted update stays readable, from the stream or from some row, unless
\* its stream expired before any save: neither a trim nor the deletion of old
\* rows (api.js:374-384) loses one, when the same task runs in two workers, is
\* abandoned half way or queued twice.
NoLostUpdate == accepted \subseteq Readable \cup lapsed

\* A stream that exists has a task, so somebody will look at it again.  There
\* is one way to lose the task: an append between a worker's XLEN and its
\* MULTI (api.js:355-362).
StreamsAreQueued == exists /\ ~ raced => tasks # {}

\* The order the ids keep (see RoomPersistence).  A stream is empty only when its
\* last entry was too old to stay, so ids that begin anew are above the old ones.
StreamIsOrdered ==
    /\ now >= 1 /\ lastGen.ms <= now
    /\ IF exists THEN lastGen.ms + TTL <= deadline
                 ELSE entries = {} /\ lastGen = Zero
    /\ \A e \in entries : ~ IsSmallerRedisId(lastGen, e.id)
    /\ IF entries = {} THEN lastGen.ms < now
                       ELSE \E e \in entries : e.id = lastGen

\* No id XADD may still give is at or below id.
Passed(id) ==
    \/ ~ IsSmallerRedisId(lastGen, id)
    \/ lastGen = Zero /\ id.ms < now

\* A job holds every entry up to the position it will trim to, and once it has
\* saved, storage does: LastId authorizes the trim.
JobsCover ==
    \A j \in jobs :
        /\ Passed(j.lastId)
        /\ \A e \in entries : ~ IsSmallerRedisId(j.lastId, e.id) =>
             /\ j.pc \in {"retrieve", "persist"} => e.m \subseteq j.doc
             /\ j.pc = "finish" /\ "requeue" \in j.todo => e.m \subseteq Stored

\* Rows whose deletion is under way hold nothing that the others do not, and
\* those a job means to delete once it has saved, nothing it has not read.
Doomed == UNION {j.refs : j \in {k \in jobs : "purge" \in k.todo}}
PurgesAreCovered ==
    /\ Stored \subseteq UNION {row.doc : row \in {r \in rows : r.ref \notin Doomed}}
    /\ \A j \in jobs, row \in rows :
          j.pc = "persist" /\ row.ref \in j.refs => row.doc \subseteq j.doc

\* A job that is about to drop its task has seen the stream empty.
DropsAreRaced == entries # {} /\ (\E j \in jobs : j.pc = "drop") => raced

\* Nothing is saved that Redis did not accept.
OnlyAccepted ==
    /\ Readable \cup lapsed \subseteq accepted
    /\ \A j \in jobs : j.doc \subseteq accepted

\* The inductive invariant behind the theorems.
Inv ==
    /\ TypeOK /\ StreamIsOrdered /\ IsFiniteSet(KnownRefs)
    /\ JobsCover /\ PurgesAreCovered /\ DropsAreRaced /\ OnlyAccepted
    /\ NoLostUpdate /\ StreamsAreQueued

\* The workers implement the abstract room.
Abstract == INSTANCE DurableRoom WITH live <- Readable, durable <- Stored
ImplementsDurableRoom == Abstract!Spec

\* Every accepted update is eventually persisted, by at least one worker that
\* runs (README.md:70-71).  It need not be: see StreamsAreQueued.
SomeWorkerRuns == []<>(alive # {})
EventuallyPersisted ==
    SomeWorkerRuns => \A u \in Update : u \in accepted ~> u \in Stored \cup lapsed

\* Short of the race it is, whichever workers fail or die.
EventuallyPersistedUnlessRaced ==
    SomeWorkerRuns =>
        \A u \in Update : u \in accepted ~> u \in Stored \cup lapsed \/ raced
=============================================================================
