--------------------------- MODULE RoomPersistence ---------------------------
(***************************************************************************)
(* One document when Y_WORKER_DISABLED is set: the socket servers append   *)
(* its updates to a Redis stream, and whichever server holds the document's*)
(* lease copies the stream into storage and trims what it has saved, while *)
(* other calls read the document.                                          *)
(*                                                                         *)
(* persistNamespace and getDoc are several awaits long, so each is a chain *)
(* of actions: a lease, a stream read, a storage read, a storage write and *)
(* a trim, with any step of anybody else in between.  The lease is here    *)
(* the one fact that matters to storage, who may start a save;             *)
(* PersistentLeader models how it is kept.                                 *)
(***************************************************************************)
EXTENDS RedisStream

CONSTANTS
    Server,       \* socket server processes
    Reader,       \* calls of getDoc that only read (sync-step-1, connection)
    Update,       \* Yjs updates
    Message,      \* the messages clients send, as sets of updates
    None,         \* no lease holder
    Gone,         \* the lease holder is a process that no longer exists
    Faults,       \* which of LapseFault, AbandonFault, CrashFault may happen
    TTL,          \* Y_ROOM_STREAM_TTL, in ticks
    MaxSkew       \* how far a server's clock may be from Redis' clock

LapseFault == "lapse"       \* the lease runs out under a live holder
AbandonFault == "abandon"   \* a write is given up but still under way
CrashFault == "crash"       \* a server process dies

ASSUME TTLAssumption == TTL \in Nat \ {0}
ASSUME MaxSkewAssumption == MaxSkew \in Nat
ASSUME MessageAssumption == Message \subseteq SUBSET Update
ASSUME HolderAssumption ==
    None \notin Server /\ Gone \notin Server /\ None # Gone
ASSUME FaultsAssumption == Faults \subseteq {LapseFault, AbandonFault, CrashFault}

VARIABLES
    now,          \* Redis' clock
    entries,      \* the stream, entries [id, m]
    lastGen,      \* the stream's last generated id
    deadline,     \* when the stream's key expires
    stored,       \* what retrieveDoc returns
    strays,       \* writes under way that nobody waits for any more
    lease,        \* who holds persist-leader:<namespace>
    pc,           \* how far each server's persistNamespace has got
    snapDoc,      \* its snapshot.ydoc
    snapId,       \* its snapshot.redisLastId
    rpc, rdoc,    \* the readers' getDoc: progress and document
    floor,        \* for each reader, what was readable when it started
    accepted,     \* every update Redis has accepted
    lapsed        \* those that expired with the stream before any save

streamVars == <<entries, lastGen, deadline>>
saveVars == <<pc, snapDoc, snapId>>
readVars == <<rpc, rdoc, floor>>
ghostVars == <<accepted, lapsed>>
vars == <<now, streamVars, stored, strays, lease, saveVars, readVars, ghostVars>>

Entry == [id : RedisId, m : SUBSET Update]

TypeOK ==
    /\ now \in Nat
    /\ entries \in SUBSET Entry
    /\ lastGen \in RedisId
    /\ deadline \in Nat
    /\ stored \in SUBSET Update
    /\ strays \in SUBSET SUBSET Update
    /\ lease \in Server \cup {None, Gone}
    /\ pc \in [Server -> {"idle", "leader", "read", "snapshot", "saving", "saved"}]
    /\ snapDoc \in [Server -> SUBSET Update]
    /\ snapId \in [Server -> RedisId]
    /\ rpc \in [Reader -> {"idle", "read", "done"}]
    /\ rdoc \in [Reader -> SUBSET Update]
    /\ floor \in [Reader -> SUBSET Update]
    /\ accepted \in SUBSET Update
    /\ lapsed \in SUBSET Update

Init ==
    /\ now = 1
    /\ entries = {} /\ lastGen = Zero /\ deadline = 0
    /\ stored = {} /\ strays = {}
    /\ lease = None
    /\ pc = [s \in Server |-> "idle"]
    /\ snapDoc = [s \in Server |-> {}]
    /\ snapId = [s \in Server |-> Zero]
    /\ rpc = [r \in Reader |-> "idle"]
    /\ rdoc = [r \in Reader |-> {}]
    /\ floor = [r \in Reader |-> {}]
    /\ accepted = {} /\ lapsed = {}

\* What a full read of the document would return now.
Readable == Content(entries) \cup stored

-----------------------------------------------------------------------------
(* Redis: time, the stream and its expiry.                                 *)

Tick ==
    /\ now' = now + 1
    /\ UNCHANGED <<streamVars, stored, strays, lease, saveVars, readVars, ghostVars>>

\* The addMessage script: XADD, then EXPIRE.  Redis gives at most MaxSeq + 1
\* ids in a millisecond without running ahead of its clock, and MaxSeq + 1 is
\* 2^64: that it does run ahead is not considered.
AddMessage(m) ==
    LET id == NextId(lastGen, now) IN
    /\ id.ms <= now
    /\ entries' = entries \cup {[id |-> id, m |-> m]}
    /\ lastGen' = id
    /\ deadline' = now + TTL
    /\ accepted' = accepted \cup m
    /\ UNCHANGED <<now, stored, strays, lease, saveVars, readVars, lapsed>>

\* Nobody wrote for a whole TTL: Redis drops the key with all it holds.
ExpireStream ==
    /\ now >= deadline
    /\ lastGen # Zero
    /\ entries' = {}
    /\ lastGen' = Zero
    /\ lapsed' = lapsed \cup (Content(entries) \ stored)
    /\ UNCHANGED <<now, deadline, stored, strays, lease, saveVars, readVars, accepted>>

-----------------------------------------------------------------------------
(* The lease.                                                              *)

\* tryAcquirePersistentLeader: take a free lease or renew one's own, then go
\* on with persistNamespace.  A server that fails here returns and changes
\* nothing.
TryAcquire(s) ==
    /\ pc[s] = "idle"
    /\ lease \in {None, s}
    /\ lease' = s
    /\ pc' = [pc EXCEPT ![s] = "leader"]
    /\ UNCHANGED <<now, streamVars, stored, strays, snapDoc, snapId, readVars, ghostVars>>

\* The lease runs out: its holder is gone, or has not renewed it in time.
ExpireLease ==
    /\ lease # None
    /\ lease = Gone \/ LapseFault \in Faults
    /\ lease' = None
    /\ UNCHANGED <<now, streamVars, stored, strays, saveVars, readVars, ghostVars>>

\* cleanupNamespaceImpl releases the lease.  cleanupNamespace waits for the
\* save under way (awaitingPersistMap) before it calls it.
ReleaseLease(s) ==
    /\ pc[s] = "idle"
    /\ lease = s
    /\ lease' = None
    /\ UNCHANGED <<now, streamVars, stored, strays, saveVars, readVars, ghostVars>>

-----------------------------------------------------------------------------
(* persistNamespace, one server at a time.  Each action is the code up to  *)
(* the next await.                                                         *)

\* The finally of persistNamespace: the snapshot is destroyed.
Finish(s) ==
    /\ pc' = [pc EXCEPT ![s] = "idle"]
    /\ snapDoc' = [snapDoc EXCEPT ![s] = {}]
    /\ snapId' = [snapId EXCEPT ![s] = Zero]

\* getDoc's first await: the whole stream and the id of its last entry.
ReadStream(s) ==
    /\ pc[s] = "leader"
    /\ snapDoc' = [snapDoc EXCEPT ![s] = Content(entries)]
    /\ snapId' = [snapId EXCEPT ![s] = LastId(entries)]
    /\ pc' = [pc EXCEPT ![s] = "read"]
    /\ UNCHANGED <<now, streamVars, stored, strays, lease, readVars, ghostVars>>

\* getDoc's second await: what storage holds is merged under the messages.
RetrieveDoc(s) ==
    /\ pc[s] = "read"
    /\ snapDoc' = [snapDoc EXCEPT ![s] = stored \cup snapDoc[s]]
    /\ pc' = [pc EXCEPT ![s] = "snapshot"]
    /\ UNCHANGED <<now, streamVars, stored, strays, lease, snapId, readVars, ghostVars>>

\* The snapshot goes to storage, here or in the persist worker thread.
SendSave(s) ==
    /\ pc[s] = "snapshot"
    /\ pc' = [pc EXCEPT ![s] = "saving"]
    /\ UNCHANGED <<now, streamVars, stored, strays, lease, snapDoc, snapId, readVars, ghostVars>>

\* Faulty: a save overwrites the last one.
SavedOver(doc) == doc

\* What storage holds once a save of doc has committed: memory.js, postgres.js
\* and s3.js all add a row.
Saved(doc) == stored \cup doc

CommitSave(s) ==
    /\ pc[s] = "saving"
    /\ stored' = Saved(snapDoc[s])
    /\ pc' = [pc EXCEPT ![s] = "saved"]
    /\ UNCHANGED <<now, streamVars, strays, lease, snapDoc, snapId, readVars, ghostVars>>

\* What a server's Date.now() may return.
Clock == (now - MaxSkew) .. (now + MaxSkew)

\* Faulty: the trim takes the stream's present head; it does not wait for the
\* save.
TrimAtHead(s) ==
    /\ pc[s] = "saved"
    /\ \E clock \in Clock :
         entries' = TrimRoomStream(entries, LastId(entries), clock)
    /\ Finish(s)
    /\ UNCHANGED <<now, lastGen, deadline, stored, strays, lease, readVars, ghostVars>>

TrimUnawaited(s) ==
    /\ pc[s] \in {"saving", "saved"}
    /\ \E clock \in Clock :
         entries' = TrimRoomStream(entries, snapId[s], clock)
    /\ Finish(s)
    /\ UNCHANGED <<now, lastGen, deadline, stored, strays, lease, readVars, ghostVars>>

\* trimRoomStream, when the save has resolved: the boundary comes from the
\* snapshot's own position and from this server's clock.
Trim(s) ==
    /\ pc[s] = "saved"
    /\ \E clock \in Clock :
         entries' = TrimRoomStream(entries, snapId[s], clock)
    /\ Finish(s)
    /\ UNCHANGED <<now, lastGen, deadline, stored, strays, lease, readVars, ghostVars>>

\* Any await rejects, the namespace is no longer cached, or the server has
\* been destroyed: persistNamespace ends where it is.  debouncedPersist
\* schedules the next try, which is a TryAcquire like any other.
EndPersist(s) ==
    /\ pc[s] # "idle"
    /\ Finish(s)
    /\ UNCHANGED <<now, streamVars, stored, strays, lease, readVars, ghostVars>>

\* failPersistWorker: the thread is given up, and rejects the request, while
\* its write to storage may still be under way.
AbandonSave(s) ==
    /\ AbandonFault \in Faults
    /\ pc[s] = "saving"
    /\ strays' = strays \cup {snapDoc[s]}
    /\ Finish(s)
    /\ UNCHANGED <<now, streamVars, stored, lease, readVars, ghostVars>>

CommitStray(doc) ==
    /\ doc \in strays
    /\ stored' = Saved(doc)
    /\ strays' = strays \ {doc}
    /\ UNCHANGED <<now, streamVars, lease, saveVars, readVars, ghostVars>>

\* The process dies (or destroy closes its Redis client): its lease stays in
\* Redis until it expires, its write may still reach storage.  Its successor
\* has another serverId, so it starts without the lease.
Crash(s) ==
    /\ CrashFault \in Faults
    /\ strays' = IF pc[s] = "saving" THEN strays \cup {snapDoc[s]} ELSE strays
    /\ lease' = IF lease = s THEN Gone ELSE lease
    /\ Finish(s)
    /\ UNCHANGED <<now, streamVars, stored, readVars, ghostVars>>

-----------------------------------------------------------------------------
(* A getDoc of somebody else.                                              *)

ReaderReadStream(r) ==
    /\ rpc[r] = "idle"
    /\ rpc' = [rpc EXCEPT ![r] = "read"]
    /\ rdoc' = [rdoc EXCEPT ![r] = Content(entries)]
    /\ floor' = [floor EXCEPT ![r] = Readable]
    /\ UNCHANGED <<now, streamVars, stored, strays, lease, saveVars, ghostVars>>

ReaderRetrieveDoc(r) ==
    /\ rpc[r] = "read"
    /\ rpc' = [rpc EXCEPT ![r] = "done"]
    /\ rdoc' = [rdoc EXCEPT ![r] = stored \cup rdoc[r]]
    /\ UNCHANGED <<now, streamVars, stored, strays, lease, saveVars, floor, ghostVars>>

\* The document is sent and dropped.
ReaderReturn(r) ==
    /\ rpc[r] = "done"
    /\ rpc' = [rpc EXCEPT ![r] = "idle"]
    /\ rdoc' = [rdoc EXCEPT ![r] = {}]
    /\ floor' = [floor EXCEPT ![r] = {}]
    /\ UNCHANGED <<now, streamVars, stored, strays, lease, saveVars, ghostVars>>

\* Faulty: storage first, then the stream.
ReaderStoreFirst(r) ==
    /\ rpc[r] = "idle"
    /\ rpc' = [rpc EXCEPT ![r] = "read"]
    /\ rdoc' = [rdoc EXCEPT ![r] = stored]
    /\ floor' = [floor EXCEPT ![r] = Readable]
    /\ UNCHANGED <<now, streamVars, stored, strays, lease, saveVars, ghostVars>>

ReaderThenStream(r) ==
    /\ rpc[r] = "read"
    /\ rpc' = [rpc EXCEPT ![r] = "done"]
    /\ rdoc' = [rdoc EXCEPT ![r] = Content(entries) \cup rdoc[r]]
    /\ UNCHANGED <<now, streamVars, stored, strays, lease, saveVars, floor, ghostVars>>

StoreFirstGetDoc(r) ==
    ReaderStoreFirst(r) \/ ReaderThenStream(r) \/ ReaderReturn(r)

GetDoc(r) == ReaderReadStream(r) \/ ReaderRetrieveDoc(r) \/ ReaderReturn(r)

-----------------------------------------------------------------------------

Persist(s) ==
    \/ TryAcquire(s) \/ ReleaseLease(s)
    \/ ReadStream(s) \/ RetrieveDoc(s) \/ SendSave(s) \/ CommitSave(s)
    \/ Trim(s) \/ EndPersist(s) \/ AbandonSave(s) \/ Crash(s)

Next ==
    \/ Tick
    \/ \E m \in Message : AddMessage(m)
    \/ ExpireStream
    \/ ExpireLease
    \/ \E doc \in strays : CommitStray(doc)
    \/ \E s \in Server : Persist(s)
    \/ \E r \in Reader : GetDoc(r)

Spec == Init /\ [][Next]_vars

-----------------------------------------------------------------------------
(* Properties.                                                             *)

\* An update that Redis has accepted stays readable, from the stream or from
\* storage, unless the whole stream expired before any save: no interleaving
\* of saves, trims, lost leases, late writes and crashes makes the trim
\* (y-socket-io.js:603) remove what the save before it did not store.
NoLostUpdate == accepted \subseteq Readable \cup lapsed

\* A document that getDoc returns has everything that was readable when the
\* call began, whatever was saved and trimmed between its two reads
\* (api.js:244 and 247).
ReadsComplete == \A r \in Reader : rpc[r] = "done" => floor[r] \subseteq rdoc[r]

\* An entry that leaves the stream without having expired is in storage at
\* that moment, and it stayed for the minimum message lifetime as far as
\* clocks agree: a subscriber that resumes from an id no older than that
\* misses nothing.
Trimmed(e) ==
    \/ ExpireStream
    \/ e.m \subseteq stored /\ now + MaxSkew >= e.id.ms + MinLifetime
TrimsAreSafe == [][\A e \in entries \ entries' : Trimmed(e)]_vars

\* The order the ids keep, which is what lets a position in the stream stand
\* for everything before it: entries never pass the last generated id, the
\* last of them has it, and it is behind the clock and the expiry.
StreamIsOrdered ==
    /\ now >= 1 /\ lastGen.ms <= now
    /\ lastGen # Zero => lastGen.ms + TTL <= deadline
    /\ \A e \in entries : ~ IsSmallerRedisId(lastGen, e.id)
    /\ entries # {} => lastGen # Zero /\ \E e \in entries : e.id = lastGen

\* No id XADD may still give is at or below id.
Passed(id) ==
    \/ ~ IsSmallerRedisId(lastGen, id)
    \/ lastGen = Zero /\ id.ms < now

\* A snapshot under way holds every entry up to its position, those appended
\* and those expired and appended anew since included, and once the save has
\* resolved so does storage: redisLastId authorizes the trim.
SnapshotsCover ==
    \A s \in Server :
        /\ Passed(snapId[s])
        /\ \A e \in entries :
             pc[s] \in {"read", "snapshot", "saving", "saved"}
               /\ ~ IsSmallerRedisId(snapId[s], e.id) => e.m \subseteq snapDoc[s]
        /\ pc[s] = "saved" => snapDoc[s] \subseteq stored

\* What was readable when a getDoc began is in its document or, until its
\* second read, in storage.
ReadersCatchUp ==
    /\ \A r \in Reader : rpc[r] = "read" => floor[r] \subseteq rdoc[r] \cup stored
    /\ ReadsComplete

\* Nothing is saved that Redis did not accept.
OnlyAccepted ==
    /\ Readable \cup lapsed \subseteq accepted
    /\ \A s \in Server : snapDoc[s] \subseteq accepted
    /\ \A doc \in strays : doc \subseteq accepted

\* The inductive invariant behind the theorems.
Inv ==
    /\ TypeOK /\ StreamIsOrdered /\ SnapshotsCover
    /\ NoLostUpdate /\ ReadersCatchUp /\ OnlyAccepted

\* The servers implement the abstract room: to a reader, saves and trims are
\* invisible, and storage only grows.
Abstract == INSTANCE DurableRoom WITH live <- Readable, durable <- stored
ImplementsDurableRoom == Abstract!Spec
=============================================================================
