# y-socketio-redis, specified in TLA+

y-socketio-redis keeps Yjs documents in step between browsers: socket servers
append what clients send to Redis streams, read the streams and pass on what
others have sent, and copy streams into a permanent storage. This directory
specifies the parts of it where time, order and failure matter, checks them with
TLC, and proves the central results with TLAPS. File and line references are to
the repository; paths are relative to its root (`api.js` is `src/api.js`,
`y-socket-io.js` is `src/y-socket-io/y-socket-io.js`, and so on).

## 1. Inventory of the system

| Component | State it keeps | Operations | Hard because | What makes it correct |
|---|---|---|---|---|
| **Room streams** (`api.js` 29-64, 219-322) | one Redis stream per document, its last generated id, its expiry | append, full read, trim up to a boundary | ids are `<ms>-<seq>`, the trim boundary is the *successor* of an id and also bounded by age; server clocks differ from Redis' clock; the stream can expire and begin anew | a trim removes only what is stored and old enough |
| **Persistence by socket servers**, with `Y_WORKER_DISABLED` (`y-socket-io.js` 550-608, `api.js` 243-287) | a snapshot per save under way; rows in storage | take the lease, `getDoc`, save, trim | each step awaits another machine; two servers may save at once when a lease lapses; a save that was given up may still land; crash between save and trim | no accepted update becomes unreadable; `getDoc` returns all that was readable when it began |
| **Persist leadership** (`y-socket-io.js` 846-854, 921-999) | a Redis key with a token and a time to live; per server the token believed in and the pending acquisition | acquire, renew, release (Lua scripts), heartbeat, cleanup | replies and scripts late, namespaces cleaned up and reused meanwhile, expiry, broken connections | a belief is true unless the lease expired; unused leases are given back |
| **Workers** (`api.js` 126-182, 330-499) | a task queue (consumer group), per-worker idsets, a checklist, rows with references | addMessage script, claim, reclaim, compact, requeue, drop, orphan recovery | a task may run twice; `XLEN` and the dropping `MULTI` are apart; partial failure of parallel calls; worker death | no loss; each stream has a task; everything is eventually persisted |
| **Subscriber and handlers** (`subscriber.js`, `y-socket-io.js` 261-371, 405-544) | position and pending rewind per stream, set of sockets, cached document | read loop, connect, sync-step-1, reload, disconnect, cleanup | handlers compare a document read long ago with a position that has moved on; the cache is overwritten by late reads; COUNT-sized batches | a connected, synced client has or will get everything |
| **Persist worker thread** (`persist-worker-thread.js`, `y-socket-io.js` 614-629, 733-765, 856-911) | pending requests by id, readiness, last pong, the check under way | request, answer, ping, fail, replace, stop | threads block, die, answer late; replacement awaits `terminate()`; destroy in the middle | a save resolves only if stored, and always settles |
| **Messages** (`protocol.js`, `api.js` 190-229, `y-socket-io.js` 474-502, 642-705) | none | encode, append, merge a batch, decode, emit | batches are merged; awareness messages arrive late and repeated | nothing a client sends is lost by merging |
| **Namespace life cycle** (`y-socket-io.js` 550-584, 768-840) | persist timer, cleanup timer, save under way | debounce, clean up, cancel | timers and saves wait for and cancel each other across awaits; the lease is asked for, refused and released by scripts under way | a cleanup drops no pending save; a closed namespace leaves nothing behind |
| **Client provider** (`client.js`) | local document, synced flag, retry counter | update, acknowledgment, retry, resync, BroadcastChannel | lost acknowledgments, reconnects | what the user typed reaches the stream |
| **Storage adapters** (`storage/*.js`) | rows | `persistDoc`, `retrieveDoc`, `deleteReferences` | I/O | saves only add; only referenced rows are deleted |
| **Entry points, authentication** (`server.js`, `socketio.js`, `bin/`, `user.js`) | a cache of users | start, check token | - | - |

How they interact: a client's update goes from the provider through a socket
handler and `addMessage` to the room's stream. Every server with the namespace
open reads the stream in its subscriber loop and emits what it read to its
sockets. A connecting client gets the document from `getDoc`, which is storage
plus stream, and the handler rewinds the subscription when it was ahead of that
document. The stream is copied to storage either by workers, which learn of it
from the task that the first append queues, or, with `Y_WORKER_DISABLED`, by the
server that holds the namespace's lease, triggered by what its subscription
reads; the save itself may run in a thread. Only after a save is the stream
trimmed. The hazards, with their lines and the properties that cover them, are
listed in `PROJECT.json`.

## 2. Modules

| Module | Models | State ↔ code |
|---|---|---|
| `RedisStream` | ids, their order and successor, `XADD`/`XTRIM`, `getTrimBoundary`, `trimRoomStream` | operators only; an id is a record `[ms, seq]`, `MaxSeq` the greatest sequence number |
| `DurableRoom` | *abstract*: what persistence promises for one document | `accepted`, `live` (what a full read returns), `durable` (storage) |
| `RoomPersistence` | one document with `Y_WORKER_DISABLED`: appends, leases, `persistNamespace` and `getDoc` await by await | `entries`, `lastGen`, `deadline`: the stream; `stored`; `pc`, `snapDoc`, `snapId`: each server's `persistNamespace`; `rpc`, `rdoc`: readers' `getDoc`; `strays`: writes nobody waits for |
| `PersistentLeader` | the lease of one namespace | `key`: the Redis key; `mine` = `persistentLeaderOf`; `pending` = `pendingLeaderAcquisitions`; `scripts`, `replies`: what is under way |
| `WorkerQueue` | one document with workers | `tasks`, `idset`, `checklist`: Redis; `rows`: storage; `loop`, `taken`: a worker's loop; `jobs`: tasks being processed, with what each awaits |
| `Subscription` | one namespace on one server: loop, sockets, cache | `sub` = `subs.get(stream)` with `id` and `nextId`; `calls`: `getDoc`s under way and who made them; `cached` = `namespaceDocMap`; `known`, `synced`: the clients |
| `PersistWorker` | the save thread seen from the server, and the thread | `requests` = `workerPersistRequests`; `ready`, `beat`, `check`: `workerReady`, `workerLastHeartbeat`, `workerHeartbeatContext` and where the check waits; `status`, `saving`: threads |
| `MessagePath` | a message from client to clients through encoding, stream, merging and decoding | `stream`, `read`; `doc`, `aware`: an observer |
| `Namespace` | one namespace on the servers that persist it, from the first connection to its cleanup | `ns[s]`: `sockets` = `nsp.sockets`, `open` = `namespaceMap` and the subscription, `seen` = its position, `doc` = `namespaceDocMap`, `timer` = `debouncedPersistMap`, `save` = `awaitingPersistMap`, `cleanup` = `awaitingCleanupNamespace`, `calls`: `getDoc`s under way, `ask` = `pendingLeaderAcquisitions` and where the request is; `lease`: the Redis key, `left`: its server has given it up or died, so that it is about to be deleted or to run out |
| `Provider` | the client's providers of one room in one browser, and what the server's handlers do with what they send | `tab[c]`: `mode` = `socket.connected`, `synced`, `doc`, `retries` = `_updateRetries`, `waiting`: calls of `onUpdateDoc`, `out` and `acks`: messages under way or buffered, `bc` = `bcconnected`, `heard`: what the channel has yet to bring |
| `RoomPersistence_proofs`, `PersistentLeader_proofs`, `WorkerQueue_proofs`, `Subscription_proofs`, `PersistWorker_proofs`, `MessagePath_proofs`, `Namespace_proofs`, `Provider_proofs` | theorems | |
| `MC...` | bounds and symmetry for TLC | |

Each await of the code ends an action; what runs between two awaits is one
action, and so is each Lua script, `MULTI` and single command. Ghost variables:
`accepted`, `lapsed` (updates that expired unsaved), `raced` (the append between
`XLEN` and `MULTI` has happened), `floor` (what was readable when a reader
began), `greeted` (what the connection handler's own document held), `raised` (a
pending rewind was replaced by a later one), `overlooked` (a socket that was
turned away was taken for a user), `excused` (updates that nobody need save, see below), `stray` (changes that nobody is about to
send), `outcome`, `sent`. Operators marked
*Faulty* or *Mutant* are not part of a specification: they are what a
plausible bug would make of the definition after them, and serve to see that a
property would notice.

Assumptions made throughout, all of them about the world outside `src/`:
updates merge as sets (Yjs); one document stands for all, as documents share
nothing but the order in which tasks are taken; random UUIDs are fresh; a Redis
command, script or `MULTI` is atomic; between different connections, and in
`PersistentLeader` and `PersistWorker` also within one, no order of messages is
assumed. Where one model takes another's result as given, it says so:
`Subscription` takes from `RoomPersistence` that `getDoc` is complete, and
`RoomPersistence` takes from `PersistentLeader` only that a lease may lapse
at any time. `Namespace` takes from `RoomPersistence` that storage holds a first
part of the updates, and from `PersistentLeader` that tokens tell acquisitions
apart, so that no late release or renewal touches a newer lease. It has the lease
itself with what is between a server and Redis: a request, which is shared as long
as it is pending, its script and its reply are three steps; a closing sends a
release that runs later or, lost, leaves the key to its five seconds (`Release`);
and a holder's key may run out at any time (`Expire`). What a server believes is
left out where it only decides whether a cleanup timer is extended: `isLeader` may
be either there. `Namespace` assumes that a `getDoc`, or a request for the
lease, takes less than the 30 s of the cleanup timer; without that,
`NothingLeftBehind` fails. `Provider` takes from
`Subscription` that a connected client gets what is accepted. Storage only adds
rows, as every adapter of the repository does; its README asks of an adapter that
replaces documents that it order its commits itself.

## 3. Runs

| Run | Question | Bounds, and why they suffice |
|---|---|---|
| `room` | Do two servers and a reader keep every update readable, with every fault? | 2 servers, 1 reader, one update appended twice (a resent or awareness entry counts as an append too), clock up to 3, time to live 2, minimum lifetime 1, skew 1, one stray write. One update is enough for loss: it is appended before, during or after the snapshot. Two ids per millisecond make the carry of the successor happen |
| `lease` | Does a token survive late scripts, and does a lease end? | 2 servers, 2 acquisitions, 1 broken connection, any number of heartbeats. Three acquisitions were checked for safety as long as memory allowed; the third adds no new kind of overtaking |
| `queue_safe` | Is anything lost, or a task, when tasks run twice? | 2 workers, 2 jobs at once, 3 tasks, 2 updates, clock up to 3, jobs slower than the timeout. Time to live 2: the stream may expire and be appended to anew, so that a second task is queued while the first is still there. One id per millisecond: the successor always carries; `room` has two |
| `queue_live` | Is everything persisted in the end, short of one race? | 2 workers, one failing call, one death, 2 updates, 3 tasks. Time to live 2 with a clock up to 2: no stream expires, so that the promise is not kept by `lapsed`. `Bounded` in the cfgs of the queue cuts off a third job at once and a third entry; what is promised is checked for the behaviours without |
| `queue_orphan` | Is it in that race? (violated, see 5) | 1 worker, no fault |
| `subscription` | Does a synced client get everything when workers persist, and does the connection handler's rewind work with the cache? | whether documents are cached is chosen at the start; 2 sockets, 2 entries, batches of one. Without the cache 2 calls under way, slower than the timers; with it 1 when another client asks, and calls are faster than the 30 s cleanup timer |
| `subscription_stale` | Does a synced client get everything with the cache? (violated, see 5) | same, with 2 calls under way |
| `worker_thread` | Do saves in the thread settle, truthfully? | 3 threads, 2 requests of one room, one blocked event loop; a second request is the retry that a late answer could settle |
| `messages` | Do changes and presence get through merging? | 2 clients, 2 changes, 5 entries, batches up to 3 (1 is passed on unmerged), 2 states per client |
| `messages_leaving` | Does absence? (violated, see 5) | 3 entries |
| `namespace` | Is an update that is not saved always before a server that will save it, and is a deserted namespace closed? | 2 servers, one that leads and one that does not; 2 connections in all, both on one server or one on each, in any order with all else, so that a namespace is opened again after a closing; 1 update, 1 call under way when another begins, 1 fault: a failed save or request, a stop or a socket turned away. Leases run out and are sought anew any number of times, and releases take any time. One update is enough: it is accepted, read, dropped or saved before, during or after each step of the other server |
| `provider` | Does every change reach the stream, and the other clients? | 2 providers on one channel, 2 changes, retries up to 1 in place of 3, and 2 faults: broken connections, failed appends, answers later than the timeout. Two changes make the counter, which all share, pass the limit while another change waits |

Deadlock is not checked anywhere: clocks, ids, appends and failures are
bounded, so every model stops at its bounds.

What the properties say is written above each of them. Those to begin with:
`NoLostUpdate`, `ReadsComplete`, `TrimsAreSafe` and `ImplementsDurableRoom`
(`RoomPersistence`, the first and last also `WorkerQueue`); `UnsavedIsWatched`
(`Namespace`) and `NothingForgotten` (`Provider`); `StreamsAreQueued`
and `EventuallyPersistedUnlessRaced` (`WorkerQueue`); `BeliefIsTrue` and
`LeaseIsAccountedFor` (`PersistentLeader`); `NothingMissedUncached` and
`HandlerCatchesUp` (`Subscription`); `ResolvedIsStored` and `EverySaveSettles`
(`PersistWorker`).

### Fairness

- `PersistentLeader`: Redis executes scripts, the server handles replies, and
  the heartbeat goes on: its timer sets itself again whatever happens
  (`y-socket-io.js` 921-931). No fairness for expiry, so that a lease is given
  back rather than waited out.
- `WorkerQueue`: a worker's loop runs on and its calls settle. Strong fairness
  for a reclaim that finds something: a pending task that is overdue is not
  overlooked each time, although others' clocks and rounds interfere. No
  fairness for appends, failures and deaths.
- `Subscription`: the loop asks again after each answer (`subscriber.js` 12-31),
  and `XREAD` is answered, again and again, when there is something to answer;
  `getDoc`s need none, as a client counts once it has been answered.
- `PersistWorker`: both event loops run, except that of a blocked thread; timers
  fire, `terminate()` ends a thread, and the storage settles each `persistDoc`.
  The last is assumed: a storage call that hangs in a thread that answers pings
  would hold its room up for good, as there is no timeout on requests. The last
  thread of the bound stays healthy.
- `Namespace`: on each server something that is due is done in the end: reads and
  requests are answered, timers fire, saves settle. No fairness for users, appends
  and faults, nor for the release and the expiry of leases: `DesertedIsClosed` does
  not wait for a key to go.
- `Provider`: for each provider likewise: a connection that it wants comes,
  messages and answers arrive, its timeouts fire. `EventuallyConverges` asks
  besides that in the end no user keeps a provider disconnected.

## 4. Theorems

`RoomPersistence_proofs` proves, for any sets of servers, readers and updates,
any retention, time to live and clock skew, and with all faults, from the named
assumptions of the modules:

| Theorem | Statement |
|---|---|
| `Invariance` | `Spec => []Inv` |
| `Types` | `Spec => []TypeOK` |
| `Durability` | `Spec => []NoLostUpdate` |
| `CompleteReads` | `Spec => []ReadsComplete` |
| `SafeTrims` | `Spec => TrimsAreSafe` |
| `Refinement` | `Spec => ImplementsDurableRoom` |
| `KeepsWhatIsReadable` | only the expiry of a stream makes anything unreadable |

The argument. `NoLostUpdate` is not inductive: a trim preserves it only if what
it removes is stored, and the trim knows no more than the last id of a snapshot
taken several awaits ago. So `Inv` adds `SnapshotsCover`: from the stream read
on, the snapshot holds every entry at or below its last id, and once the save has
resolved storage holds the snapshot. That stays true under appends only because a
new id is above all earlier ones (`StreamIsOrdered`), and under expiry because a
stream that begins anew does so above every position of a snapshot (`Passed`):
Redis' clock has moved past the old ids by then. `ReadersCatchUp` is the same
for `getDoc`: what it missed in the stream was saved before it was trimmed, so
the later read of storage finds it; with the two reads in the other order it
would not (`StoreFirstGetDoc`). The first lemmas, which `WorkerQueue_proofs` has too,
say what the order of ids, `NextId` and the trim boundary do. `Refinement` maps a save's commit to
`Save`, an append to `Accept`, expiry to `Lapse`, and everything else, the trim
above all, to a stutter. `Inv` is also checked by `room`.

`WorkerQueue_proofs` proves, for any workers, updates, tasks and bounds, with
calls that fail, workers that die and jobs that outlast the reclaim timeout:

| Theorem | Statement |
|---|---|
| `QueueInvariance` | `Spec => []Inv` |
| `QueueTypes` | `Spec => []TypeOK` |
| `QueueDurability` | `Spec => []NoLostUpdate` |
| `TasksAreKept` | `Spec => []StreamsAreQueued` |
| `QueueRefinement` | `Spec => ImplementsDurableRoom` |
| `QueueKeepsWhatIsSaved` | storage never shrinks, and only the expiry of a stream makes anything unreadable |

The argument for the trim is that of `RoomPersistence`, with a job in place of a
server: its last id authorizes what it trims (`JobsCover`). A stream may here also
be deleted and begin anew between a job's read and its trim; it does so above
every position of a job, because a stream is emptied only of entries older than
now (`StreamIsOrdered`, `Passed`). Rows add a second way to lose: a job deletes
those it has merged. `PurgesAreCovered` says that all which is stored is also in
rows nobody is about to delete. Several jobs may delete the same rows at once, as
each has first added one of its own, with a reference nobody has read; that there
is always such a reference is why the known ones are finite. `StreamsAreQueued`
needs `DropsAreRaced`: a job that is about to drop its task has seen the stream
empty, and if it is not any more, that was the race.

`PersistentLeader_proofs` proves, for any servers, acquisitions and broken
connections:

| Theorem | Statement |
|---|---|
| `LeaseInvariance` | `Spec => [](TypeOK /\ Inv)` |
| `BeliefsAreTrue` | `Spec => []BeliefIsTrue` |
| `LeasesAreAccountedFor` | `Spec => []LeaseIsAccountedFor` |

The argument. A belief could become false without expiry only by a release that is
still under way when its server comes to believe in the token again. So the
invariant keeps apart what a server may come to believe (`MayBelieve`: its token,
those in the request it waits for and in the answer to it) and what it may give
back (`MayGiveBack`: those in requests it no longer waits for). `GivenUpForGood`
says that no token is both, nor in a release script and still believable. It is
inductive because a new request brings a token that is nowhere yet
(`TokensAreMade`), because a request is in one place only (`RequestsAreUnique`),
and because with documents cached a server asks only for a namespace in use,
whose cleanup drops belief and request at once. Without the cache a slow connection
may ask after the cleanup (`y-socket-io.js` 303), which is why `BeliefIsTrue` is conditional.
`LeaseIsAccountedFor` is about the time before a connection breaks, with the cache
and without. A belief ends when an answer denies it, and then the key must be
another's for good (`DenialsStay`). It is, because a token that has been granted,
answered or refused is in no request any more (`NoneIsAskedAgain`), and because a
server learns of nothing else while it waits for a request (`RequestsKeepBelief`),
so that an answer which does not name the token believed in was right not to.

`Subscription_proofs` proves, for any sockets, entries and `COUNT`, and any number
of calls:

| Theorem | Statement |
|---|---|
| `SubscriptionTypes` | `Spec => []TypeOK` |
| `SyncedMissNothing` | `Spec => []NothingMissedUncached` |
| `HandlersCatchUp` | `Spec => []HandlerCatchesUp` |

The argument. The read under way may be older than the subscription, if the
namespace was closed and opened again meanwhile, and then it skips entries. So the
invariant says that whatever it skips the position has passed or was appended before
the subscription was made (`NothingSkipped`), and that the documents read for
the sockets of this subscription, and the cached one, hold the latter
(`DocsAreWhole`). A rewind is pending until the loop is done with its batch, and
goes back (`PositionsExist`); as the position itself is not touched, nothing is
skipped by it. What is due to a client then stays due until it is handed out
(`AheadStays`, `ComingStays`), or is in the document it waits for.

`PersistWorker_proofs` proves, for any rooms and requests, any number of threads
and however often they are blocked:

| Theorem | Statement |
|---|---|
| `ThreadInvariance` | `Spec => [](TypeOK /\ Inv)` |
| `SavesAreTruthful` | `Spec => []ResolvedIsStored` |
| `SavesAreHeard` | `Spec => []NoOrphanRequest` |
| `ReadinessIsTrue` | `Spec => []ReadyIsCurrent` |
| `ThreadsTakeTurns` | `Spec => []OneThread` |
| `StoppedForGood` | a destroyed server without a thread stays without one |

The argument. `NoOrphanRequest` and `ReadyIsCurrent` need each other and what the
threads are: a request is posted only when ready, ready is set only by a message
of the thread in use, and a thread whose exit has been handled has no message
left (`SilentIsUnheard`). A replacement comes after that exit, when no entry is
left. `ResolvedIsStored` needs that answers under way are true and that an id
has one entry. That the last thread of the bound is never replaced
(`LastThreadStays`) only keeps the model within its bound. `OneThread` is inductive
with that: a thread is created only where the current one is gone. It leaves of
`StopsForGood` that a thread which is told to end does so, `StoppedForGood` that
none follows.

`Namespace_proofs` proves, for any servers, sockets, updates and faults:

| Theorem | Statement |
|---|---|
| `Types` | `Spec => []TypeOK` |
| `NobodyIsRelyingInVain` | `Spec => []UnsavedIsWatched` |
| `Cleaning` | `Spec => []IdleIsCleanedUp` |
| `Closing` | `Spec => []NothingLeftBehind` |

The argument. The three hold together. A server drops its save when it is refused
the lease, so `UnsavedIsWatched` is about the server that stands behind the lease
(`Holder`: the key is its, and it has not given it up): it has yet to read the
update, or has a timer, a save or a `getDoc` under way that will see it. A
cleanup may take that away only if it is sure of the rest: one that has fired waits
for a save, a save is of a namespace with a document, and with a document no
`getDoc` begins that would come back to a closed namespace.

A refusal may be old when it arrives. `IInv` says what is left of it: a server whose
request has been refused does not stand behind the lease, since only a request of
its own could change that, and it has one at a time. So when it drops its save
either another server stands behind the lease, and watches, or none does. Then a
server with users watches all the same, as the last to leave makes it save, and what
one without users drops is excused.

What `excused` covers, at the step where it happens, is what the code does not
promise. Each clause is needed: with any one of them taken away TLC finds
`UnsavedIsWatched` violated under the bounds of `namespace`.

| Excused | Where | Without it |
|---|---|---|
| what a server without users drops when it is refused a lease that nobody stands behind | `Becomes` (`dropped`) | A closes and its release is under way, or lost; an update is accepted that B, which has lost its last user, has yet to read; B reads it, is refused, and drops its save (`y-socket-io.js` 839, 588-589) |
| what the holder, or the last server, closes unread | `Becomes` | B has dropped its save for A, whose cleanup comes before it reads the update |
| what a server leaves to a socket that was turned away | `Becomes` (`overlooked`) | nobody persists when that socket leaves |
| what is accepted before a key runs out under its holder | `Expire` | B has dropped its save for A; then B gets the lease, and A is refused |
| what is accepted before the reply that carried a new token is lost | `RequestFails` | the same, as nobody knows the token |
| what is accepted before a server stops | `Stop` | the same, or it was the only one that would save |

`Provider_proofs` proves, for any providers and changes, any patience and any number
of faults:

| Theorem | Statement |
|---|---|
| `ProviderTypes` | `Spec => []TypeOK` |
| `NothingIsForgotten` | `Spec => []NothingForgotten` |

The argument. What a provider hears from another counts like what it has. A
provider that gives up a change is no longer connected, and owes all it has to the
next handshake; only one that is connected takes itself for synchronized; and when
the append of an awaited update fails, the call of `onUpdateDoc` still waits, or
the change is accepted already. `TypeOK` bounds the retry counter, which the code
does not: it can pass the patience only while calls end for want of a connection,
and with each retry beyond it there is one call fewer to wait (`Bounded`).

`MessagePath_proofs` proves, for any changes and clients, any number of messages and
of awareness states, and any `COUNT`:

| Theorem | Statement |
|---|---|
| `MessageTypes` | `Spec => []TypeOK` |
| `ChangesAreDelivered` | `Spec => []ChangesGetThrough` |
| `PresenceIsDelivered` | `Spec => []PresenceGetsThrough` |

The argument. An observer is compared, up to where the stream has been read, with one
that takes each message by itself. They have the same changes. Of a client their
awareness may differ, as that it has left gets lost in a batch; but the observer's
clock is never ahead, and where the other sees the client the two agree
(`Behind`). One message keeps that, since both take it or, if only the observer
does, the other is at a clock as high. A batch keeps it too: merging begins with an
`Awareness` that knows nobody but itself, and that learns of each client whose clock
the batch advances exactly what the other comes to know of it, and of no client a
later clock (`BatchAgrees`); the observer then takes that as one message
(`Receiving`). On the way it is used that each message in the stream tells of one
client (`Told`).
`ApplyMessages` is a recursive function, and the library's induction is out of reach
(below); that the function exists and what it does with one message more is
proved from the least index at which it would not (`LeastExists`, `LoopExists`,
`Applying`).

Only model-checked: all liveness (TLAPS has no support for `ENABLED` and
fairness), that is `LeaseIsGivenBack`, `FalseBeliefEnds`,
`EventuallyPersistedUnlessRaced`, `EverythingArrives`, `EverySaveSettles`,
`StopsForGood`, `DesertedIsClosed` and `EventuallyConverges`. Every other property
of a passing run is proved. Induction theorems that take an operator as a parameter
cannot be used with the installed provers; where a proof needs induction over data,
it argues by a least counterexample.

## 5. What the checks found

1. `queue_orphan`: a worker reads `XLEN` 0 (`api.js` 355) and then drops the task
   in a `MULTI` (357-362). An append in between keeps the stream, as
   `xDelIfEmpty` looks again, but queues no task, as the key exists (132). The
   stream is left without a task. It is picked up only if it grows past 100
   entries and some worker's orphan check finds it in nobody's idset; else it
   expires unsaved. `StreamsAreQueued` and `EventuallyPersistedUnlessRaced`
   show that this is the only way.
2. `subscription_stale`: with the document cache, a `getDoc` that began earlier may
   put an older document into the cache than one just returned. A client whose
   sync-step-1 is answered from it, while its connection handler compares its
   own newer document with the subscription, misses an update.
3. `messages_leaving`: `mergeMessages` encodes only the clients that are there, so
   that one has left is dropped when its message is read together with another.

Seen on the way, and not a claim of the repository that a run could refute:

- A pending rewind may be replaced by one that goes less far back (`subscriber.js`
  61-62; `HandlerCatchesUp` exempts it).
- A socket that `toobusy` turns away is taken for a user for 100 ms, and no handler
  hears it leave (`y-socket-io.js` 265-272, 806): a cleanup that falls into that
  time is called off, and the namespace and its lease stay until the next message
  (`overlooked`).
- A server that is refused the lease drops its save for good (589). If the one that
  has it stops, loses it or closes unread, nobody may save the update until the
  next message or connection. The same is so while the release of a namespace that
  another server has closed is under way, or for five seconds if it is lost: the
  script is not awaited and its failure only logged (839), and meanwhile it is the
  key of nobody that refuses others. Section 4 lists these cases (`excused`); no
  text of the repository says that they cannot be.
- The connection handler's `getDoc` and its request for the lease are awaited in a
  function whose promise nobody handles (`y-socket-io.js` 300-314): if one of them is
  rejected, the process ends, unless its host handles rejections. `Namespace` has
  both, as `Stop` and as `RequestFails`.
- A `getDoc` slower than the cleanup timer caches its document for a closed
  namespace, and the heartbeat then keeps its lease (940).
- An append fails that nobody awaits, of a step 2 or of an update that was given up
  (455, 371), or a provider that has sent a change only over the broadcast channel
  is gone (`client.js` 612): the change waits for the next handshake (`stray`).
- Changes made offline count as retries, and a few of them make a provider connect
  whose user has disconnected it (`client.js` 436); `disconnect` while it reconnects
  is ignored; `resyncInterval` is set again on each connection and the old one is not
  cleared (342-344).
- `destroy` of the server object ends the subscriber and the client, not the
  `YSocketIO` (`socketio.js` 27-30).
- With `enableAwareness: false`, the awareness message that `mergeMessages` makes
  of every batch of two or more is emitted as `sync-update` (`y-socket-io.js`
  491-492), since a new `Awareness` starts with a state of its own, as `getDoc`
  knows (`api.js` 252).
- Nothing in the repository emits the `reload` that the server listens to (424).

## 6. Not modelled

- In `Namespace`: the `getDoc` of a sync-step-1 that comes before that of its
  connection has returned, and servers that do not cache documents, whose cleanup
  is in `PersistentLeader` and `Subscription`.
- In `Provider`: awareness, and resynchronization but for what it brings.
- Bytes: encodings are modelled by which kind of message they say and what it
  carries. Messages that no client makes, of zero length or malformed, are not.
- Redis' `COUNT` limits on tasks (a worker takes what there is), its persistence
  and replication, and the start-up of the consumer group.
- SQL and S3 calls, state vectors, update callbacks of the worker, logging.
- Entry points, authentication, the user cache: start-up, HTTP, and a cache whose
  entries only grow old.
- In `WorkerQueue`, the difference between a worker's clock and Redis': a worker's
  trim there reckons with the time of Redis in place of `Date.now()` (`api.js` 307,
  373). `room` has skewed clocks; what the queue's properties say does not depend on
  how old an entry is when it is trimmed.
- In `PersistentLeader`, that the heartbeat goes through the namespaces one after
  another; in `Subscription`, awareness.

## 7. Plan

Done, in this order: `RedisStream`, `DurableRoom`, `RoomPersistence` with its
proofs, `PersistentLeader` and `PersistWorker` with theirs, `WorkerQueue`,
`Subscription`, `MessagePath`; then `Namespace` and `Provider` with their proofs,
the proofs about `WorkerQueue`, `Subscription` and `LeaseIsAccountedFor`, and those
about `MessagePath`. Left:

1. `MessagePath`: a configuration with awareness disabled.
2. What orphan recovery promises. The code keeps less than it seems to (see
   `PROJECT.json`, `api.js` 485), and no text says what it should keep.
