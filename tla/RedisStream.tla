----------------------------- MODULE RedisStream -----------------------------
(***************************************************************************)
(* A Redis stream as this program uses it: a set of entries, each with an  *)
(* id <ms>-<seq> and a message.  The ids, their order and the rule by      *)
(* which an entry may be trimmed are the pure part of src/api.js; how XADD *)
(* numbers an entry and what XTRIM MINID removes are Redis' own.           *)
(*                                                                         *)
(* The stream belongs to one document.  A message is the set of updates    *)
(* it carries: Yjs updates merge as sets do (in any order, any number of   *)
(* times), and an awareness message carries the empty set.                 *)
(***************************************************************************)
EXTENDS Integers

CONSTANTS
    MaxSeq,       \* largest sequence number of an id (2^64 - 1 in Redis)
    MinLifetime   \* redisMinMessageLifetime: how long an entry must stay

ASSUME MaxSeqAssumption == MaxSeq \in Nat
ASSUME MinLifetimeAssumption == MinLifetime \in Nat

RedisId == [ms : Nat, seq : 0 .. MaxSeq]

\* The id "0", which stands for "nothing read yet".
Zero == [ms |-> 0, seq |-> 0]

IsSmallerRedisId(a, b) == a.ms < b.ms \/ (a.ms = b.ms /\ a.seq < b.seq)

\* Faulty: no carry at the last sequence number.
SuccessorNoCarry(id) == [ms |-> id.ms, seq |-> id.seq + 1]

\* The least id above id: the sequence number carries into the milliseconds.
Successor(id) ==
    IF id.seq = MaxSeq THEN [ms |-> id.ms + 1, seq |-> 0]
                       ELSE [ms |-> id.ms, seq |-> id.seq + 1]

\* Faulty: two appends in a millisecond share an id.
ClockOnlyId(last, now) == [ms |-> now, seq |-> 0]

\* The id XADD "*" gives at time now to a stream whose last id was last.
NextId(last, now) ==
    IF now > last.ms THEN [ms |-> now, seq |-> 0] ELSE Successor(last)

-----------------------------------------------------------------------------

\* XTRIM MINID boundary.
XTrim(entries, boundary) ==
    {e \in entries : ~ IsSmallerRedisId(e.id, boundary)}

\* An entry younger than MinLifetime by the caller's clock is on or above it.
RetentionBoundary(clock) ==
    [ms |-> IF clock > MinLifetime THEN clock - MinLifetime ELSE 0, seq |-> 0]

\* Faulty: whatever is old enough goes, saved or not; whatever is saved goes,
\* old enough or not.
RetentionOnlyBoundary(persistedId, clock) == RetentionBoundary(clock)
SnapshotOnlyBoundary(persistedId, clock) == Successor(persistedId)

\* getTrimBoundary of an id other than "0": what the snapshot holds may go,
\* and of that only what is old enough.
TrimBoundary(persistedId, clock) ==
    IF IsSmallerRedisId(Successor(persistedId), RetentionBoundary(clock))
    THEN Successor(persistedId) ELSE RetentionBoundary(clock)

\* trimRoomStream: no snapshot position, no trimming.
TrimRoomStream(entries, persistedId, clock) ==
    IF persistedId = Zero
    THEN entries ELSE XTrim(entries, TrimBoundary(persistedId, clock))

-----------------------------------------------------------------------------

\* The updates that the entries carry.
Content(entries) == UNION {e.m : e \in entries}

\* The id of the last entry, "0" when there is none (redisLastId of getDoc).
LastId(entries) ==
    IF entries = {} THEN Zero
    ELSE (CHOOSE e \in entries :
            \A f \in entries : ~ IsSmallerRedisId(e.id, f.id)).id
=============================================================================
