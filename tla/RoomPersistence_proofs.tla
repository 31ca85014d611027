------------------------ MODULE RoomPersistence_proofs ------------------------
(***************************************************************************)
(* Proofs about RoomPersistence with a storage that adds a row per save,   *)
(* which is what every adapter in src/storage does: for any servers,       *)
(* readers, updates and clocks, and with every fault.                      *)
(***************************************************************************)
EXTENDS RoomPersistence, TLAPS

USE TTLAssumption, MaxSkewAssumption, MessageAssumption, HolderAssumption,
    MaxSeqAssumption, MinLifetimeAssumption

-----------------------------------------------------------------------------
(* The stream (RedisStream).                                               *)

\* "0" is the smallest id: it never stands for an entry (api.js:29-35).
LEMMA ZeroIsLeast ==
    /\ Zero \in RedisId
    /\ \A a \in RedisId : ~ IsSmallerRedisId(a, Zero)
  BY MaxSeqAssumption DEF Zero, RedisId, IsSmallerRedisId

\* isSmallerRedisId (api.js:29-35) orders ids strictly and totally.
LEMMA IdOrder ==
    ASSUME NEW a \in RedisId, NEW b \in RedisId, NEW c \in RedisId
    PROVE  /\ ~ IsSmallerRedisId(a, a)
           /\ IsSmallerRedisId(a, b) => ~ IsSmallerRedisId(b, a)
           /\ ~ IsSmallerRedisId(a, b) /\ ~ IsSmallerRedisId(b, a) => a = b
           /\ IsSmallerRedisId(a, b) /\ ~ IsSmallerRedisId(c, b)
                => IsSmallerRedisId(a, c)
           /\ ~ IsSmallerRedisId(b, a) /\ IsSmallerRedisId(b, c)
                => IsSmallerRedisId(a, c)
           /\ ~ IsSmallerRedisId(b, a) /\ ~ IsSmallerRedisId(c, b)
                => ~ IsSmallerRedisId(c, a)
  BY MaxSeqAssumption DEF RedisId, IsSmallerRedisId

\* An id XADD gives is above the last one, and no older than the clock.
LEMMA NextIdIsLater ==
    ASSUME NEW last \in RedisId, NEW time \in Nat
    PROVE  /\ NextId(last, time) \in RedisId
           /\ IsSmallerRedisId(last, NextId(last, time))
           /\ time <= NextId(last, time).ms
  BY MaxSeqAssumption DEF RedisId, IsSmallerRedisId, NextId, Successor

\* What trimRoomStream (api.js:316-322) removes was part of the snapshot, and
\* was more than the minimum lifetime old by the caller's clock.
LEMMA TrimIsBounded ==
    ASSUME NEW es, \A e \in es : e.id \in RedisId,
           NEW persistedId \in RedisId, NEW clock \in Int,
           NEW e \in es \ TrimRoomStream(es, persistedId, clock)
    PROVE  /\ ~ IsSmallerRedisId(persistedId, e.id)
           /\ clock > e.id.ms + MinLifetime
  <1>1. e.id \in RedisId /\ IsSmallerRedisId(e.id, TrimBoundary(persistedId, clock))
    BY DEF TrimRoomStream, XTrim
  <1> QED
    BY <1>1, MinLifetimeAssumption, MaxSeqAssumption
    DEF RedisId, IsSmallerRedisId, TrimBoundary, RetentionBoundary, Successor

\* A trim only removes.
LEMMA TrimRemoves ==
    ASSUME NEW es, NEW persistedId, NEW clock
    PROVE  TrimRoomStream(es, persistedId, clock) \subseteq es
  BY DEF TrimRoomStream, XTrim

\* It removes from the old end: what is not older than an entry that stays,
\* stays.
LEMMA TrimKeepsSuffix ==
    ASSUME NEW es, \A e \in es : e.id \in RedisId,
           NEW persistedId \in RedisId, NEW clock \in Int,
           NEW e \in TrimRoomStream(es, persistedId, clock),
           NEW f \in es, ~ IsSmallerRedisId(f.id, e.id)
    PROVE  f \in TrimRoomStream(es, persistedId, clock)
  <1>1. e.id \in RedisId /\ f.id \in RedisId
    BY DEF TrimRoomStream, XTrim
  <1> QED
    BY <1>1, MaxSeqAssumption, MinLifetimeAssumption
    DEF TrimRoomStream, XTrim, RedisId, IsSmallerRedisId, TrimBoundary,
        RetentionBoundary, Successor

-----------------------------------------------------------------------------
(* Types.                                                                  *)

\* LastId names the last entry, because the last generated id is one's id.
LEMMA LastIdIsLastGen ==
    ASSUME TypeOK, StreamIsOrdered
    PROVE  /\ LastId(entries) \in RedisId
           /\ entries # {} => LastId(entries) = lastGen
           /\ ~ IsSmallerRedisId(lastGen, LastId(entries))
  <1>1. CASE entries = {}
    BY <1>1, ZeroIsLeast, IdOrder DEF LastId, TypeOK
  <1>2. CASE entries # {}
    <2> DEFINE IsLast(e) == \A f \in entries : ~ IsSmallerRedisId(e.id, f.id)
    <2>1. \A e \in entries : e.id \in RedisId
      BY DEF TypeOK, Entry
    <2>2. PICK g \in entries : g.id = lastGen
      BY <1>2 DEF StreamIsOrdered
    <2>3. IsLast(g)
      BY <2>2 DEF StreamIsOrdered
    <2>4. PICK l \in entries : l = (CHOOSE e \in entries : IsLast(e)) /\ IsLast(l)
      BY <2>3
    <2>5. ~ IsSmallerRedisId(l.id, lastGen) /\ ~ IsSmallerRedisId(lastGen, l.id)
      BY <2>2, <2>4 DEF StreamIsOrdered
    <2>6. l.id = lastGen
      BY <2>1, <2>5, IdOrder DEF TypeOK
    <2>7. LastId(entries) = l.id
      BY <1>2, <2>4 DEF LastId
    <2> QED BY <2>6, <2>7, IdOrder DEF TypeOK
  <1> QED BY <1>1, <1>2

\* What entries carry is a set of updates.
LEMMA ContentType ==
    ASSUME NEW es \in SUBSET Entry
    PROVE  Content(es) \in SUBSET Update
  BY DEF Content, Entry

LEMMA TypeStep ==
    ASSUME TypeOK, StreamIsOrdered, [Next]_vars
    PROVE  TypeOK'
  <1> USE DEF TypeOK, streamVars, saveVars, readVars, ghostVars
  <1>1. CASE UNCHANGED vars
    BY <1>1 DEF vars
  <1>2. CASE Tick
    BY <1>2 DEF Tick
  <1>3. ASSUME NEW m \in Message, AddMessage(m) PROVE TypeOK'
    <2>1. NextId(lastGen, now) \in RedisId /\ m \in SUBSET Update
      BY NextIdIsLater
    <2>2. [id |-> NextId(lastGen, now), m |-> m] \in Entry
      BY <2>1 DEF Entry
    <2> QED BY <1>3, <2>1, <2>2 DEF AddMessage
  <1>4. CASE ExpireStream
    BY <1>4, ZeroIsLeast, ContentType DEF ExpireStream
  <1>5. CASE ExpireLease
    BY <1>5 DEF ExpireLease
  <1>6. ASSUME NEW doc \in strays, CommitStray(doc) PROVE TypeOK'
    BY <1>6 DEF CommitStray, Saved
  <1>7. ASSUME NEW s \in Server, Persist(s) PROVE TypeOK'
    <2>1. CASE TryAcquire(s)    BY <2>1 DEF TryAcquire
    <2>2. CASE ReleaseLease(s)  BY <2>2 DEF ReleaseLease
    <2>3. CASE ReadStream(s)
      <3>1. Content(entries) \in SUBSET Update /\ LastId(entries) \in RedisId
        BY ContentType, LastIdIsLastGen
      <3> QED BY <2>3, <3>1 DEF ReadStream
    <2>4. CASE RetrieveDoc(s)
      <3>1. stored \cup snapDoc[s] \in SUBSET Update  OBVIOUS
      <3> QED BY <2>4, <3>1 DEF RetrieveDoc
    <2>5. CASE SendSave(s)      BY <2>5 DEF SendSave
    <2>6. CASE CommitSave(s)    BY <2>6 DEF CommitSave, Saved
    <2>7. CASE Trim(s)
      BY <2>7, TrimRemoves, ZeroIsLeast DEF Trim, Finish
    <2>8. CASE EndPersist(s)    BY <2>8, ZeroIsLeast DEF EndPersist, Finish
    <2>9. CASE AbandonSave(s)   BY <2>9, ZeroIsLeast DEF AbandonSave, Finish
    <2>10. CASE Crash(s)        BY <2>10, ZeroIsLeast DEF Crash, Finish
    <2> QED BY <1>7, <2>1, <2>2, <2>3, <2>4, <2>5, <2>6, <2>7, <2>8, <2>9, <2>10
            DEF Persist
  <1>8. ASSUME NEW r \in Reader, GetDoc(r) PROVE TypeOK'
    <2>1. CASE ReaderReadStream(r)
      <3>1. Content(entries) \in SUBSET Update /\ Readable \in SUBSET Update
        BY ContentType DEF Readable
      <3> QED BY <2>1, <3>1 DEF ReaderReadStream
    <2>2. CASE ReaderRetrieveDoc(r)
      <3>1. stored \cup rdoc[r] \in SUBSET Update  OBVIOUS
      <3> QED BY <2>2, <3>1 DEF ReaderRetrieveDoc
    <2>3. CASE ReaderReturn(r)  BY <2>3 DEF ReaderReturn
    <2> QED BY <1>8, <2>1, <2>2, <2>3 DEF GetDoc
  <1> QED BY <1>1, <1>2, <1>3, <1>4, <1>5, <1>6, <1>7, <1>8 DEF Next

-----------------------------------------------------------------------------
(* The stream.                                                             *)

\* Only three actions touch the stream.
LEMMA StreamSteps ==
    ASSUME [Next]_vars
    PROVE  \/ \E m \in Message : AddMessage(m)
           \/ ExpireStream
           \/ \E s \in Server : Trim(s)
           \/ UNCHANGED streamVars /\ (Tick \/ now' = now)
  BY DEF Next, vars, streamVars, Tick, ExpireLease, CommitStray, Persist,
         TryAcquire, ReleaseLease, ReadStream, RetrieveDoc, SendSave,
         CommitSave, EndPersist, AbandonSave, Crash, GetDoc,
         ReaderReadStream, ReaderRetrieveDoc, ReaderReturn

LEMMA StreamStep ==
    ASSUME TypeOK, StreamIsOrdered, [Next]_vars
    PROVE  StreamIsOrdered'
  <1> USE DEF StreamIsOrdered
  <1>0. /\ lastGen \in RedisId /\ now \in Nat /\ deadline \in Nat
        /\ \A e \in entries : e.id \in RedisId
    BY DEF TypeOK, Entry
  <1>1. ASSUME NEW m \in Message, AddMessage(m) PROVE StreamIsOrdered'
    <2> DEFINE id == NextId(lastGen, now)
    <2>1. id \in RedisId /\ IsSmallerRedisId(lastGen, id) /\ id.ms <= now
      BY <1>0, <1>1, NextIdIsLater DEF AddMessage
    <2>2. lastGen' = id /\ entries' = entries \cup {[id |-> id, m |-> m]}
      BY <1>1 DEF AddMessage
    <2>3. id # Zero
      BY <1>0, <2>1, ZeroIsLeast
    <2>4. \A e \in entries' : ~ IsSmallerRedisId(id, e.id)
      <3> HIDE DEF id
      <3> QED BY <1>0, <2>1, <2>2, IdOrder
    <2>5. \E e \in entries' : e.id = id
      <3> DEFINE new == [id |-> id, m |-> m]
      <3>1. new \in entries' /\ new.id = id
        BY <2>2
      <3> QED BY <3>1
    <2>6. now' = now /\ deadline' = now + TTL
      BY <1>1 DEF AddMessage
    <2>7. id.ms \in Nat
      BY <2>1 DEF RedisId
    <2> HIDE DEF id
    <2>8. now' >= 1 /\ lastGen'.ms <= now' /\ lastGen'.ms + TTL <= deadline'
      BY <1>0, <2>1, <2>2, <2>6, <2>7
    <2> QED BY <2>2, <2>3, <2>4, <2>5, <2>8
  <1>2. CASE ExpireStream
    <2>1. now' = now /\ lastGen' = Zero /\ entries' = {}
      BY <1>2 DEF ExpireStream
    <2>2. Zero.ms = 0
      BY DEF Zero
    <2> QED BY <1>0, <2>1, <2>2
  <1>3. ASSUME NEW s \in Server, Trim(s) PROVE StreamIsOrdered'
    <2>1. PICK clock \in Int :
            entries' = TrimRoomStream(entries, snapId[s], clock)
      BY <1>0, <1>3 DEF Trim, Clock
    <2>2. entries' \subseteq entries
      BY <2>1, TrimRemoves
    <2>3. ASSUME NEW e \in entries' PROVE \E f \in entries' : f.id = lastGen
      <3>1. PICK f \in entries : f.id = lastGen
        BY <2>2
      <3>2. ~ IsSmallerRedisId(f.id, e.id)
        BY <2>2, <3>1
      <3>3. f \in entries'
        BY <1>0, <2>1, <3>2, TrimKeepsSuffix DEF TypeOK
      <3> QED BY <3>1, <3>3
    <2>4. UNCHANGED <<now, lastGen, deadline>>
      BY <1>3 DEF Trim
    <2> QED BY <2>2, <2>3, <2>4
  <1>4. CASE UNCHANGED streamVars /\ (Tick \/ now' = now)
    BY <1>0, <1>4 DEF streamVars, Tick, RedisId
  <1> QED BY <1>1, <1>2, <1>3, <1>4, StreamSteps

-----------------------------------------------------------------------------
(* The snapshots.                                                          *)

\* A position that has been passed stays passed, and a new entry is above it.
LEMMA PassedStep ==
    ASSUME TypeOK, StreamIsOrdered, [Next]_vars, NEW id \in RedisId, Passed(id)
    PROVE  /\ Passed(id)'
           /\ \A e \in entries' \ entries : IsSmallerRedisId(id, e.id)
  <1>0. lastGen \in RedisId /\ now \in Nat /\ deadline \in Nat
    BY DEF TypeOK
  <1>1. ASSUME NEW m \in Message, AddMessage(m)
        PROVE  Passed(id)' /\ \A e \in entries' \ entries : IsSmallerRedisId(id, e.id)
    <2> DEFINE new == NextId(lastGen, now)
    <2>1. new \in RedisId /\ IsSmallerRedisId(lastGen, new) /\ now <= new.ms
      BY <1>0, NextIdIsLater
    <2>2. lastGen' = new /\ \A e \in entries' \ entries : e.id = new
      BY <1>1 DEF AddMessage
    <2> HIDE DEF new
    <2>3. IsSmallerRedisId(id, new)
      <3>1. CASE ~ IsSmallerRedisId(lastGen, id)
        BY <1>0, <2>1, <3>1, IdOrder
      <3>2. CASE id.ms < now
        BY <1>0, <2>1, <3>2 DEF IsSmallerRedisId, RedisId
      <3> QED BY <3>1, <3>2 DEF Passed
    <2> QED BY <2>1, <2>2, <2>3, IdOrder DEF Passed
  <1>2. CASE ExpireStream
    <2>1. lastGen' = Zero /\ now' = now /\ entries' = {}
      BY <1>2 DEF ExpireStream
    <2>2. lastGen.ms < now /\ lastGen.ms \in Nat /\ id.ms \in Nat
      BY <1>0, <1>2 DEF ExpireStream, StreamIsOrdered, RedisId
    <2>3. id.ms < now
      BY <1>0, <2>2 DEF Passed, IsSmallerRedisId, RedisId
    <2> QED BY <2>1, <2>3 DEF Passed
  <1>3. ASSUME NEW s \in Server, Trim(s)
        PROVE  Passed(id)' /\ \A e \in entries' \ entries : IsSmallerRedisId(id, e.id)
    BY <1>3, TrimRemoves DEF Trim, Passed
  <1>4. CASE UNCHANGED streamVars /\ (Tick \/ now' = now)
    BY <1>0, <1>4 DEF streamVars, Tick, Passed, RedisId
  <1> QED BY <1>1, <1>2, <1>3, <1>4, StreamSteps

\* The part of SnapshotsCover about one server.
SnapshotCovers(s) ==
    /\ Passed(snapId[s])
    /\ \A e \in entries :
         pc[s] \in {"read", "snapshot", "saving", "saved"}
           /\ ~ IsSmallerRedisId(snapId[s], e.id) => e.m \subseteq snapDoc[s]
    /\ pc[s] = "saved" => snapDoc[s] \subseteq stored

\* Storage never loses anything: every save adds a row.
LEMMA StoredGrows ==
    ASSUME [Next]_vars
    PROVE  stored \subseteq stored'
  BY DEF Next, vars, Tick, AddMessage, ExpireStream, ExpireLease, CommitStray,
         Saved, Persist, TryAcquire, ReleaseLease, ReadStream, RetrieveDoc,
         SendSave, CommitSave, Trim, EndPersist, AbandonSave, Crash, GetDoc,
         ReaderReadStream, ReaderRetrieveDoc, ReaderReturn

LEMMA SnapshotStep ==
    ASSUME TypeOK, StreamIsOrdered, SnapshotsCover, [Next]_vars
    PROVE  SnapshotsCover'
  <1> DEFINE Busy == {"read", "snapshot", "saving", "saved"}
  <1>0. /\ lastGen \in RedisId
        /\ \A s \in Server : snapId[s] \in RedisId
        /\ \A e \in entries : e.id \in RedisId
    BY DEF TypeOK, Entry
  <1>1. SUFFICES ASSUME NEW s \in Server PROVE SnapshotCovers(s)'
    BY DEF SnapshotsCover, SnapshotCovers
  <1>2. SnapshotCovers(s)
    BY DEF SnapshotsCover, SnapshotCovers
  <1> USE DEF SnapshotCovers
  \* Nothing happened to the server's own snapshot.
  <1>3. CASE UNCHANGED <<pc[s], snapDoc[s], snapId[s]>>
    <2>1. /\ Passed(snapId[s])'
          /\ \A e \in entries' \ entries : IsSmallerRedisId(snapId[s], e.id)
      <3>1. PICK id \in RedisId : id = snapId[s]
        BY <1>0
      <3>2. Passed(id) /\ snapId[s]' = id
        BY <1>2, <1>3, <3>1
      <3>3. Passed(id)' /\ \A e \in entries' \ entries : IsSmallerRedisId(id, e.id)
        BY <3>2, PassedStep
      <3> QED BY <3>1, <3>2, <3>3
    <2>2. ASSUME NEW e \in entries', pc[s] \in Busy,
                 ~ IsSmallerRedisId(snapId[s], e.id)
          PROVE  e.m \subseteq snapDoc[s]
      BY <1>2, <2>1, <2>2
    <2>3. pc[s] = "saved" => snapDoc[s] \subseteq stored'
      BY <1>2, StoredGrows
    <2> QED BY <1>3, <2>1, <2>2, <2>3
  \* The server's snapshot ends.
  <1>4. CASE pc'[s] = "idle" /\ snapId'[s] = Zero
    BY <1>4, StreamStep, TypeStep, ZeroIsLeast DEF Passed, TypeOK
  <1>5. CASE ReadStream(s)
    <2>1. /\ pc' = [pc EXCEPT ![s] = "read"]
          /\ snapDoc'[s] = Content(entries)
          /\ snapId'[s] = LastId(entries)
          /\ UNCHANGED <<now, entries, lastGen>>
      BY <1>5 DEF ReadStream, streamVars, TypeOK
    <2>2. Passed(snapId[s])'
      BY <2>1, LastIdIsLastGen DEF Passed
    <2>3. \A e \in entries : e.m \subseteq Content(entries)
      BY DEF Content
    <2>4. pc'[s] = "read"
      BY <2>1 DEF TypeOK
    <2> QED BY <2>1, <2>2, <2>3, <2>4
  <1>6. CASE RetrieveDoc(s) \/ SendSave(s) \/ CommitSave(s)
    <2>1. /\ snapId' = snapId /\ UNCHANGED <<now, entries, lastGen>>
          /\ snapDoc[s] \subseteq snapDoc'[s]
          /\ pc[s] \in Busy
      BY <1>6 DEF RetrieveDoc, SendSave, CommitSave, streamVars, TypeOK
    <2>2. pc'[s] = "saved" => snapDoc'[s] \subseteq stored'
      BY <1>6 DEF RetrieveDoc, SendSave, CommitSave, Saved, TypeOK
    <2> QED BY <1>2, <2>1, <2>2 DEF Passed
  \* No other step touches it, another server's included.
  <1> DEFINE OneOf ==
        \/ UNCHANGED <<pc[s], snapDoc[s], snapId[s]>>
        \/ pc'[s] = "idle" /\ snapId'[s] = Zero
        \/ ReadStream(s)
        \/ RetrieveDoc(s) \/ SendSave(s) \/ CommitSave(s)
        \/ TryAcquire(s)
  <1>7. OneOf
    <2>1. ASSUME NEW q \in Server, Persist(q) PROVE OneOf
      <3>1. CASE q = s
        BY <2>1, <3>1 DEF TypeOK, saveVars, Persist, ReleaseLease, Trim,
             EndPersist, AbandonSave, Crash, Finish
      <3>2. CASE q # s
        BY <2>1, <3>2 DEF TypeOK, saveVars, Persist, TryAcquire, ReleaseLease,
             ReadStream, RetrieveDoc, SendSave, CommitSave, Trim, EndPersist,
             AbandonSave, Crash, Finish
      <3> QED BY <3>1, <3>2
    <2> QED BY <2>1 DEF Next, vars, saveVars, Tick, AddMessage, ExpireStream,
         ExpireLease, CommitStray, GetDoc, ReaderReadStream, ReaderRetrieveDoc,
         ReaderReturn
  <1>8. CASE TryAcquire(s)
    BY <1>2, <1>8 DEF TryAcquire, streamVars, Passed, TypeOK
  <1> QED BY <1>3, <1>4, <1>5, <1>6, <1>7, <1>8

-----------------------------------------------------------------------------
(* What a reader sees.                                                     *)

\* A trim removes only what is saved, and old enough.
LEMMA TrimOfSaved ==
    ASSUME TypeOK, SnapshotsCover, NEW s \in Server, Trim(s),
           NEW e \in entries \ entries'
    PROVE  e.m \subseteq stored /\ now + MaxSkew >= e.id.ms + MinLifetime
  <1>1. /\ snapId[s] \in RedisId /\ now \in Nat /\ e.id.ms \in Nat
        /\ \A f \in entries : f.id \in RedisId
    BY DEF TypeOK, Entry, RedisId
  <1>2. PICK clock \in Clock : entries' = TrimRoomStream(entries, snapId[s], clock)
    BY DEF Trim
  <1>3. clock \in Int /\ clock <= now + MaxSkew
    BY <1>1 DEF Clock
  <1>4. ~ IsSmallerRedisId(snapId[s], e.id) /\ clock >= e.id.ms + MinLifetime
    BY <1>1, <1>2, <1>3, TrimIsBounded
  <1>5. e.m \subseteq stored
    BY <1>4 DEF SnapshotsCover, Trim
  <1> QED BY <1>1, <1>3, <1>4, <1>5

\* How each step changes what is readable: appends and saves add to it, the
\* expiry of the stream leaves what is stored, and nothing else shows, the
\* trim least of all.
ReadableStep ==
    \/ \E m \in Message : AddMessage(m) /\ Readable' = Readable \cup m
    \/ ExpireStream /\ Readable' = stored
    \/ /\ \E doc \in SUBSET accepted :
            stored' = stored \cup doc /\ Readable' = Readable \cup doc
       /\ UNCHANGED ghostVars
    \/ UNCHANGED <<ghostVars, stored, Readable>>

LEMMA ReadableSteps ==
    ASSUME TypeOK, SnapshotsCover, OnlyAccepted, [Next]_vars
    PROVE  ReadableStep
  <1> USE DEF ReadableStep, ghostVars
  <1>1. ASSUME NEW m \in Message, AddMessage(m) PROVE ReadableStep
    <2>1. PICK new : new.m = m /\ entries' = entries \cup {new}
      BY <1>1 DEF AddMessage
    <2>2. Content(entries)' = Content(entries) \cup m
      BY <2>1 DEF Content
    <2>3. stored' = stored
      BY <1>1 DEF AddMessage
    <2> QED BY <1>1, <2>2, <2>3 DEF Readable
  <1>2. CASE ExpireStream
    <2>1. entries' = {} /\ stored' = stored
      BY <1>2 DEF ExpireStream
    <2>2. Content(entries)' = {}
      BY <2>1 DEF Content
    <2> QED BY <1>2, <2>1, <2>2 DEF Readable
  <1>3. ASSUME NEW doc \in strays, CommitStray(doc) PROVE ReadableStep
    <2>1. doc \in SUBSET accepted
      BY DEF OnlyAccepted
    <2>2. stored' = stored \cup doc /\ entries' = entries /\ UNCHANGED ghostVars
      BY <1>3 DEF CommitStray, Saved, streamVars
    <2>3. Readable' = Readable \cup doc
      BY <2>2 DEF Readable, Content
    <2> QED BY <2>1, <2>2, <2>3
  <1>4. ASSUME NEW s \in Server, CommitSave(s) PROVE ReadableStep
    <2>1. snapDoc[s] \in SUBSET accepted
      BY DEF OnlyAccepted
    <2>2. stored' = stored \cup snapDoc[s] /\ entries' = entries
            /\ UNCHANGED ghostVars
      BY <1>4 DEF CommitSave, Saved, streamVars
    <2>3. Readable' = Readable \cup snapDoc[s]
      BY <2>2 DEF Readable, Content
    <2> QED BY <2>1, <2>2, <2>3
  <1>5. ASSUME NEW s \in Server, Trim(s) PROVE ReadableStep
    <2>1. entries' \subseteq entries
      BY <1>5, TrimRemoves DEF Trim
    <2>2. \A e \in entries \ entries' : e.m \subseteq stored
      BY <1>5, TrimOfSaved
    <2>3. stored' = stored /\ UNCHANGED ghostVars
      BY <1>5 DEF Trim
    <2>4. Content(entries) \subseteq Content(entries)' \cup stored
      BY <2>2 DEF Content
    <2>5. Content(entries)' \subseteq Content(entries)
      BY <2>1 DEF Content
    <2> QED BY <2>3, <2>4, <2>5 DEF Readable
  <1>6. CASE UNCHANGED <<entries, stored, ghostVars>>
    BY <1>6 DEF Readable, Content
  <1> QED BY <1>1, <1>2, <1>3, <1>4, <1>5, <1>6 DEF Next, vars, streamVars,
      Tick, ExpireLease, Persist, TryAcquire, ReleaseLease, ReadStream,
      RetrieveDoc, SendSave, EndPersist, AbandonSave, Crash, GetDoc,
      ReaderReadStream, ReaderRetrieveDoc, ReaderReturn

LEMMA AcceptedStep ==
    ASSUME TypeOK, SnapshotsCover, OnlyAccepted, NoLostUpdate, [Next]_vars
    PROVE  /\ accepted \subseteq accepted'
           /\ Readable' \cup lapsed' \subseteq accepted'
           /\ NoLostUpdate'
  <1>1. Content(entries) \subseteq Readable /\ stored \subseteq Readable
    BY DEF Readable
  <1> USE DEF NoLostUpdate, OnlyAccepted, ghostVars
  <1>2. ASSUME NEW m \in Message, AddMessage(m), Readable' = Readable \cup m
        PROVE  /\ accepted \subseteq accepted'
               /\ Readable' \cup lapsed' \subseteq accepted'
               /\ NoLostUpdate'
    BY <1>2 DEF AddMessage
  <1>3. CASE ExpireStream /\ Readable' = stored
    <2>1. lapsed' = lapsed \cup (Content(entries) \ stored) /\ accepted' = accepted
      BY <1>3 DEF ExpireStream
    <2>2. Readable = Content(entries) \cup stored
      BY DEF Readable
    <2> HIDE DEF OnlyAccepted
    <2>3. Readable \cup lapsed \subseteq accepted
      BY DEF OnlyAccepted
    <2> QED BY <1>3, <2>1, <2>2, <2>3
  <1>4. ASSUME NEW doc \in SUBSET accepted, Readable' = Readable \cup doc,
               UNCHANGED ghostVars
        PROVE  /\ accepted \subseteq accepted'
               /\ Readable' \cup lapsed' \subseteq accepted'
               /\ NoLostUpdate'
    BY <1>4
  <1>5. CASE UNCHANGED <<ghostVars, stored, Readable>>
    BY <1>5
  <1> QED BY <1>2, <1>3, <1>4, <1>5, ReadableSteps DEF ReadableStep

\* Snapshots and abandoned writes hold only what was readable.
LEMMA OnlyAcceptedStep ==
    ASSUME TypeOK, SnapshotsCover, OnlyAccepted, NoLostUpdate, [Next]_vars
    PROVE  OnlyAccepted'
  <1>1. accepted \subseteq accepted' /\ Readable' \cup lapsed' \subseteq accepted'
    BY AcceptedStep
  <1>2. Content(entries) \cup stored \subseteq accepted
    BY DEF OnlyAccepted, Readable
  <1>3. ASSUME NEW q \in Server, Persist(q)
        PROVE  /\ \A s \in Server : snapDoc'[s] \subseteq accepted
               /\ \A doc \in strays' : doc \subseteq accepted
    BY <1>2, <1>3 DEF OnlyAccepted, TypeOK, saveVars, Persist, TryAcquire,
       ReleaseLease, ReadStream, RetrieveDoc, SendSave, CommitSave, Trim,
       EndPersist, AbandonSave, Crash, Finish
  <1>4. /\ \A s \in Server : snapDoc'[s] \subseteq accepted
        /\ \A doc \in strays' : doc \subseteq accepted
    BY <1>3 DEF OnlyAccepted, Next, vars, saveVars, Tick, AddMessage,
       ExpireStream, ExpireLease, CommitStray, GetDoc, ReaderReadStream,
       ReaderRetrieveDoc, ReaderReturn
  <1> QED BY <1>1, <1>4 DEF OnlyAccepted

LEMMA ReaderStep ==
    ASSUME TypeOK, ReadersCatchUp, [Next]_vars
    PROVE  ReadersCatchUp'
  <1>1. stored \subseteq stored'
    BY StoredGrows
  <1> USE DEF ReadersCatchUp, ReadsComplete
  <1>2. CASE UNCHANGED readVars
    BY <1>1, <1>2 DEF readVars
  <1>3. ASSUME NEW r \in Reader, GetDoc(r) PROVE ReadersCatchUp'
    <2>1. CASE ReaderReadStream(r)
      BY <2>1 DEF ReaderReadStream, Readable, TypeOK
    <2>2. CASE ReaderRetrieveDoc(r)
      BY <2>2 DEF ReaderRetrieveDoc, TypeOK
    <2>3. CASE ReaderReturn(r)
      BY <2>3 DEF ReaderReturn, TypeOK
    <2> QED BY <1>3, <2>1, <2>2, <2>3 DEF GetDoc
  <1> QED BY <1>2, <1>3 DEF Next, vars, readVars, Tick, AddMessage,
      ExpireStream, ExpireLease, CommitStray, Persist, TryAcquire, ReleaseLease,
      ReadStream, RetrieveDoc, SendSave, CommitSave, Trim, EndPersist,
      AbandonSave, Crash

-----------------------------------------------------------------------------
(* The theorems.                                                           *)

LEMMA Initially == ASSUME Init PROVE Inv
  <1>1. TypeOK
    BY ZeroIsLeast DEF Init, TypeOK
  <1>2. StreamIsOrdered
    BY DEF Init, StreamIsOrdered, Zero
  <1>3. SnapshotsCover
    BY ZeroIsLeast DEF Init, SnapshotsCover, Passed
  <1>4. NoLostUpdate /\ ReadersCatchUp /\ OnlyAccepted
    BY DEF Init, NoLostUpdate, ReadersCatchUp, ReadsComplete, OnlyAccepted,
           Readable, Content
  <1> QED BY <1>1, <1>2, <1>3, <1>4 DEF Inv

LEMMA Inductive ==
    ASSUME Inv, [Next]_vars PROVE Inv'
  BY TypeStep, StreamStep, SnapshotStep, AcceptedStep, OnlyAcceptedStep,
     ReaderStep DEF Inv

\* The inductive invariant holds of every behaviour, types included.
THEOREM Invariance == Spec => []Inv
  <1>1. Init => Inv
    BY Initially
  <1>2. Inv /\ [Next]_vars => Inv'
    BY Inductive
  <1> QED BY <1>1, <1>2, PTL DEF Spec

\* Every variable keeps to its set, whatever is read, saved and trimmed.
THEOREM Types == Spec => []TypeOK
  <1>1. Inv => TypeOK
    BY DEF Inv
  <1> QED BY <1>1, Invariance, PTL

\* No accepted update is ever lost to a trim (y-socket-io.js:587-608).
THEOREM Durability == Spec => []NoLostUpdate
  <1>1. Inv => NoLostUpdate
    BY DEF Inv
  <1> QED BY <1>1, Invariance, PTL

\* A getDoc never misses what was readable when it began (api.js:243-287).
THEOREM CompleteReads == Spec => []ReadsComplete
  <1>1. Inv => ReadsComplete
    BY DEF Inv, ReadersCatchUp
  <1> QED BY <1>1, Invariance, PTL

\* Only what is stored, and old enough, leaves the stream before it expires.
THEOREM SafeTrims == Spec => TrimsAreSafe
  <1>1. Inv /\ [Next]_vars => [\A e \in entries \ entries' : Trimmed(e)]_vars
    <2> SUFFICES ASSUME Inv, [Next]_vars, NEW e \in entries \ entries'
                 PROVE  Trimmed(e)
      OBVIOUS
    <2>1. ExpireStream \/ \E s \in Server : Trim(s)
      BY StreamSteps DEF AddMessage, streamVars
    <2>2. ASSUME NEW s \in Server, Trim(s) PROVE Trimmed(e)
      BY <2>2, TrimOfSaved DEF Inv, Trimmed
    <2> QED BY <2>1, <2>2 DEF Trimmed
  <1> QED BY <1>1, Invariance, PTL DEF Spec, TrimsAreSafe

\* The servers implement the abstract room: saves and trims never show.
THEOREM Refinement == Spec => ImplementsDurableRoom
  <1>1. Init => Abstract!Init
    BY DEF Init, Abstract!Init, Readable, Content
  <1>2. Inv /\ [Next]_vars => [Abstract!Next]_(Abstract!vars)
    <2> SUFFICES ASSUME Inv, [Next]_vars PROVE [Abstract!Next]_(Abstract!vars)
      OBVIOUS
    <2>1. ASSUME NEW m \in Message, AddMessage(m), Readable' = Readable \cup m
          PROVE  Abstract!Next
      <3>1. Abstract!Accept(m)
        BY <2>1 DEF Abstract!Accept, AddMessage
      <3>2. m \in SUBSET Update
        OBVIOUS
      <3> QED BY <3>1, <3>2 DEF Abstract!Next
    <2>2. CASE ExpireStream /\ Readable' = stored
      BY <2>2 DEF Abstract!Next, Abstract!Lapse, ExpireStream
    <2>3. ASSUME NEW doc \in SUBSET accepted, stored' = stored \cup doc,
                 Readable' = Readable \cup doc, UNCHANGED ghostVars
          PROVE  Abstract!Next
      <3>1. Abstract!Save(doc)
        BY <2>3 DEF Abstract!Save, ghostVars
      <3> QED BY <3>1 DEF Abstract!Next
    <2>4. CASE UNCHANGED <<ghostVars, stored, Readable>>
      BY <2>4 DEF Abstract!vars, ghostVars
    <2>5. ReadableStep
      BY ReadableSteps DEF Inv
    <2> QED BY <2>1, <2>2, <2>3, <2>4, <2>5 DEF ReadableStep
  <1> QED BY <1>1, <1>2, Invariance, PTL DEF Spec, ImplementsDurableRoom, Abstract!Spec

\* Only the expiry of a stream makes anything unreadable: no trim does, by a
\* leader that has lost its lease or otherwise (y-socket-io.js:587-608).
THEOREM KeepsWhatIsReadable ==
    Spec => [][ stored \subseteq stored'
                /\ (Readable \subseteq Readable' \/ ExpireStream) ]_vars
  <1>1. ASSUME Inv, [Next]_vars
        PROVE  stored \subseteq stored' /\ (Readable \subseteq Readable' \/ ExpireStream)
    <2>1. ReadableStep
      BY <1>1, ReadableSteps DEF Inv
    <2>2. \A m \in Message : AddMessage(m) => stored' = stored
      BY DEF AddMessage
    <2> QED BY <2>1, <2>2 DEF ReadableStep, ExpireStream
  <1> QED BY <1>1, Invariance, PTL DEF Spec
=============================================================================
