------------------------ MODULE Subscription_proofs ------------------------
(***************************************************************************)
(* Bringing clients up to date, for any number of sockets and entries,     *)
(* any COUNT and any number of slow calls of getDoc: its types, that       *)
(* without the document cache a synced client misses nothing, and that a   *)
(* connection handler makes up for what its document lacks.                *)
(*                                                                         *)
(* Both rest on the loop: whatever a read under way skips, the position    *)
(* has passed or had been appended when the subscription was made.  The    *)
(* latter happens, as the read may have been begun for a subscription      *)
(* since given up; then the documents that are read for the clients of     *)
(* the present one hold it.                                                *)
(***************************************************************************)
EXTENDS Subscription, FiniteSetTheorems, WellFoundedInduction, TLAPS

\* Positions are of entries that exist, and a pending rewind goes back.
PositionsExist ==
    /\ asked # None => reply = {} /\ asked <= head
    /\ \A n \in reply : n <= head
    /\ sub # None => /\ sub.id <= head /\ sub.since <= head
                     /\ sub.nextId # None => sub.nextId < sub.id

\* Neither behind the position nor older than the subscription.
Fresh(n) == n > sub.id /\ n > sub.since

NothingSkipped ==
    sub # None => \A n \in (base + 1) .. head :
        Fresh(n) => n \in reply \/ ((asked # None => asked < n) /\ \A m \in reply : m < n)

ForSocket(c) == c.kind \in {"connection", "step1"}

\* A document holds what was appended before the subscription, and
\* everything up to its last id.
Whole(doc, since) == 1 .. since \subseteq doc.has /\ 1 .. doc.lastId \subseteq doc.has

DocsAreWhole ==
    /\ \A c \in calls : ForSocket(c) => c.s \in Socket /\ conn[c.s] # "new"
    /\ \A c \in calls : ForSocket(c) /\ c.s \in Connected => Whole(c.doc, sub.since)
    /\ workerDisabled => \A c \in calls : sub # None /\ Whole(c.doc, sub.since)
    /\ cached # None => workerDisabled /\ sub # None /\ Whole(cached, sub.since)
    /\ \A s \in Socket : conn[s] = "up" => 1 .. sub.since \subseteq greeted[s]

\* Entries that the loop will hand out without going back.
Ahead(n) == n \in reply \/ (base < n /\ Fresh(n))

Complete(has) == \A n \in 1 .. head : n \in has \/ Ahead(n)

SyncsAreComplete ==
    ~ workerDisabled =>
        /\ \A s \in synced : Complete(known[s])
        /\ \A c \in calls : c.kind = "step1" /\ c.s \in Connected =>
             Complete(known[c.s] \cup c.doc.has)

\* Or with it.
Coming(n) == n \in reply \/ Fresh(n) \/ (sub.nextId # None /\ n > sub.nextId)

Covered(has) == \A n \in (base + 1) .. head : n \in has \/ Coming(n)

ConnectionsAreCovered ==
    ~ raised =>
        /\ \A s \in Socket : conn[s] = "up" => Covered(known[s] \cup greeted[s])
        /\ \A c \in calls : c.kind = "connection" /\ c.s \in Connected =>
             Covered(known[c.s] \cup c.doc.has)

Joined ==
    /\ Connected # {} => sub # None
    /\ synced \subseteq Connected

IInv ==
    /\ TypeOK /\ PositionsExist /\ NothingSkipped /\ Joined
    /\ DocsAreWhole /\ SyncsAreComplete /\ ConnectionsAreCovered

-----------------------------------------------------------------------------
(* Sets of entries.                                                        *)

\* A set of entries that is not empty has a greatest.
LEMMA GreatestExists ==
    ASSUME NEW S \in SUBSET Entry, S # {}
    PROVE  \E n \in S : \A m \in S : m <= n
<1> DEFINE T == {MaxHead - m : m \in S}
<1>1. MaxHead \in Nat /\ \A m \in S : m \in Nat /\ m <= MaxHead
  BY SubscriptionAssumption DEF Entry
<1>2. T \subseteq Nat /\ T # {}
  BY <1>1
<1> HIDE DEF T
<1>3. PICK x \in T : \A y \in T : <<y, x>> \notin OpToRel(<, Nat)
  BY <1>2, NatLessThanWellFounded, WFMin
<1>4. \A y \in T : x <= y
  <2>1. OpToRel(<, Nat) = {ss \in Nat \X Nat : ss[1] < ss[2]}
    BY DEF OpToRel
  <2>2. SUFFICES ASSUME NEW y \in T, y < x PROVE FALSE
    BY <1>2
  <2>3. <<y, x>> \in Nat \X Nat /\ <<y, x>>[1] < <<y, x>>[2]
    BY <1>2, <2>2
  <2>4. QED
    BY <1>3, <2>1, <2>3
<1>5. PICK n \in S : x = MaxHead - n
  BY DEF T
<1>6. \A m \in S : MaxHead - m \in T
  BY DEF T
<1>7. QED
  BY <1>1, <1>4, <1>5, <1>6

\* What a batch leaves out is after it.
LEMMA BatchIsFirst ==
    ASSUME NEW S \in SUBSET Entry
    PROVE  /\ FirstOf(S) \subseteq S
           /\ \A n \in S \ FirstOf(S), m \in FirstOf(S) : m < n
<1>1. \A n \in S : n \in Int
  BY SubscriptionAssumption DEF Entry
<1>2. SUFFICES ASSUME NEW n \in S \ FirstOf(S), NEW m \in FirstOf(S), n < m
               PROVE  FALSE
  BY <1>1 DEF FirstOf
<1>3. IsFiniteSet(S)
  <2>1. 1 \in Int /\ MaxHead \in Int
    BY SubscriptionAssumption
  <2>2. IsFiniteSet(Entry)
    BY <2>1, FS_Interval DEF Entry
  <2>3. QED
    BY <2>2, FS_Subset
<1> DEFINE below(k) == {j \in S : j < k}
<1>4. IsFiniteSet(below(m)) /\ IsFiniteSet(below(n))
  BY <1>3, FS_Subset
<1>5. below(n) \in SUBSET below(m)
  BY <1>1, <1>2 DEF FirstOf
<1>6. Cardinality(below(n)) <= Cardinality(below(m))
  BY <1>4, <1>5, FS_Subset
<1>7. Cardinality(below(n)) \in Nat /\ Cardinality(below(m)) \in Nat
  BY <1>4, FS_CardinalityType
<1>8. Cardinality(below(m)) < Count /\ ~ Cardinality(below(n)) < Count
  BY <1>2 DEF FirstOf
<1>9. QED
  BY <1>6, <1>7, <1>8, SubscriptionAssumption

-----------------------------------------------------------------------------
(* What the handlers do to the subscription.                               *)

\* A rewind is pending, not done, and goes back if it goes anywhere.
LEMMA CatchingUp ==
    ASSUME NEW r \in SubState \cup {None}, NEW doc \in Doc, NEW joined
    PROVE  LET q == CatchUp(r, doc, joined) IN
           /\ q \in SubState \cup {None}
           /\ q = None <=> r = None
           /\ r # None =>
                /\ q.id = r.id /\ q.since = r.since
                /\ q.nextId = r.nextId \/ (q.nextId = doc.lastId /\ doc.lastId < r.id)
                /\ doc.lastId < joined /\ doc.lastId < r.id => q.nextId = doc.lastId
<1>1. CASE r = None
  BY <1>1 DEF CatchUp, EnsureSubId
<1>2. CASE CatchUp(r, doc, joined) = r
  BY <1>2, NoneAssumption, SubscriptionAssumption DEF CatchUp, EnsureSubId, SubState, Doc, Position
<1>3. CASE r # None /\ CatchUp(r, doc, joined) # r
  <2>1. /\ r \in SubState /\ doc.lastId \in Position /\ doc.lastId < r.id
        /\ CatchUp(r, doc, joined) = [r EXCEPT !.nextId = doc.lastId]
    BY <1>3 DEF CatchUp, EnsureSubId, Doc
  <2>2. QED
    BY <1>3, <2>1, NoneAssumption DEF SubState
<1>4. QED
  BY <1>1, <1>2, <1>3

LEMMA Subscribing ==
    ASSUME TypeOK
    PROVE  /\ Subscribed \in SubState
           /\ sub # None => Subscribed = sub
           /\ sub = None => Subscribed.id = 0 /\ Subscribed.nextId = None
                            /\ Subscribed.since = head
BY SubscriptionAssumption DEF Subscribed, TypeOK, SubState, Position

LEMMA Reading ==
    ASSUME TypeOK
    PROVE  /\ GetDoc \in Doc
           /\ GetDoc.has = 1 .. head /\ GetDoc.lastId <= head
BY SubscriptionAssumption DEF GetDoc, TypeOK, Doc, Position, Entry

\* The position after a batch is that of an entry of the batch, and of the
\* last, unless a rewind is pending.
LEMMA Positioning ==
    ASSUME TypeOK, reply # {}, sub # None
    PROVE  /\ PositionAfterBatch \in Position
           /\ sub.nextId # None => PositionAfterBatch = sub.nextId
           /\ sub.nextId = None => /\ PositionAfterBatch \in reply
                                   /\ \A m \in reply : m <= PositionAfterBatch
<1>1. reply \in SUBSET Entry /\ sub \in SubState
  BY DEF TypeOK
<1>2. CASE sub.nextId # None
  BY <1>1, <1>2 DEF PositionAfterBatch, SubState
<1>3. CASE sub.nextId = None
  <2>1. PositionAfterBatch = CHOOSE n \in reply : \A m \in reply : m <= n
    BY <1>3 DEF PositionAfterBatch
  <2>2. PositionAfterBatch \in reply /\ \A m \in reply : m <= PositionAfterBatch
    BY <1>1, <2>1, GreatestExists
  <2>3. QED
    BY <1>1, <1>3, <2>2, SubscriptionAssumption DEF Entry, Position
<1>4. QED
  BY <1>2, <1>3

-----------------------------------------------------------------------------
(* Types.                                                                  *)

LEMMA TypeInit == Init => TypeOK
<1>1. 0 \in Position
  BY SubscriptionAssumption DEF Position
<1> SUFFICES ASSUME Init PROVE TypeOK
  OBVIOUS
<1>2. workerDisabled \in BOOLEAN /\ cleaning \in BOOLEAN /\ raised \in BOOLEAN
  BY Zenon DEF Init
<1>3. /\ conn \in [Socket -> {"new", "loading", "up", "gone"}]
      /\ initial \in [Socket -> Position]
      /\ known \in [Socket -> SUBSET Entry] /\ greeted \in [Socket -> SUBSET Entry]
  BY <1>1 DEF Init
<1>4. QED
  BY <1>1, <1>2, <1>3 DEF Init, TypeOK

LEMMA TypeStep ==
    ASSUME TypeOK, [Next]_vars
    PROVE  TypeOK'
<1> USE DEF TypeOK
<1> workerDisabled' = workerDisabled
  BY DEF Next, Configured, vars
<1>1. CASE Append
  BY <1>1, SubscriptionAssumption DEF Append, loopVars, clientVars, ghostVars, Position
<1>2. CASE Trim
  BY <1>2, SubscriptionAssumption DEF Trim, loopVars, clientVars, ghostVars, Position
<1>3. CASE Ask
  BY <1>3 DEF Ask, redisVars, clientVars, ghostVars, SubState
<1>4. CASE Answer
  <2>1. {n \in base + 1 .. head : asked < n} \in SUBSET Entry
    BY SubscriptionAssumption DEF Entry, Position
  <2>2. reply' \in SUBSET Entry
    BY <1>4, <2>1, BatchIsFirst DEF Answer
  <2>3. QED
    BY <1>4, <2>2 DEF Answer, redisVars, clientVars, ghostVars
<1>5. CASE NoAnswer
  BY <1>5 DEF NoAnswer, redisVars, clientVars, ghostVars
<1>6. CASE Deliver
  <2>1. CASE sub = None
    BY <1>6, <2>1 DEF Deliver, redisVars, ghostVars
  <2>2. CASE sub # None
    <3>1. sub' \in SubState
      BY <1>6, <2>2, Positioning DEF Deliver, SubState
    <3>2. known' \in [Socket -> SUBSET Entry] /\ cleaning' \in BOOLEAN
      BY <1>6, <2>2 DEF Deliver
    <3>3. MessageCall \in Call
      BY Reading DEF MessageCall, Call
    <3>4. cached' \in Doc \cup {None} /\ calls' \in SUBSET Call
      BY <1>6, <2>2, <3>3 DEF Deliver, Doc
    <3>5. QED
      BY <1>6, <3>1, <3>2, <3>4 DEF Deliver, redisVars, ghostVars
  <2>3. QED
    BY <2>1, <2>2
<1>7. CASE \E s \in Socket : Connect(s)
  <2>1. PICK s \in Socket : Connect(s)
    BY <1>7
  <2>2. CallOf("connection", s) \in Call
    BY Reading DEF CallOf, Call
  <2>3. Subscribed \in SubState
    BY Subscribing
  <2>4. /\ initial' \in [Socket -> Position]
        /\ conn' \in [Socket -> {"new", "loading", "up", "gone"}]
        /\ cleaning' = FALSE
    BY <2>1, <2>3 DEF Connect, SubState
  <2>5. sub' \in SubState \cup {None}
    <3>1. CASE cached # None
      <4>1. Subscribed.id \in Position
        BY <2>3 DEF SubState
      <4>2. QED
        BY <2>1, <2>3, <3>1, <4>1, CatchingUp DEF Connect
    <3>2. CASE cached = None
      BY <2>1, <2>3, <3>2 DEF Connect
    <3>3. QED
      BY <3>1, <3>2
  <2>6. calls' \in SUBSET Call /\ greeted' \in [Socket -> SUBSET Entry]
    BY <2>1, <2>2 DEF Connect, ghostVars, Doc
  <2>7. raised' \in BOOLEAN
    BY <2>1, Zenon DEF Connect, ghostVars, Raises
  <2>8. QED
    BY <2>1, <2>4, <2>5, <2>6, <2>7 DEF Connect, redisVars, loopVars
<1>8. CASE \E s \in Socket : SyncStep1(s) \/ Reload(s)
  <2>1. PICK s \in Socket : SyncStep1(s) \/ Reload(s)
    BY <1>8
  <2>2. CallOf("step1", s) \in Call /\ CallOf("reload", s) \in Call
    BY Reading DEF CallOf, Call
  <2>3. CASE SyncStep1(s)
    BY <2>2, <2>3 DEF SyncStep1, redisVars, loopVars, ghostVars, Doc
  <2>4. CASE Reload(s)
    BY <2>2, <2>4 DEF Reload, redisVars, loopVars, clientVars, ghostVars
  <2>5. QED
    BY <2>1, <2>3, <2>4
<1>9. CASE \E s \in Socket : Disconnect(s)
  BY <1>9 DEF Disconnect, redisVars, loopVars, ghostVars
<1>10. CASE \E c \in calls : GetDocReturns(c)
  <2>1. PICK c \in calls : GetDocReturns(c)
    BY <1>10
  <2>2. c.doc \in Doc /\ c.doc.has \in SUBSET Entry
    BY DEF Call, Doc
  <2>3. Returned(c)
    BY <2>1 DEF GetDocReturns
  <2>4. calls' \in SUBSET Call /\ cached' \in Doc \cup {None}
    BY <2>2, <2>3 DEF Returned
  <2>5. CASE c.kind = "connection"
    <3>1. /\ conn' \in [Socket -> {"new", "loading", "up", "gone"}]
          /\ greeted' \in [Socket -> SUBSET Entry] /\ UNCHANGED <<synced, known>>
          /\ sub' = CatchUp(sub, c.doc, initial[c.s])
      BY <2>1, <2>2, <2>5 DEF GetDocReturns
    <3>2. raised' \in BOOLEAN
      BY <2>1, <2>5, Zenon DEF GetDocReturns, Raises
    <3>3. sub' \in SubState \cup {None}
      BY <2>2, <3>1, CatchingUp
    <3>4. QED
      BY <2>3, <2>4, <3>1, <3>2, <3>3 DEF Returned, redisVars, loopVars
  <2>6. CASE c.kind = "step1" /\ c.s \in Connected
    BY <2>1, <2>2, <2>3, <2>4, <2>6
    DEF GetDocReturns, Returned, redisVars, loopVars, ghostVars, Connected
  <2>7. CASE ~ (c.kind = "connection") /\ ~ (c.kind = "step1" /\ c.s \in Connected)
    BY <2>1, <2>3, <2>4, <2>7 DEF GetDocReturns, Returned, redisVars, loopVars, ghostVars
  <2>8. QED
    BY <2>5, <2>6, <2>7
<1>11. CASE Cleanup
  BY <1>11 DEF Cleanup, redisVars, loopVars, clientVars, ghostVars
<1>12. CASE UNCHANGED vars
  BY <1>12 DEF vars, redisVars, loopVars, clientVars, ghostVars
<1>13. QED
  BY <1>1, <1>2, <1>3, <1>4, <1>5, <1>6, <1>7, <1>8, <1>9, <1>10, <1>11, <1>12
  DEF Next, Step

-----------------------------------------------------------------------------
(* The loop.                                                               *)

\* Of the subscription, handlers change at most the pending rewind; one that
\* is made when there is none is of now.
LEMMA HandlersRewind ==
    ASSUME TypeOK, NEW s \in Socket, Connect(s)
    PROVE  /\ sub' \in SubState
           /\ sub # None =>
                /\ sub'.id = sub.id /\ sub'.since = sub.since
                /\ \/ sub'.nextId = sub.nextId
                   \/ cached # None /\ sub'.nextId = cached.lastId /\ cached.lastId < sub.id
                /\ cached # None /\ cached.lastId < sub.id => sub'.nextId = cached.lastId
           /\ sub = None =>
                /\ sub'.id = 0 /\ sub'.since = head /\ sub'.nextId = None
<1>1. Subscribed \in SubState /\ None \notin SubState /\ cached \in Doc \cup {None}
  BY Subscribing, NoneAssumption DEF TypeOK
<1>2. CASE cached = None
  BY <1>1, <1>2, Subscribing DEF Connect
<1>3. CASE cached # None
  <2>1. sub' = CatchUp(Subscribed, cached, Subscribed.id) /\ cached \in Doc
    BY <1>1, <1>3 DEF Connect
  <2>2. /\ sub' \in SubState
        /\ sub'.id = Subscribed.id /\ sub'.since = Subscribed.since
        /\ \/ sub'.nextId = Subscribed.nextId
           \/ sub'.nextId = cached.lastId /\ cached.lastId < Subscribed.id
        /\ cached.lastId < Subscribed.id => sub'.nextId = cached.lastId
    <3> DEFINE r == Subscribed
    <3>1. r \in SubState \cup {None} /\ r # None
      BY <1>1
    <3> HIDE DEF r
    <3>2. /\ CatchUp(r, cached, r.id) \in SubState
          /\ CatchUp(r, cached, r.id).id = r.id
          /\ CatchUp(r, cached, r.id).since = r.since
          /\ \/ CatchUp(r, cached, r.id).nextId = r.nextId
             \/ CatchUp(r, cached, r.id).nextId = cached.lastId /\ cached.lastId < r.id
          /\ cached.lastId < r.id => CatchUp(r, cached, r.id).nextId = cached.lastId
      BY <2>1, <3>1, CatchingUp
    <3>3. QED
      BY <2>1, <3>2 DEF r
  <2>3. cached.lastId \in Nat /\ cached.lastId >= 0
    BY <2>1, SubscriptionAssumption DEF Doc, Position
  <2>4. QED
    BY <1>3, <2>2, <2>3, Subscribing
<1>4. QED
  BY <1>2, <1>3

LEMMA Delivering ==
    ASSUME TypeOK, Deliver
    PROVE  /\ sub = None => sub' = None
           /\ sub # None =>
                /\ sub' \in SubState
                /\ sub'.id = PositionAfterBatch /\ sub'.nextId = None
                /\ sub'.since = sub.since
<1>1. CASE sub = None
  BY <1>1 DEF Deliver
<1>2. CASE sub # None
  <2>1. sub' = [sub EXCEPT !.id = PositionAfterBatch, !.nextId = None] /\ sub \in SubState
    BY <1>2 DEF Deliver, TypeOK
  <2>2. PositionAfterBatch \in Position
    BY <1>2, Positioning DEF Deliver
  <2>3. QED
    BY <1>2, <2>1, <2>2 DEF SubState
<1>3. QED
  BY <1>1, <1>2

LEMMA CallsRewind ==
    ASSUME TypeOK, NEW c \in calls, GetDocReturns(c)
    PROVE  /\ sub' \in SubState \cup {None}
           /\ sub' = None <=> sub = None
           /\ sub # None =>
                /\ sub'.id = sub.id /\ sub'.since = sub.since
                /\ \/ sub'.nextId = sub.nextId
                   \/ /\ c.kind = "connection"
                      /\ sub'.nextId = c.doc.lastId /\ c.doc.lastId < sub.id
<1>1. sub \in SubState \cup {None} /\ c.doc \in Doc
  BY DEF TypeOK, Call
<1>2. CASE c.kind = "connection"
  <2>1. sub' = CatchUp(sub, c.doc, initial[c.s])
    BY <1>2 DEF GetDocReturns
  <2>2. QED
    BY <1>1, <1>2, <2>1, CatchingUp
<1>3. CASE c.kind # "connection"
  <2>1. sub' = sub
    BY <1>3 DEF GetDocReturns, ghostVars
  <2>2. QED
    BY <1>1, <2>1
<1>4. QED
  BY <1>2, <1>3

LEMMA PositionsStep ==
    ASSUME TypeOK, PositionsExist, [Next]_vars
    PROVE  PositionsExist'
<1> USE DEF PositionsExist
<1>1. /\ head \in Nat /\ base \in Nat /\ base <= head
      /\ reply \in SUBSET Entry /\ Entry \subseteq Nat
      /\ sub \in SubState \cup {None}
      /\ asked \in Position \cup {None} /\ Position \subseteq Nat
      /\ None \notin Nat /\ None \notin SubState
  BY SubscriptionAssumption, NoneAssumption DEF TypeOK, Position, Entry
<1>2. CASE Append
  <2>1. head' = head + 1 /\ UNCHANGED <<asked, reply, sub>>
    BY <1>2 DEF Append, loopVars
  <2>2. /\ asked # None => asked \in Nat
        /\ \A n \in reply : n \in Nat
        /\ sub # None => sub.id \in Nat /\ sub.since \in Nat
    BY <1>1 DEF SubState
  <2>3. QED
    BY <1>1, <2>1, <2>2
<1>3. CASE Ask
  BY <1>1, <1>3 DEF Ask, redisVars, SubState
<1>4. CASE Answer
  <2>1. {n \in base + 1 .. head : asked < n} \in SUBSET Entry
    BY SubscriptionAssumption DEF Entry, Position, TypeOK
  <2>2. \A n \in reply' : n \in base + 1 .. head
    BY <1>4, <2>1, BatchIsFirst DEF Answer
  <2>3. QED
    BY <1>1, <1>4, <2>2 DEF Answer, redisVars
<1>5. CASE Deliver
  <2>1. UNCHANGED <<head, asked>> /\ reply' = {} /\ asked = None
    BY <1>5 DEF Deliver, redisVars
  <2>2. CASE sub = None
    BY <1>5, <2>1, <2>2 DEF Deliver
  <2>3. CASE sub # None
    <3>1. PositionAfterBatch \in Nat /\ PositionAfterBatch <= head
      BY <1>1, <1>5, <2>3, Positioning DEF Deliver, SubState
    <3>2. QED
      BY <1>5, <2>1, <2>3, <3>1, Delivering
  <2>4. QED
    BY <2>2, <2>3
<1>6. CASE \E s \in Socket : Connect(s)
  <2>1. PICK s \in Socket : Connect(s)
    BY <1>6
  <2>2. UNCHANGED <<head, asked, reply>>
    BY <2>1 DEF Connect, redisVars, loopVars
  <2>3. QED
    BY <1>1, <2>1, <2>2, HandlersRewind
<1>7. CASE \E c \in calls : GetDocReturns(c)
  <2>1. PICK c \in calls : GetDocReturns(c)
    BY <1>7
  <2>2. UNCHANGED <<head, asked, reply>>
    BY <2>1 DEF GetDocReturns, Returned, redisVars, loopVars
  <2>3. QED
    BY <1>1, <2>1, <2>2, CallsRewind
<1>8. CASE Trim \/ NoAnswer \/ Cleanup
  BY <1>8 DEF Trim, NoAnswer, Cleanup, redisVars, loopVars
<1>9. CASE \E s \in Socket : SyncStep1(s) \/ Reload(s) \/ Disconnect(s)
  BY <1>9 DEF SyncStep1, Reload, Disconnect, redisVars, loopVars
<1>10. CASE UNCHANGED vars
  BY <1>10 DEF vars, redisVars, loopVars
<1>11. QED
  BY <1>2, <1>3, <1>4, <1>5, <1>6, <1>7, <1>8, <1>9, <1>10 DEF Next, Step

LEMMA SkipStep ==
    ASSUME TypeOK, PositionsExist, NothingSkipped, [Next]_vars
    PROVE  NothingSkipped'
<1> USE DEF NothingSkipped
<1>1. /\ head \in Nat /\ base \in Nat /\ base <= head
      /\ reply \in SUBSET Entry /\ Entry \subseteq Nat
      /\ sub \in SubState \cup {None}
      /\ asked \in Position \cup {None} /\ Position \subseteq Nat
      /\ None \notin Nat /\ None \notin SubState
  BY SubscriptionAssumption, NoneAssumption DEF TypeOK, Position, Entry
<1>2. CASE Append
  BY <1>1, <1>2 DEF Append, loopVars, Fresh, PositionsExist
<1>3. CASE Trim
  <2>1. PICK n \in (base + 1) .. head : base' = n
    BY <1>3 DEF Trim
  <2>2. UNCHANGED <<head, asked, reply, sub>>
    BY <1>3 DEF Trim, loopVars
  <2>3. (n + 1) .. head \subseteq (base + 1) .. head
    BY <1>1
  <2>4. QED
    BY <2>1, <2>2, <2>3 DEF Fresh
<1>4. CASE Ask
  BY <1>1, <1>4 DEF Ask, redisVars, Fresh, SubState
<1>5. CASE Answer
  <2> DEFINE E == {n \in base + 1 .. head : asked < n}
  <2>1. E \in SUBSET Entry
    BY SubscriptionAssumption DEF Entry, Position, TypeOK
  <2>2. UNCHANGED <<head, base, sub>> /\ asked' = None /\ reply' = FirstOf(E) /\ asked # None
    BY <1>5 DEF Answer, redisVars
  <2>3. \A n \in E : n \in FirstOf(E) \/ \A m \in FirstOf(E) : m < n
    BY <2>1, BatchIsFirst
  <2>4. reply = {}
    BY <2>2 DEF PositionsExist
  <2> HIDE DEF E
  <2>5. \A n \in (base + 1) .. head : asked < n => n \in E
    BY DEF E
  <2>6. QED
    BY <2>2, <2>3, <2>4, <2>5 DEF Fresh
<1>6. CASE NoAnswer
  BY <1>6 DEF NoAnswer, redisVars, Fresh
<1>7. CASE Deliver
  <2>1. reply' = {} /\ asked' = None
    BY <1>7 DEF Deliver, PositionsExist
  <2>2. QED
    BY <2>1
<1>8. CASE \E s \in Socket : Connect(s)
  <2>1. PICK s \in Socket : Connect(s)
    BY <1>8
  <2>2. UNCHANGED <<head, base, asked, reply>>
    BY <2>1 DEF Connect, redisVars, loopVars
  <2>3. CASE sub = None
    BY <1>1, <2>1, <2>2, <2>3, HandlersRewind DEF Fresh
  <2>4. CASE sub # None
    BY <2>1, <2>2, <2>4, HandlersRewind DEF Fresh
  <2>5. QED
    BY <2>3, <2>4
<1>9. CASE \E c \in calls : GetDocReturns(c)
  <2>1. PICK c \in calls : GetDocReturns(c)
    BY <1>9
  <2>2. UNCHANGED <<head, base, asked, reply>>
    BY <2>1 DEF GetDocReturns, Returned, redisVars, loopVars
  <2>3. QED
    BY <2>1, <2>2, CallsRewind DEF Fresh
<1>10. CASE Cleanup
  BY <1>10 DEF Cleanup
<1>11. CASE \E s \in Socket : SyncStep1(s) \/ Reload(s) \/ Disconnect(s)
  BY <1>11 DEF SyncStep1, Reload, Disconnect, redisVars, loopVars, Fresh
<1>12. CASE UNCHANGED vars
  BY <1>12 DEF vars, redisVars, loopVars, Fresh
<1>13. QED
  BY <1>2, <1>3, <1>4, <1>5, <1>6, <1>7, <1>8, <1>9, <1>10, <1>11, <1>12 DEF Next, Step

-----------------------------------------------------------------------------
(* The handlers.                                                           *)

LEMMA JoinedStep ==
    ASSUME TypeOK, Joined, DocsAreWhole, [Next]_vars
    PROVE  Joined'
<1> USE DEF Joined, Connected
<1>1. /\ conn \in [Socket -> {"new", "loading", "up", "gone"}] /\ synced \in SUBSET Socket
      /\ None \notin SubState
  BY NoneAssumption DEF TypeOK
<1>2. CASE \E s \in Socket : Connect(s)
  <2>1. PICK s \in Socket : Connect(s)
    BY <1>2
  <2>2. sub' \in SubState
    BY <2>1, HandlersRewind
  <2>3. synced' = synced /\ conn'[s] \in {"loading", "up"}
        /\ \A x \in Socket \ {s} : conn'[x] = conn[x]
    BY <1>1, <2>1 DEF Connect
  <2>4. QED
    BY <1>1, <2>2, <2>3
<1>3. CASE \E c \in calls : GetDocReturns(c)
  <2>1. PICK c \in calls : GetDocReturns(c)
    BY <1>3
  <2>2. sub' = None <=> sub = None
    BY <2>1, CallsRewind
  <2>3. CASE c.kind = "connection"
    BY <1>1, <2>1, <2>2, <2>3 DEF GetDocReturns, DocsAreWhole, ForSocket
  <2>4. CASE c.kind # "connection"
    BY <1>1, <2>1, <2>2, <2>4 DEF GetDocReturns, ghostVars
  <2>5. QED
    BY <2>3, <2>4
<1>4. CASE Deliver
  BY <1>1, <1>4, Delivering DEF Deliver
<1>5. CASE Append \/ Trim \/ Ask \/ Answer \/ NoAnswer \/ Cleanup
  BY <1>5 DEF Append, Trim, Ask, Answer, NoAnswer, Cleanup, clientVars
<1>6. CASE \E s \in Socket : SyncStep1(s) \/ Reload(s) \/ Disconnect(s)
  BY <1>1, <1>6 DEF SyncStep1, Reload, Disconnect, clientVars
<1>7. CASE UNCHANGED vars
  BY <1>7 DEF vars, clientVars
<1>8. QED
  BY <1>2, <1>3, <1>4, <1>5, <1>6, <1>7 DEF Next, Step

\* A document that is read now holds everything.
LEMMA NewDocs ==
    ASSUME TypeOK, NEW since \in Nat, since <= head
    PROVE  Whole(GetDoc, since)
BY Reading, SubscriptionAssumption DEF Whole, TypeOK, Position, Doc

\* Clients lose nothing while they are connected, get each batch, and become
\* connected by connecting.
LEMMA ClientsStep ==
    ASSUME TypeOK, Joined, DocsAreWhole, [Next]_vars, NEW s \in Socket
    PROVE  /\ s \in Connected /\ s \in Connected' =>
                /\ known[s] \subseteq known'[s]
                /\ Deliver => reply \subseteq known'[s]
           /\ s \in Connected' => s \in Connected \/ (conn[s] = "new" /\ Connect(s))
<1> USE DEF Connected
<1>1. /\ conn \in [Socket -> {"new", "loading", "up", "gone"}]
      /\ known \in [Socket -> SUBSET Entry]
  BY DEF TypeOK
<1>2. CASE Deliver
  BY <1>1, <1>2 DEF Deliver, Joined
<1>3. CASE ~ Deliver /\ \E x \in Socket : Connect(x)
  BY <1>1, <1>3 DEF Connect
<1>4. CASE ~ Deliver /\ \E c \in calls : GetDocReturns(c)
  <2>1. PICK c \in calls : GetDocReturns(c)
    BY <1>4
  <2>2. CASE c.kind = "connection"
    BY <1>1, <1>4, <2>1, <2>2 DEF GetDocReturns, DocsAreWhole, ForSocket
  <2>3. CASE c.kind # "connection"
    BY <1>1, <1>4, <2>1, <2>3 DEF GetDocReturns
  <2>4. QED
    BY <2>2, <2>3
<1>5. CASE ~ Deliver /\ (Append \/ Trim \/ Ask \/ Answer \/ NoAnswer \/ Cleanup)
  BY <1>5 DEF Append, Trim, Ask, Answer, NoAnswer, Cleanup, clientVars
<1>6. CASE ~ Deliver /\ \E x \in Socket : SyncStep1(x) \/ Reload(x) \/ Disconnect(x)
  BY <1>1, <1>6 DEF SyncStep1, Reload, Disconnect, clientVars
<1>7. CASE ~ Deliver /\ UNCHANGED vars
  BY <1>7 DEF vars, clientVars
<1>8. QED
  BY <1>2, <1>3, <1>4, <1>5, <1>6, <1>7 DEF Next, Step

LEMMA DocsStep ==
    ASSUME TypeOK, PositionsExist, Joined, DocsAreWhole, [Next]_vars
    PROVE  DocsAreWhole'
<1>1. /\ conn \in [Socket -> {"new", "loading", "up", "gone"}]
      /\ greeted \in [Socket -> SUBSET Entry]
      /\ workerDisabled' = workerDisabled
  BY DEF TypeOK, Next, Configured, vars
<1>2. CASE \/ Append \/ Trim \/ Ask \/ Answer \/ NoAnswer \/ UNCHANGED vars
           \/ \E s \in Socket : Disconnect(s)
  <2>1. UNCHANGED <<sub, cached, calls, greeted>>
    BY <1>2 DEF Append, Trim, Ask, Answer, NoAnswer, Disconnect, vars, loopVars, ghostVars
  <2>2. \A s \in Socket : conn'[s] = conn[s] \/ (conn[s] # "new" /\ conn'[s] = "gone")
    BY <1>1, <1>2
    DEF Append, Trim, Ask, Answer, NoAnswer, Disconnect, vars, clientVars, Connected
  <2>3. QED
    BY <1>1, <2>1, <2>2 DEF DocsAreWhole, Connected
<1>3. CASE Deliver
  <2>1. UNCHANGED <<conn, greeted>>
    BY <1>3 DEF Deliver, ghostVars
  <2>2. CASE sub = None
    BY <1>1, <1>3, <2>1, <2>2 DEF Deliver, DocsAreWhole, Connected
  <2>3. CASE sub # None
    <3>1. sub' # None /\ sub'.since = sub.since
      BY <1>3, <2>3, Delivering, NoneAssumption
    <3>2. Whole(GetDoc, sub.since)
      BY <2>3, NewDocs, SubscriptionAssumption DEF PositionsExist, TypeOK, SubState, Position
    <3>3. \A c \in calls' : c \in calls \/ (c = MessageCall /\ workerDisabled)
      BY <1>3, <2>3 DEF Deliver
    <3>4. MessageCall.kind = "message" /\ MessageCall.doc = GetDoc
      BY DEF MessageCall
    <3>5. cached' # None => workerDisabled /\ Whole(cached', sub.since)
      <4>1. CASE cached = None \/ ~ workerDisabled
        BY <1>3, <2>3, <4>1 DEF Deliver, DocsAreWhole
      <4>2. CASE cached # None /\ workerDisabled
        <5>1. cached' = [cached EXCEPT !.has = @ \cup reply] /\ cached \in Doc
          BY <1>3, <2>3, <4>2 DEF Deliver, TypeOK
        <5>2. cached'.has = cached.has \cup reply /\ cached'.lastId = cached.lastId
          BY <5>1 DEF Doc
        <5>3. QED
          BY <4>2, <5>2 DEF DocsAreWhole, Whole
      <4>3. QED
        BY <4>1, <4>2
    <3>6. QED
      BY <1>1, <2>1, <2>3, <3>1, <3>2, <3>3, <3>4, <3>5 DEF DocsAreWhole, ForSocket, Connected
  <2>4. QED
    BY <2>2, <2>3
<1>4. CASE \E s \in Socket : Connect(s)
  <2>1. PICK s \in Socket : Connect(s)
    BY <1>4
  <2>2. /\ sub' # None /\ sub'.since \in Nat /\ sub'.since <= head
        /\ sub # None => sub'.since = sub.since
    BY <2>1, HandlersRewind, NoneAssumption, SubscriptionAssumption
    DEF PositionsExist, TypeOK, SubState, Position
  <2>3. Whole(GetDoc, sub'.since)
    BY <2>2, NewDocs
  <2>4. conn[s] = "new" /\ conn'[s] \in {"loading", "up"} /\ cached' = cached
        /\ \A x \in Socket \ {s} : conn'[x] = conn[x] /\ greeted'[x] = greeted[x]
    BY <1>1, <2>1 DEF Connect, ghostVars
  <2>5. \A c \in calls' : \/ c \in calls
                          \/ c = CallOf("connection", s) /\ cached = None
    BY <2>1 DEF Connect
  <2>6. /\ CallOf("connection", s).kind = "connection" /\ CallOf("connection", s).s = s
        /\ CallOf("connection", s).doc = GetDoc
    BY DEF CallOf
  <2>7. conn'[s] = "up" => cached # None /\ greeted'[s] = cached.has
    BY <1>1, <2>1 DEF Connect
  <2>8. \A c \in calls' : ForSocket(c) => c.s \in Socket /\ conn'[c.s] # "new"
    BY <2>4, <2>5, <2>6 DEF DocsAreWhole, ForSocket
  <2>9. \A c \in calls' : ForSocket(c) /\ c.s \in Connected' => Whole(c.doc, sub'.since)
    BY <2>2, <2>3, <2>4, <2>5, <2>6 DEF DocsAreWhole, ForSocket, Connected, Joined
  <2>10. workerDisabled => \A c \in calls' : Whole(c.doc, sub'.since)
    BY <2>2, <2>3, <2>5, <2>6 DEF DocsAreWhole
  <2>11. cached # None => workerDisabled /\ Whole(cached, sub'.since)
    BY <2>2 DEF DocsAreWhole
  <2>12. \A x \in Socket : conn'[x] = "up" => 1 .. sub'.since \subseteq greeted'[x]
    BY <2>2, <2>4, <2>7, <2>11 DEF DocsAreWhole, Whole, Connected, Joined
  <2>13. QED
    BY <1>1, <2>2, <2>4, <2>8, <2>9, <2>10, <2>11, <2>12 DEF DocsAreWhole
<1>5. CASE \E s \in Socket : SyncStep1(s) \/ Reload(s)
  <2>1. PICK s \in Socket : SyncStep1(s) \/ Reload(s)
    BY <1>5
  <2>2. s \in Connected /\ UNCHANGED <<sub, cached, conn, greeted>>
    BY <2>1 DEF SyncStep1, Reload, clientVars, ghostVars
  <2>3. sub # None /\ Whole(GetDoc, sub.since)
    BY <2>2, NewDocs, NoneAssumption, SubscriptionAssumption
    DEF Joined, PositionsExist, TypeOK, SubState, Position
  <2>4. \A c \in calls' : c \in calls \/ c = CallOf("step1", s) \/ c = CallOf("reload", s)
    BY <2>1 DEF SyncStep1, Reload
  <2>5. \A kind : CallOf(kind, s).s = s /\ CallOf(kind, s).doc = GetDoc
    BY DEF CallOf
  <2>6. QED
    BY <1>1, <2>2, <2>3, <2>4, <2>5 DEF DocsAreWhole, Connected
<1>6. CASE \E c \in calls : GetDocReturns(c)
  <2>1. PICK c \in calls : GetDocReturns(c)
    BY <1>6
  <2>2. (sub' = None <=> sub = None) /\ (sub # None => sub'.since = sub.since)
    BY <2>1, CallsRewind
  <2>3. calls' = calls \ {c} /\ cached' = IF workerDisabled THEN c.doc ELSE cached
    BY <2>1 DEF GetDocReturns, Returned
  <2>4. CASE c.kind = "connection"
    <3>1. c.s \in Socket /\ conn[c.s] # "new"
      BY <2>4 DEF DocsAreWhole, ForSocket
    <3>2. /\ \A x \in Socket \ {c.s} : conn'[x] = conn[x] /\ greeted'[x] = greeted[x]
          /\ greeted'[c.s] = c.doc.has
          /\ conn'[c.s] = IF conn[c.s] = "gone" THEN "gone" ELSE "up"
      BY <1>1, <2>1, <2>4, <3>1 DEF GetDocReturns
    <3>3. conn'[c.s] = "up" => c.s \in Connected /\ sub # None
      BY <1>1, <3>1, <3>2 DEF Connected, Joined
    <3>4. \A x \in Connected' : x \in Connected /\ sub # None
      BY <1>1, <3>1, <3>2, <3>3 DEF Connected, Joined
    <3>5. \A d \in calls' : ForSocket(d) => d.s \in Socket /\ conn'[d.s] # "new"
      BY <2>3, <3>2 DEF DocsAreWhole
    <3>6. \A d \in calls' : ForSocket(d) /\ d.s \in Connected' => Whole(d.doc, sub'.since)
      BY <2>2, <2>3, <3>4 DEF DocsAreWhole
    <3>7. /\ workerDisabled => \A d \in calls' : sub' # None /\ Whole(d.doc, sub'.since)
          /\ cached' # None => workerDisabled /\ sub' # None /\ Whole(cached', sub'.since)
      BY <2>2, <2>3 DEF DocsAreWhole
    <3>8. \A x \in Socket : conn'[x] = "up" => 1 .. sub'.since \subseteq greeted'[x]
      <4>1. CASE conn'[c.s] = "up"
        <5>1. Whole(c.doc, sub.since)
          BY <2>4, <3>3, <4>1 DEF DocsAreWhole, ForSocket
        <5>2. QED
          BY <2>2, <3>2, <3>3, <4>1, <5>1 DEF DocsAreWhole, Whole
      <4>2. CASE conn'[c.s] # "up"
        BY <2>2, <3>2, <3>4, <4>2 DEF DocsAreWhole, Connected, Joined
      <4>3. QED
        BY <4>1, <4>2
    <3>9. QED
      BY <1>1, <3>5, <3>6, <3>7, <3>8 DEF DocsAreWhole
  <2>5. CASE c.kind # "connection"
    <3>1. UNCHANGED <<conn, greeted>>
      BY <2>1, <2>5 DEF GetDocReturns, ghostVars
    <3>2. \A x \in Socket : conn[x] = "up" => sub # None
      BY DEF Joined, Connected
    <3>3. Connected' = Connected /\ (Connected # {} => sub # None)
      BY <3>1 DEF Joined, Connected
    <3>4. QED
      BY <1>1, <2>2, <2>3, <3>1, <3>2, <3>3 DEF DocsAreWhole
  <2>6. QED
    BY <2>4, <2>5
<1>7. CASE Cleanup
  <2>1. Connected = {} /\ cached' = None /\ UNCHANGED <<calls, conn>>
        /\ (workerDisabled => calls = {})
    BY <1>7 DEF Cleanup, SlowCalls, clientVars
  <2>2. QED
    BY <1>1, <2>1 DEF DocsAreWhole, Connected
<1>8. QED
  BY <1>2, <1>3, <1>4, <1>5, <1>6, <1>7 DEF Next, Step

-----------------------------------------------------------------------------
(* What is yet to be handed out stays so until it is.                      *)

LEMMA AheadStays ==
    ASSUME TypeOK, PositionsExist, NothingSkipped, [Next]_vars,
           sub # None, sub' # None, NEW n \in 1 .. head, Ahead(n)
    PROVE  Ahead(n)' \/ (Deliver /\ n \in reply)
<1>1. /\ head \in Nat /\ base \in Nat /\ base <= head /\ n \in Nat
      /\ reply \in SUBSET Entry /\ Entry \subseteq Nat
      /\ sub \in SubState /\ sub.id \in Nat /\ sub.since \in Nat
  BY SubscriptionAssumption, NoneAssumption DEF TypeOK, Position, Entry, SubState
<1>2. CASE Trim
  <2>1. PICK b \in (base + 1) .. head :
          /\ base' = b
          /\ \A m \in (base + 1) .. b : m <= sub.id \/ m <= sub.since
    <3>1. PICK b \in (base + 1) .. head : base' = b /\ (b <= sub.id \/ b <= sub.since)
      BY <1>2 DEF Trim
    <3>2. QED
      BY <1>1, <3>1
  <2>2. UNCHANGED <<reply, sub>>
    BY <1>2 DEF Trim, loopVars
  <2>3. QED
    BY <1>1, <2>1, <2>2 DEF Ahead, Fresh
<1>3. CASE Append \/ Ask \/ NoAnswer \/ UNCHANGED vars
  BY <1>3 DEF Append, Ask, NoAnswer, vars, redisVars, loopVars, Ahead, Fresh, PositionsExist
<1>4. CASE Answer
  BY <1>4 DEF Answer, redisVars, Ahead, Fresh, PositionsExist
<1>5. CASE Deliver
  <2>1. CASE n \in reply
    BY <1>5, <2>1
  <2>2. CASE n \notin reply
    <3>1. base < n /\ Fresh(n) /\ \A m \in reply : m < n
      BY <1>1, <2>2 DEF Ahead, NothingSkipped
    <3>2. PositionAfterBatch < n
      <4>1. CASE sub.nextId = None
        BY <1>5, <3>1, <4>1, Positioning DEF Deliver
      <4>2. CASE sub.nextId # None
        <5>1. sub.nextId \in Nat /\ sub.nextId < sub.id /\ sub.id < n
          BY <1>1, <3>1, <4>2, SubscriptionAssumption
          DEF PositionsExist, Fresh, SubState, Position
        <5>2. PositionAfterBatch = sub.nextId
          BY <1>5, <4>2, Positioning DEF Deliver
        <5>3. QED
          BY <1>1, <5>1, <5>2
      <4>3. QED
        BY <4>1, <4>2
    <3>3. base' = base /\ sub'.id = PositionAfterBatch /\ sub'.since = sub.since
      BY <1>5, Delivering DEF Deliver, redisVars
    <3>4. QED
      BY <3>1, <3>2, <3>3 DEF Ahead, Fresh
  <2>3. QED
    BY <2>1, <2>2
<1>6. CASE \E s \in Socket : Connect(s)
  <2>1. PICK s \in Socket : Connect(s)
    BY <1>6
  <2>2. QED
    BY <2>1, HandlersRewind DEF Connect, redisVars, loopVars, Ahead, Fresh
<1>7. CASE \E c \in calls : GetDocReturns(c)
  <2>1. PICK c \in calls : GetDocReturns(c)
    BY <1>7
  <2>2. QED
    BY <2>1, CallsRewind DEF GetDocReturns, Returned, redisVars, loopVars, Ahead, Fresh
<1>8. CASE \E s \in Socket : SyncStep1(s) \/ Reload(s) \/ Disconnect(s)
  BY <1>8 DEF SyncStep1, Reload, Disconnect, redisVars, loopVars, Ahead, Fresh
<1>9. CASE Cleanup
  BY <1>9 DEF Cleanup
<1>10. QED
  BY <1>2, <1>3, <1>4, <1>5, <1>6, <1>7, <1>8, <1>9 DEF Next, Step

\* A rewind that replaces a pending one and goes less far is noted.
LEMMA RewindsNoted ==
    ASSUME TypeOK, [Next]_vars, ~ raised', ~ Deliver,
           sub # None, sub' # None, sub.nextId # None
    PROVE  ~ raised /\ sub'.nextId # None /\ sub'.nextId <= sub.nextId
<1>1. /\ sub \in SubState /\ None \notin Nat
      /\ sub.nextId \in Nat /\ Position \subseteq Nat
  BY SubscriptionAssumption, NoneAssumption DEF TypeOK, Position, SubState
<1>2. CASE \E s \in Socket : Connect(s)
  <2>1. PICK s \in Socket : Connect(s)
    BY <1>2
  <2>2. CASE cached = None
    BY <1>1, <2>1, <2>2, Subscribing DEF Connect, ghostVars
  <2>3. CASE cached # None
    <3>1. raised' = (raised \/ Raises(sub, sub'))
      BY <2>1, <2>3 DEF Connect
    <3>2. ~ raised /\ ~ Raises(sub, sub')
      BY <3>1
    <3>3. sub'.nextId = sub.nextId \/ sub'.nextId \in Nat
      BY <1>1, <2>1, <2>3, HandlersRewind DEF TypeOK, Doc
    <3>4. QED
      BY <1>1, <3>2, <3>3 DEF Raises
  <2>4. QED
    BY <2>2, <2>3
<1>3. CASE \E c \in calls : GetDocReturns(c)
  <2>1. PICK c \in calls : GetDocReturns(c)
    BY <1>3
  <2>2. CASE c.kind = "connection"
    <3>1. raised' = (raised \/ Raises(sub, sub'))
      BY <2>1, <2>2 DEF GetDocReturns
    <3>2. ~ raised /\ ~ Raises(sub, sub')
      BY <3>1
    <3>3. sub'.nextId = sub.nextId \/ sub'.nextId \in Nat
      BY <1>1, <2>1, CallsRewind DEF TypeOK, Call, Doc
    <3>4. QED
      BY <1>1, <3>2, <3>3 DEF Raises
  <2>3. CASE c.kind # "connection"
    BY <1>1, <2>1, <2>3 DEF GetDocReturns, ghostVars
  <2>4. QED
    BY <2>2, <2>3
<1>4. CASE \/ Append \/ Trim \/ Ask \/ Answer \/ NoAnswer \/ Cleanup \/ UNCHANGED vars
           \/ \E s \in Socket : SyncStep1(s) \/ Reload(s) \/ Disconnect(s)
  BY <1>1, <1>4
  DEF Append, Trim, Ask, Answer, NoAnswer, Cleanup, SyncStep1, Reload, Disconnect, vars, ghostVars
<1>5. QED
  BY <1>2, <1>3, <1>4 DEF Next, Step

LEMMA RaisedForGood ==
    ASSUME [Next]_vars, ~ raised'
    PROVE  ~ raised
<1>1. CASE \E s \in Socket : Connect(s)
  BY <1>1 DEF Connect, ghostVars
<1>2. CASE \E c \in calls : GetDocReturns(c)
  BY <1>2 DEF GetDocReturns, ghostVars
<1>3. CASE \/ Append \/ Trim \/ Ask \/ Answer \/ NoAnswer \/ Deliver \/ Cleanup \/ UNCHANGED vars
           \/ \E s \in Socket : SyncStep1(s) \/ Reload(s) \/ Disconnect(s)
  BY <1>3 DEF Append, Trim, Ask, Answer, NoAnswer, Deliver, Cleanup, SyncStep1, Reload,
              Disconnect, vars, ghostVars
<1>4. QED
  BY <1>1, <1>2, <1>3 DEF Next, Step

LEMMA ComingStays ==
    ASSUME TypeOK, PositionsExist, NothingSkipped, [Next]_vars, ~ raised',
           sub # None, sub' # None, NEW n \in (base + 1) .. head, Coming(n), base' < n
    PROVE  Coming(n)' \/ n <= sub.since \/ (Deliver /\ n \in reply)
<1>1. /\ head \in Nat /\ base \in Nat /\ n \in Nat /\ n \in 1 .. head /\ base < n
      /\ sub \in SubState /\ sub.id \in Nat /\ sub.since \in Nat
  BY SubscriptionAssumption, NoneAssumption DEF TypeOK, Position, SubState
<1>2. CASE Deliver
  <2>1. SUFFICES ASSUME n \notin reply, n > sub.since PROVE Fresh(n)'
    BY <1>1, <1>2 DEF Coming
  <2>2. sub'.id = PositionAfterBatch /\ sub'.since = sub.since
    BY <1>2, Delivering
  <2>3. CASE sub.nextId = None
    <3>1. Fresh(n)
      BY <2>1, <2>3 DEF Coming
    <3>2. \A m \in reply : m < n
      BY <2>1, <3>1 DEF NothingSkipped
    <3>3. QED
      BY <1>2, <2>1, <2>2, <2>3, <3>2, Positioning DEF Deliver, Fresh
  <2>4. CASE sub.nextId # None
    <3>1. PositionAfterBatch = sub.nextId /\ sub.nextId \in Nat /\ sub.nextId < sub.id
      BY <1>1, <1>2, <2>4, Positioning, SubscriptionAssumption
      DEF Deliver, PositionsExist, SubState, Position
    <3>2. sub.nextId < n
      BY <1>1, <2>1, <3>1 DEF Coming, Fresh
    <3>3. QED
      BY <2>1, <2>2, <3>1, <3>2 DEF Fresh
  <2>5. QED
    BY <2>3, <2>4
<1>3. CASE ~ Deliver /\ (n \in reply \/ Fresh(n))
  <2>1. Ahead(n)
    BY <1>1, <1>3 DEF Ahead
  <2>2. Ahead(n)'
    BY <1>1, <1>3, <2>1, AheadStays
  <2>3. QED
    BY <2>2 DEF Ahead, Coming
<1>4. CASE ~ Deliver /\ sub.nextId # None /\ n > sub.nextId
  <2>1. sub'.nextId # None /\ sub'.nextId <= sub.nextId
    BY <1>4, RewindsNoted
  <2>2. sub.nextId \in Nat /\ sub'.nextId \in Nat
    <3>1. sub' \in SubState
      BY TypeStep DEF TypeOK
    <3>2. QED
      BY <1>1, <1>4, <2>1, <3>1, SubscriptionAssumption DEF SubState, Position
  <2>3. QED
    BY <1>1, <1>4, <2>1, <2>2 DEF Coming
<1>5. QED
  BY <1>2, <1>3, <1>4 DEF Coming

LEMMA CompleteStays ==
    ASSUME TypeOK, PositionsExist, NothingSkipped, [Next]_vars,
           sub # None, sub' # None, NEW has, Complete(has),
           NEW has2, has \subseteq has2, Deliver => reply \subseteq has2
    PROVE  Complete(has2)'
<1>1. SUFFICES ASSUME NEW n \in 1 .. head' PROVE n \in has2 \/ Ahead(n)'
  BY DEF Complete
<1>2. CASE n \in 1 .. head
  BY <1>2, AheadStays DEF Complete
<1>3. CASE n \notin 1 .. head
  <2>1. head \in Nat /\ base \in Nat /\ base <= head
    BY DEF TypeOK, Position
  <2>2. Append
    BY <1>3
    DEF Next, Step, Trim, Ask, Answer, NoAnswer, Deliver, Connect, SyncStep1, Reload, Disconnect,
        GetDocReturns, Returned, Cleanup, vars, redisVars
  <2>3. n = head + 1 /\ UNCHANGED <<base, sub, reply>>
    BY <1>1, <1>3, <2>1, <2>2 DEF Append, loopVars
  <2>4. n > sub.id /\ n > sub.since /\ n > base
    <3>1. sub.id \in Nat /\ sub.since \in Nat
      BY SubscriptionAssumption DEF TypeOK, SubState, Position
    <3>2. QED
      BY <2>1, <2>3, <3>1 DEF PositionsExist
  <2>5. QED
    BY <2>3, <2>4 DEF Ahead, Fresh
<1>4. QED
  BY <1>2, <1>3

LEMMA CoveredStays ==
    ASSUME TypeOK, PositionsExist, NothingSkipped, [Next]_vars, ~ raised',
           sub # None, sub' # None, NEW has, Covered(has), 1 .. sub.since \subseteq has,
           NEW has2, has \subseteq has2, Deliver => reply \subseteq has2
    PROVE  Covered(has2)'
<1>1. SUFFICES ASSUME NEW n \in (base' + 1) .. head' PROVE n \in has2 \/ Coming(n)'
  BY DEF Covered
<1>2. /\ head \in Nat /\ base \in Nat /\ base <= head
      /\ head' \in Nat /\ base' \in Nat
      /\ sub.id \in Nat /\ sub.since \in Nat
  BY TypeStep, SubscriptionAssumption DEF TypeOK, SubState, Position
<1>3. /\ n \in Nat /\ base' < n
      /\ base <= base'
  <2>1. n \in Nat /\ base' < n
    <3>1. PICK b \in Nat, h \in Nat : base' = b /\ head' = h
      BY <1>2
    <3>2. n \in (b + 1) .. h
      BY <1>1, <3>1
    <3>3. n \in Nat /\ b < n
      BY <3>2
    <3>4. QED
      BY <3>1, <3>3
  <2>2. base <= base'
    BY <1>2
    DEF Next, Step, Append, Trim, Ask, Answer, NoAnswer, Deliver, Connect, SyncStep1, Reload,
        Disconnect, GetDocReturns, Returned, Cleanup, vars, redisVars
  <2>3. QED
    BY <2>1, <2>2
<1>4. CASE n <= head
  <2>1. n \in (base + 1) .. head
    BY <1>2, <1>3, <1>4
  <2>2. n <= sub.since => n \in has
    BY <1>2, <1>3
  <2>3. n \in has \/ Coming(n)
    BY <2>1 DEF Covered
  <2>4. QED
    BY <1>3, <2>1, <2>2, <2>3, ComingStays
<1>5. CASE ~ n <= head
  <2>1. Append
    BY <1>1, <1>2, <1>5
    DEF Next, Step, Trim, Ask, Answer, NoAnswer, Deliver, Connect, SyncStep1, Reload, Disconnect,
        GetDocReturns, Returned, Cleanup, vars, redisVars
  <2>2. n = head + 1 /\ UNCHANGED <<base, sub, reply>>
    BY <1>1, <1>2, <1>3, <1>5, <2>1 DEF Append, loopVars
  <2>3. n > sub.id /\ n > sub.since
    BY <1>2, <2>2 DEF PositionsExist
  <2>4. QED
    BY <2>2, <2>3 DEF Coming, Fresh
<1>6. QED
  BY <1>4, <1>5

LEMMA SyncsStep ==
    ASSUME IInv, [Next]_vars, Joined', DocsAreWhole'
    PROVE  SyncsAreComplete'
<1> USE DEF IInv
<1>1. SUFFICES ASSUME ~ workerDisabled
               PROVE  /\ \A s \in synced' : Complete(known[s])'
                      /\ \A c \in calls' : c.kind = "step1" /\ c.s \in Connected' =>
                           Complete(known[c.s] \cup c.doc.has)'
  <2>1. workerDisabled' = workerDisabled
    BY DEF Next, Configured, vars
  <2>2. QED
    BY <2>1 DEF SyncsAreComplete
<1>2. /\ cached = None
      /\ \A s \in synced : Complete(known[s])
      /\ \A c \in calls : c.kind = "step1" /\ c.s \in Connected =>
           Complete(known[c.s] \cup c.doc.has)
  BY <1>1 DEF DocsAreWhole, SyncsAreComplete
<1>3. ASSUME NEW s \in synced' PROVE Complete(known[s])'
  <2>1. s \in Connected' /\ s \in Socket /\ sub' # None
    BY DEF Joined, Connected
  <2>2. CASE s \in synced
    <3>1. s \in Connected /\ sub # None /\ Complete(known[s])
      BY <1>2, <2>2 DEF Joined
    <3>2. known[s] \subseteq known'[s] /\ (Deliver => reply \subseteq known'[s])
      BY <2>1, <3>1, ClientsStep
    <3>3. QED
      BY <2>1, <3>1, <3>2, CompleteStays
  <2>3. CASE s \notin synced
    <3>1. PICK c \in calls : GetDocReturns(c)
      BY <1>2, <2>3
      DEF Next, Step, Append, Trim, Ask, Answer, NoAnswer, Deliver, Connect, SyncStep1, Reload,
          Disconnect, Cleanup, vars, clientVars
    <3>2. /\ c.kind = "step1" /\ c.s = s /\ s \in Connected
          /\ known'[s] = known[s] \cup c.doc.has
      BY <2>1, <2>3, <3>1 DEF GetDocReturns, TypeOK, ghostVars
    <3>3. sub # None /\ Complete(known[s] \cup c.doc.has)
      BY <1>2, <3>2 DEF Joined
    <3>4. reply \subseteq known'[s] \/ ~ Deliver
      BY <2>1, <3>2, ClientsStep
    <3>5. QED
      BY <2>1, <3>2, <3>3, <3>4, CompleteStays
  <2>4. QED
    BY <2>2, <2>3
<1>4. ASSUME NEW c \in calls', c.kind = "step1", c.s \in Connected'
      PROVE  Complete(known[c.s] \cup c.doc.has)'
  <2>1. c.s \in Socket /\ sub' # None
    BY <1>4 DEF Joined, Connected
  <2>2. CASE c \in calls
    <3>1. c.s \in Connected
      BY <1>4, <2>1, <2>2, ClientsStep DEF DocsAreWhole, ForSocket
    <3>2. sub # None /\ Complete(known[c.s] \cup c.doc.has)
      BY <1>2, <1>4, <2>2, <3>1 DEF Joined
    <3>3. known[c.s] \subseteq known'[c.s] /\ (Deliver => reply \subseteq known'[c.s])
      BY <1>4, <2>1, <3>1, ClientsStep
    <3>4. PICK had, has : had = known[c.s] \cup c.doc.has /\ has = known'[c.s] \cup c.doc.has
      OBVIOUS
    <3>5. Complete(had)
      BY <3>2, <3>4
    <3>6. had \subseteq has /\ (Deliver => reply \subseteq has)
      BY <3>3, <3>4
    <3>7. Complete(has)'
      BY <2>1, <3>2, <3>5, <3>6, CompleteStays
    <3>8. QED
      BY <3>4, <3>7 DEF Complete
  <2>3. CASE c \notin calls
    <3>1. c.doc = GetDoc /\ head' = head
      BY <1>1, <1>2, <1>4, <2>3
      DEF Next, Step, Append, Trim, Ask, Answer, NoAnswer, Deliver, Connect, SyncStep1, Reload,
          Disconnect, GetDocReturns, Returned, Cleanup, CallOf, vars, redisVars
    <3>2. QED
      BY <3>1, Reading DEF Complete
  <2>4. QED
    BY <2>2, <2>3
<1>5. QED
  BY <1>3, <1>4

LEMMA ConnectionsStep ==
    ASSUME IInv, [Next]_vars, Joined', DocsAreWhole'
    PROVE  ConnectionsAreCovered'
<1> USE DEF IInv
<1>1. SUFFICES ASSUME ~ raised'
               PROVE  /\ \A s \in Socket : conn'[s] = "up" => Covered(known[s] \cup greeted[s])'
                      /\ \A c \in calls' : c.kind = "connection" /\ c.s \in Connected' =>
                           Covered(known[c.s] \cup c.doc.has)'
  BY DEF ConnectionsAreCovered
<1>2. /\ \A s \in Socket : conn[s] = "up" => Covered(known[s] \cup greeted[s])
      /\ \A c \in calls : c.kind = "connection" /\ c.s \in Connected =>
           Covered(known[c.s] \cup c.doc.has)
  BY <1>1, RaisedForGood DEF ConnectionsAreCovered
<1>3. /\ conn \in [Socket -> {"new", "loading", "up", "gone"}]
      /\ greeted \in [Socket -> SUBSET Entry]
  BY DEF TypeOK
<1>4. ASSUME NEW s \in Socket, conn'[s] = "up" PROVE Covered(known[s] \cup greeted[s])'
  <2>1. s \in Connected' /\ sub' # None
    BY <1>4 DEF Joined, Connected
  <2>2. CASE conn[s] = "up" /\ greeted'[s] = greeted[s]
    <3>1. s \in Connected /\ sub # None /\ 1 .. sub.since \subseteq greeted[s]
      BY <2>2 DEF Joined, Connected, DocsAreWhole
    <3>2. known[s] \subseteq known'[s] /\ (Deliver => reply \subseteq known'[s])
      BY <2>1, <3>1, ClientsStep
    <3>3. PICK had, has : had = known[s] \cup greeted[s] /\ has = known'[s] \cup greeted'[s]
      OBVIOUS
    <3>4. Covered(had) /\ 1 .. sub.since \subseteq had
      BY <1>2, <2>2, <3>1, <3>3
    <3>5. had \subseteq has /\ (Deliver => reply \subseteq has)
      BY <2>2, <3>2, <3>3
    <3>6. Covered(has)'
      BY <1>1, <2>1, <3>1, <3>4, <3>5, CoveredStays
    <3>7. QED
      BY <3>3, <3>6 DEF Covered
  <2>3. CASE \E c \in calls : GetDocReturns(c) /\ c.kind = "connection" /\ c.s = s
    <3>1. PICK c \in calls : GetDocReturns(c) /\ c.kind = "connection" /\ c.s = s
      BY <2>3
    <3>2. greeted'[s] = c.doc.has /\ conn[s] # "new"
      BY <1>3, <3>1 DEF GetDocReturns, DocsAreWhole, ForSocket
    <3>3. s \in Connected /\ sub # None
      BY <2>1, <3>2, ClientsStep DEF Joined
    <3>4. Covered(known[s] \cup c.doc.has) /\ 1 .. sub.since \subseteq c.doc.has
      BY <1>2, <3>1, <3>3 DEF DocsAreWhole, ForSocket, Whole
    <3>5. known[s] \subseteq known'[s] /\ (Deliver => reply \subseteq known'[s])
      BY <2>1, <3>3, ClientsStep
    <3>6. PICK had, has : had = known[s] \cup c.doc.has /\ has = known'[s] \cup greeted'[s]
      OBVIOUS
    <3>7. had \subseteq has /\ (Deliver => reply \subseteq has)
      BY <3>2, <3>5, <3>6
    <3>8. Covered(had) /\ 1 .. sub.since \subseteq had
      BY <3>4, <3>6
    <3>9. Covered(has)'
      BY <1>1, <2>1, <3>3, <3>7, <3>8, CoveredStays
    <3>10. QED
      BY <3>6, <3>9 DEF Covered
  <2>4. CASE Connect(s)
    <3>1. /\ cached # None /\ greeted'[s] = cached.has
          /\ UNCHANGED <<head, base>>
      BY <1>3, <1>4, <2>4 DEF Connect, redisVars
    <3>2. /\ sub # None /\ sub'.id = sub.id /\ sub'.since = sub.since
          /\ cached.lastId < sub.id => sub'.nextId = cached.lastId
      BY <2>4, <3>1, HandlersRewind DEF DocsAreWhole
    <3>3. /\ cached.lastId \in Nat /\ sub.id \in Nat /\ sub.since \in Nat
          /\ base \in Nat /\ head \in Nat
      BY <3>1, <3>2, SubscriptionAssumption DEF TypeOK, Doc, SubState, Position
    <3>4. 1 .. sub.since \subseteq cached.has /\ 1 .. cached.lastId \subseteq cached.has
      BY <3>1 DEF DocsAreWhole, Whole
    <3>5. ASSUME NEW n \in (base + 1) .. head PROVE n \in cached.has \/ Coming(n)'
      <4>1. n \in Nat /\ n >= 1
        BY <3>3
      <4>2. CASE n <= sub.since \/ n <= cached.lastId
        BY <3>3, <3>4, <4>1, <4>2
      <4>3. CASE n > sub.since /\ n > cached.lastId /\ cached.lastId < sub.id
        <5>1. sub'.nextId = cached.lastId /\ cached.lastId # None
          BY <3>2, <3>3, <4>3, SubscriptionAssumption
        <5>2. QED
          BY <4>3, <5>1 DEF Coming
      <4>4. CASE n > sub.since /\ n > cached.lastId /\ ~ cached.lastId < sub.id
        BY <3>2, <3>3, <4>1, <4>4 DEF Coming, Fresh
      <4>5. QED
        BY <3>3, <4>1, <4>2, <4>3, <4>4
    <3>6. QED
      BY <3>1, <3>5 DEF Covered
  <2>5. QED
    <3>1. CASE \E x \in Socket : Connect(x)
      <4>1. PICK x \in Socket : Connect(x)
        BY <3>1
      <4>2. CASE x = s
        BY <2>4, <4>1, <4>2
      <4>3. CASE x # s
        BY <1>3, <1>4, <2>2, <4>1, <4>3 DEF Connect, ghostVars
      <4>4. QED
        BY <4>2, <4>3
    <3>2. CASE \E c \in calls : GetDocReturns(c)
      <4>1. PICK c \in calls : GetDocReturns(c)
        BY <3>2
      <4>2. CASE c.kind = "connection" /\ c.s = s
        BY <2>3, <4>1, <4>2
      <4>3. CASE c.kind = "connection" /\ c.s # s
        BY <1>3, <1>4, <2>2, <4>1, <4>3 DEF GetDocReturns, DocsAreWhole, ForSocket
      <4>4. CASE c.kind # "connection"
        BY <1>4, <2>2, <4>1, <4>4 DEF GetDocReturns, ghostVars
      <4>5. QED
        BY <4>2, <4>3, <4>4
    <3>3. CASE \/ Append \/ Trim \/ Ask \/ Answer \/ NoAnswer \/ Deliver \/ Cleanup \/ UNCHANGED vars
               \/ \E x \in Socket : SyncStep1(x) \/ Reload(x)
      BY <1>4, <2>2, <3>3
      DEF Append, Trim, Ask, Answer, NoAnswer, Deliver, Cleanup, SyncStep1, Reload, vars,
          clientVars, ghostVars
    <3>4. CASE \E x \in Socket : Disconnect(x)
      BY <1>3, <1>4, <2>2, <3>4 DEF Disconnect, ghostVars
    <3>5. QED
      BY <3>1, <3>2, <3>3, <3>4 DEF Next, Step
<1>5. ASSUME NEW c \in calls', c.kind = "connection", c.s \in Connected'
      PROVE  Covered(known[c.s] \cup c.doc.has)'
  <2>1. c.s \in Socket /\ sub' # None
    BY <1>5 DEF Joined, Connected
  <2>2. CASE c \in calls
    <3>1. c.s \in Connected
      BY <1>5, <2>1, <2>2, ClientsStep DEF DocsAreWhole, ForSocket
    <3>2. /\ sub # None /\ Covered(known[c.s] \cup c.doc.has)
          /\ 1 .. sub.since \subseteq c.doc.has
      BY <1>2, <1>5, <2>2, <3>1 DEF Joined, DocsAreWhole, ForSocket, Whole
    <3>3. known[c.s] \subseteq known'[c.s] /\ (Deliver => reply \subseteq known'[c.s])
      BY <1>5, <2>1, <3>1, ClientsStep
    <3>4. PICK had, has : had = known[c.s] \cup c.doc.has /\ has = known'[c.s] \cup c.doc.has
      OBVIOUS
    <3>5. Covered(had) /\ 1 .. sub.since \subseteq had
      BY <3>2, <3>4
    <3>6. had \subseteq has /\ (Deliver => reply \subseteq has)
      BY <3>3, <3>4
    <3>7. Covered(has)'
      BY <1>1, <2>1, <3>2, <3>5, <3>6, CoveredStays
    <3>8. QED
      BY <3>4, <3>7 DEF Covered
  <2>3. CASE c \notin calls
    <3>1. c.doc = GetDoc /\ head' = head /\ base' = base
      BY <1>5, <2>3
      DEF Next, Step, Append, Trim, Ask, Answer, NoAnswer, Deliver, Connect, SyncStep1, Reload,
          Disconnect, GetDocReturns, Returned, Cleanup, CallOf, MessageCall, vars, redisVars
    <3>2. base \in Nat /\ head \in Nat
      BY SubscriptionAssumption DEF TypeOK, Position
    <3>3. \A n \in (base + 1) .. head : n \in 1 .. head
      BY <3>2
    <3>4. QED
      BY <3>1, <3>3, Reading DEF Covered
  <2>4. QED
    BY <2>2, <2>3
<1>6. QED
  BY <1>4, <1>5

-----------------------------------------------------------------------------
(* Theorems.                                                               *)

LEMMA InvInit == Init => IInv
<1> SUFFICES ASSUME Init PROVE IInv
  OBVIOUS
<1>1. TypeOK
  BY TypeInit
<1>2. /\ PositionsExist /\ NothingSkipped /\ Joined
      /\ DocsAreWhole /\ SyncsAreComplete /\ ConnectionsAreCovered
  BY DEF Init, PositionsExist, NothingSkipped, Joined, DocsAreWhole, SyncsAreComplete,
         ConnectionsAreCovered, Connected
<1>3. QED
  BY <1>1, <1>2 DEF IInv

LEMMA InvStep == IInv /\ [Next]_vars => IInv'
<1> SUFFICES ASSUME IInv, [Next]_vars PROVE IInv'
  OBVIOUS
<1>1. TypeOK' /\ PositionsExist' /\ NothingSkipped'
  BY TypeStep, PositionsStep, SkipStep DEF IInv
<1>2. Joined' /\ DocsAreWhole'
  BY JoinedStep, DocsStep DEF IInv
<1>3. SyncsAreComplete' /\ ConnectionsAreCovered'
  BY <1>2, SyncsStep, ConnectionsStep
<1>4. QED
  BY <1>1, <1>2, <1>3 DEF IInv

LEMMA Invariance == Spec => []IInv
BY InvInit, InvStep, PTL DEF Spec

\* The variables have their types.
THEOREM SubscriptionTypes == Spec => []TypeOK
<1>1. IInv => TypeOK
  BY DEF IInv
<1>2. QED
  BY <1>1, Invariance, PTL

\* Without the document cache, a client that is connected and whose
\* sync-step-1 has been answered has every update or will be sent it, however
\* late the getDocs of the handlers come back and whatever the subscription
\* does meanwhile.
THEOREM SyncedMissNothing == Spec => []NothingMissedUncached
<1>1. IInv => NothingMissedUncached
  BY DEF IInv, SyncsAreComplete, Complete, Ahead, Fresh, Joined, NothingMissedUncached,
         NothingMissed, Upcoming, Connected
<1>2. QED
  BY <1>1, Invariance, PTL

\* With the cache and without, the connection handler sees to it that what
\* its document lacks is handed out, if no rewind is replaced by a shorter
\* one.
THEOREM HandlersCatchUp == Spec => []HandlerCatchesUp
<1>1. IInv => HandlerCatchesUp
  <2>1. SUFFICES ASSUME IInv, ~ raised, NEW s \in Socket, conn[s] = "up",
                        NEW n \in (base + 1) .. head
                 PROVE  n \in known[s] \cup greeted[s] \/ Upcoming(n)
    BY DEF HandlerCatchesUp
  <2>2. sub # None
    BY <2>1 DEF IInv, Joined, Connected
  <2>3. base < n
    BY <2>1, SubscriptionAssumption DEF IInv, TypeOK, Position
  <2>4. QED
    BY <2>1, <2>2, <2>3 DEF IInv, ConnectionsAreCovered, Covered, Coming, Fresh, Upcoming
<1>2. QED
  BY <1>1, Invariance, PTL
=============================================================================
