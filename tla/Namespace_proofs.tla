-------------------------- MODULE Namespace_proofs --------------------------
(***************************************************************************)
(* The life of a namespace, for any number of servers, sockets, updates    *)
(* and faults: its types; that an update which is not saved, and is not    *)
(* excused, is before a server that will save it; that a namespace without *)
(* users has a cleanup timer; and that one that is closed leaves nothing   *)
(* behind.                                                                 *)
(*                                                                         *)
(* The three hold together.  A cleanup that has fired waits for a save,    *)
(* a save is of a namespace with a document, and so no getDoc is begun     *)
(* meanwhile that would come back to a namespace that is closed; and a     *)
(* namespace is closed only when nothing but what is unread is left to     *)
(* watch for.  A refusal may come late: what it still tells is that the    *)
(* server it goes to is not the one that stands behind the lease now, so   *)
(* that this one watches in its stead, or nobody does and it is excused.   *)
(***************************************************************************)
EXTENDS Namespace, TLAPS

Place == [sockets : Nat, open : BOOLEAN, seen : Position,
          doc : (SUBSET Update) \cup {None}, timer : Timer,
          save : Save \cup {None}, cleanup : Timer, calls : SUBSET Call,
          ask : Request, overlooked : BOOLEAN]

\* A namespace on a server when app updates are accepted.
Orderly(r, app) ==
    /\ r.save # None => r.doc # None /\ r.save.snap <= app
    /\ r.timer # "none" => r.doc # None
    /\ r.cleanup = "fired" => r.save # None /\ r.calls = {}
    /\ ~ r.open => r = Blank
    /\ r.open /\ r.sockets = 0 => r.cleanup # "none" \/ r.overlooked
    /\ r.seen <= app

IInv ==
    /\ TypeOK
    /\ \A s \in Server : Orderly(ns[s], appended)
    /\ \A s \in Server \ alive : ~ ns[s].open
    /\ Holder # None => ns[Holder].open
    /\ \A s \in Server : ns[s].ask = "refused" => Holder # s
    /\ UnsavedIsWatched

-----------------------------------------------------------------------------
(* What the operators on a namespace do.                                   *)

LEMMA BlankIsOrderly ==
    /\ Blank \in Place
    /\ ~ Blank.open /\ Blank.save = None /\ Blank.calls = {} /\ Blank.timer = "none"
    /\ Blank.sockets = 0 /\ Blank.cleanup = "none" /\ Blank.doc = None /\ Blank.ask = "none"
    /\ \A app \in Nat : Orderly(Blank, app)
<1>1. Blank \in Place
  <2>1. 0 \in Position
    BY NamespaceAssumption DEF Position
  <2>2. QED
    BY <2>1 DEF Blank, Place, Timer, Request
<1>2. QED
  BY <1>1 DEF Blank, Orderly

\* Apart from the persist timer and overlooked, the same.
SameState(r, q) ==
    /\ q.sockets = r.sockets /\ q.open = r.open /\ q.seen = r.seen /\ q.doc = r.doc
    /\ q.save = r.save /\ q.cleanup = r.cleanup /\ q.calls = r.calls /\ q.ask = r.ask

LEMMA Debouncing ==
    ASSUME NEW r \in Place, NEW i \in BOOLEAN
    PROVE  /\ Debounced(r, i) \in Place /\ SameState(r, Debounced(r, i))
           /\ Debounced(r, i).timer # "none"
           /\ Debounced(r, i).overlooked = r.overlooked
BY DEF Debounced, SameState, Place, Timer

\* After redisMessageSubscriber a save is to come, if there is anything new, or
\* when the last user leaves, if no rejected socket is taken for another.
LEMMA Telling ==
    ASSUME NEW r \in Place, NEW changed \in BOOLEAN, NEW due \in BOOLEAN, NEW crowd \in BOOLEAN
    PROVE  LET q == Told(r, changed, due, crowd) IN
           /\ q \in Place /\ SameState(r, q)
           /\ r.timer # "none" => q.timer # "none"
           /\ r.overlooked => q.overlooked
           /\ \/ q.timer # "none"
              \/ ~ changed /\ r.sockets > 0
              \/ ~ changed /\ crowd /\ q.overlooked
<1>1. CASE changed \/ due \/ Empty(r, crowd)
  <2>1. Told(r, changed, due, crowd) = Debounced(r, Empty(r, crowd))
    BY <1>1 DEF Told
  <2>2. \A i \in BOOLEAN :
          /\ Debounced(r, i) \in Place /\ SameState(r, Debounced(r, i))
          /\ Debounced(r, i).timer # "none"
          /\ Debounced(r, i).overlooked = r.overlooked
    BY Debouncing
  <2>3. Empty(r, crowd) \in BOOLEAN
    BY DEF Empty
  <2> DEFINE q == Told(r, changed, due, crowd)
  <2>4. /\ q \in Place /\ SameState(r, q)
        /\ q.timer # "none" /\ q.overlooked = r.overlooked
    BY <2>1, <2>2, <2>3, Zenon
  <2>5. QED
    BY <2>4
<1>2. CASE ~ (changed \/ due \/ Empty(r, crowd))
  <2> DEFINE q == [r EXCEPT !.overlooked = @ \/ r.sockets = 0]
  <2>1. Told(r, changed, due, crowd) = q
    BY <1>2 DEF Told
  <2>2. /\ q \in Place /\ SameState(r, q) /\ q.timer = r.timer
        /\ q.overlooked = (r.overlooked \/ r.sockets = 0)
    BY DEF Place, SameState
  <2>3. r.sockets > 0 \/ (crowd /\ r.sockets = 0)
    BY <1>2 DEF Empty, Place
  <2>4. QED
    BY <1>2, <2>1, <2>2, <2>3
<1>3. QED
  BY <1>1, <1>2

\* A cleanup either closes the namespace, with nothing to watch for but what is
\* unread, or changes nothing that watches.
LEMMA Resuming ==
    ASSUME NEW r \in Place, NEW failed \in BOOLEAN, NEW crowd \in BOOLEAN, NEW app \in Nat,
           r.open, r.save = None, r.calls = {}, r.seen <= app,
           r.timer # "none" => r.doc # None
    PROVE  LET q == CleanupResumed(r, failed, crowd) IN
           /\ q \in Place /\ Orderly(q, app)
           /\ q.open => /\ q.cleanup # "fired"
                        /\ q.sockets = r.sockets /\ q.seen = r.seen /\ q.doc = r.doc
                        /\ q.save = r.save /\ q.calls = r.calls /\ q.timer = r.timer /\ q.ask = r.ask
           /\ ~ q.open => ~ failed /\ q = Blank /\ r.timer = "none" /\ r.sockets = 0
<1> DEFINE q == CleanupResumed(r, failed, crowd)
<1>1. CASE ~ failed /\ ~ Empty(r, crowd)
  <2> DEFINE q1 == [r EXCEPT !.cleanup = "none", !.overlooked = r.sockets = 0]
  <2>1. q = q1
    BY <1>1 DEF CleanupResumed
  <2>2. /\ q1 \in Place
        /\ q1.sockets = r.sockets /\ q1.seen = r.seen /\ q1.doc = r.doc /\ q1.open = r.open
        /\ q1.save = r.save /\ q1.calls = r.calls /\ q1.timer = r.timer /\ q1.ask = r.ask
        /\ q1.cleanup = "none" /\ q1.overlooked = (r.sockets = 0)
    BY DEF Place, Timer
  <2>3. QED
    BY <2>1, <2>2 DEF Orderly
<1>2. CASE ~ (~ failed /\ ~ Empty(r, crowd)) /\ (failed \/ r.timer # "none")
  <2> DEFINE q1 == [r EXCEPT !.cleanup = "set"]
  <2>1. q = q1
    BY <1>2 DEF CleanupResumed
  <2>2. /\ q1 \in Place
        /\ q1.sockets = r.sockets /\ q1.seen = r.seen /\ q1.doc = r.doc /\ q1.open = r.open
        /\ q1.save = r.save /\ q1.calls = r.calls /\ q1.timer = r.timer /\ q1.ask = r.ask
        /\ q1.cleanup = "set"
    BY DEF Place, Timer
  <2>3. QED
    BY <2>1, <2>2 DEF Orderly
<1>3. CASE Empty(r, crowd) /\ ~ failed /\ r.timer = "none"
  <2>1. q = Closed(r) /\ r.sockets = 0
    BY <1>3 DEF CleanupResumed, Empty
  <2>2. Closed(r) = Blank
    BY <2>1 DEF Closed, Blank
  <2>3. QED
    BY <1>3, <2>1, <2>2, BlankIsOrderly
<1>4. QED
  BY <1>1, <1>2, <1>3 DEF Place

\* To ask for the lease changes nothing else.
LEMMA AskingOnly ==
    ASSUME NEW r \in Place
    PROVE  LET q == Asking(r) IN
           /\ q \in Place
           /\ q.sockets = r.sockets /\ q.open = r.open /\ q.seen = r.seen /\ q.doc = r.doc
           /\ q.save = r.save /\ q.cleanup = r.cleanup /\ q.calls = r.calls
           /\ q.timer = r.timer /\ q.overlooked = r.overlooked
           /\ q.ask = "refused" => r.ask = "refused"
BY DEF Asking, Place, Request

\* A save begins: it watches for everything.
LEMMA Starting ==
    ASSUME NEW r \in Place, NEW app \in Nat, r.open, r.doc # None, r.seen <= app,
           r.cleanup # "fired", r.sockets = 0 => r.cleanup # "none" \/ r.overlooked
    PROVE  LET q == SaveStarted(r) IN
           /\ q \in Place /\ Orderly(q, app) /\ q.open /\ q.doc = r.doc
           /\ q.save.pc = "acquire"
           /\ q.ask = "refused" => r.ask = "refused"
           /\ \A k \in Update : Watches(q, k)
<1> DEFINE a == [pc |-> "acquire", snap |-> 0]
           r1 == [r EXCEPT !.timer = "none", !.save = a]
           q == Asking(r1)
<1>1. a \in Save /\ a # None /\ a.pc = "acquire" /\ a.snap = 0
  BY NamespaceAssumption, NoneAssumption DEF Save, Position
<1> HIDE DEF a
<1>2. /\ r1 \in Place /\ r1.open /\ r1.timer = "none" /\ r1.save = a
      /\ r1.sockets = r.sockets /\ r1.seen = r.seen /\ r1.doc = r.doc /\ r1.ask = r.ask
      /\ r1.cleanup = r.cleanup /\ r1.calls = r.calls /\ r1.overlooked = r.overlooked
  BY <1>1 DEF Place, Timer
<1> HIDE DEF r1
<1>3. /\ q \in Place /\ q.open /\ q.timer = "none" /\ q.save = a
      /\ q.sockets = r.sockets /\ q.seen = r.seen /\ q.doc = r.doc
      /\ q.cleanup = r.cleanup /\ q.calls = r.calls /\ q.overlooked = r.overlooked
      /\ q.ask = "refused" => r.ask = "refused"
  BY <1>2, AskingOnly
<1>4. q = SaveStarted(r)
  BY DEF SaveStarted, r1, a
<1> HIDE DEF q
<1>5. Orderly(q, app)
  BY <1>1, <1>3 DEF Orderly
<1>6. \A k \in Update : Watches(q, k)
  BY <1>1, <1>3 DEF Watches
<1>7. QED
  BY <1>1, <1>3, <1>4, <1>5, <1>6

\* What is neither saved by the save that ends, nor left to another.
Remains(r, failed, k) == failed \/ (r.save.pc = "write" /\ r.save.snap < k)

\* The end of a save: whatever else is watched for still is.
LEMMA Ending ==
    ASSUME NEW r \in Place, NEW failed \in BOOLEAN, NEW crowd \in BOOLEAN, NEW app \in Nat,
           r.open, r.save # None, Orderly(r, app)
    PROVE  LET q == SaveEnded(r, failed, crowd) IN
           /\ q \in Place /\ Orderly(q, app)
           /\ failed => q.open
           /\ q.open => q.doc # None
           /\ q.save # None => q.save.pc = "acquire"
           /\ q.ask = "refused" => r.ask = "refused"
           /\ q.open => \A k \in Update : Remains(r, failed, k) /\ Watches(r, k) => Watches(q, k)
           /\ ~ q.open => \A k \in Update : Remains(r, failed, k) /\ Watches(r, k) => r.seen < k
<1> DEFINE r0 == [r EXCEPT !.save = None]
           ended == IF failed /\ r.doc # None THEN Debounced(r0, FALSE) ELSE r0
           next == IF ended.cleanup = "fired" THEN CleanupResumed(ended, failed, crowd) ELSE ended
           q == SaveEnded(r, failed, crowd)
<1>1. q = IF next.timer = "fired" THEN SaveStarted(next) ELSE next
  BY DEF SaveEnded
<1>2. /\ r0 \in Place /\ r0.open /\ r0.save = None /\ r0.timer = r.timer
      /\ r0.sockets = r.sockets /\ r0.seen = r.seen /\ r0.doc = r.doc
      /\ r0.cleanup = r.cleanup /\ r0.calls = r.calls /\ r0.overlooked = r.overlooked
      /\ r0.ask = r.ask
  BY DEF Place
<1> HIDE DEF r0
<1>3. r.doc # None
  BY DEF Orderly
<1>4. /\ ended \in Place /\ ended.open /\ ended.save = None
      /\ ended.sockets = r.sockets /\ ended.seen = r.seen /\ ended.doc = r.doc
      /\ ended.cleanup = r.cleanup /\ ended.calls = r.calls /\ ended.overlooked = r.overlooked
      /\ ended.ask = r.ask
      /\ failed => ended.timer # "none"
      /\ r.timer # "none" => ended.timer # "none"
  <2> DEFINE d == Debounced(r0, FALSE)
  <2>1. d \in Place /\ SameState(r0, d) /\ d.timer # "none" /\ d.overlooked = r0.overlooked
    BY <1>2, Debouncing
  <2> HIDE DEF d
  <2>2. ended = IF failed /\ r.doc # None THEN d ELSE r0
    BY DEF d
  <2>3. QED
    BY <1>2, <1>3, <2>1, <2>2 DEF SameState
<1> HIDE DEF ended
<1>5. \A k \in Update : Remains(r, failed, k) /\ Watches(r, k) => Watches(ended, k)
  <2> SUFFICES ASSUME NEW k \in Update, Remains(r, failed, k), Watches(r, k)
               PROVE  Watches(ended, k)
    OBVIOUS
  <2>1. CASE failed
    BY <1>4, <2>1 DEF Watches
  <2>2. CASE r.save.pc = "write" /\ r.save.snap < k
    <3>1. r.save.snap \in Int /\ k \in Int
      BY DEF Place, Save, Position, Update
    <3>2. ~ (r.save # None /\ (r.save.pc # "write" \/ k <= r.save.snap))
      BY <2>2, <3>1
    <3>3. QED
      BY <1>4, <3>2 DEF Watches
  <2>3. QED
    BY <2>1, <2>2 DEF Remains
<1>6. /\ next \in Place
      /\ next.open => /\ next.cleanup # "fired" /\ next.save = None
                      /\ next.sockets = r.sockets /\ next.seen = r.seen /\ next.doc = r.doc
                      /\ next.calls = r.calls /\ next.timer = ended.timer /\ next.ask = r.ask
                      /\ next.sockets = 0 => next.cleanup # "none" \/ next.overlooked
      /\ ~ next.open => ~ failed /\ next = Blank /\ ended.timer = "none"
                        /\ r.sockets = 0 /\ r.calls = {}
  <2>1. CASE ended.cleanup = "fired"
    <3>1. r.calls = {} /\ ended.seen <= app
      BY <1>4, <2>1 DEF Orderly
    <3>2. next = CleanupResumed(ended, failed, crowd)
      BY <2>1
    <3> HIDE DEF next
    <3>3. /\ next \in Place /\ Orderly(next, app)
          /\ next.open => /\ next.cleanup # "fired"
                       /\ next.sockets = ended.sockets /\ next.seen = ended.seen /\ next.doc = ended.doc
                       /\ next.save = ended.save /\ next.calls = ended.calls /\ next.timer = ended.timer
                       /\ next.ask = ended.ask
          /\ ~ next.open => ~ failed /\ next = Blank /\ ended.timer = "none" /\ ended.sockets = 0
      BY <1>3, <1>4, <3>1, <3>2, Resuming
    <3>4. QED
      BY <1>4, <3>1, <3>3 DEF Orderly
  <2>2. CASE ended.cleanup # "fired"
    BY <1>4, <2>2 DEF Orderly
  <2>3. QED
    BY <2>1, <2>2
<1> HIDE DEF next
<1>7. CASE ~ next.open
  <2>1. q = Blank
    BY <1>1, <1>6, <1>7, BlankIsOrderly
  <2>2. \A k \in Update : Watches(ended, k) => r.seen < k
    BY <1>4, <1>6, <1>7 DEF Watches, Place
  <2>3. QED
    BY <1>5, <1>6, <1>7, <2>1, <2>2, BlankIsOrderly
<1>8. CASE next.open /\ next.timer = "fired"
  <2>1. /\ next.doc # None /\ next.seen <= app /\ next.cleanup # "fired"
        /\ next.sockets = 0 => next.cleanup # "none" \/ next.overlooked
    BY <1>3, <1>6, <1>8 DEF Orderly
  <2>2. q = SaveStarted(next)
    BY <1>1, <1>8
  <2> HIDE DEF q
  <2>3. /\ q \in Place /\ Orderly(q, app) /\ q.open /\ q.doc = next.doc
        /\ q.save.pc = "acquire"
        /\ q.ask = "refused" => next.ask = "refused"
        /\ \A k \in Update : Watches(q, k)
    BY <1>6, <1>8, <2>1, <2>2, Starting
  <2>4. QED
    BY <1>3, <1>6, <1>8, <2>3 DEF q
<1>9. CASE next.open /\ next.timer # "fired"
  <2>1. q = next
    BY <1>1, <1>9
  <2>2. Orderly(next, app)
    BY <1>3, <1>6, <1>9 DEF Orderly
  <2>3. \A k \in Update : Watches(ended, k) => Watches(next, k)
    BY <1>4, <1>6, <1>9 DEF Watches
  <2>4. QED
    BY <1>3, <1>5, <1>6, <1>9, <2>1, <2>2, <2>3
<1>10. QED
  BY <1>7, <1>8, <1>9

-----------------------------------------------------------------------------
(* The invariant.                                                          *)

\* The server behind the lease after a step.
LEMMA Holding == Holder' = IF left' THEN None ELSE lease'
BY DEF Holder

\* What a step that makes the namespace on s to r has to do.  What is watched
\* for still is, by whoever must; nothing but what is unread when s closes; and
\* nothing if a save is dropped for a lease that nobody stands behind.
LEMMA Becoming ==
    ASSUME IInv, NEW s \in alive, ns[s].open,
           NEW r \in Place, Orderly(r, appended), r.ask = "refused" => ns[s].ask = "refused",
           NEW crowd \in BOOLEAN, NEW dropped \in BOOLEAN,
           Becomes(s, r, crowd, dropped), UNCHANGED <<appended, alive>>,
           stored' \in stored .. appended,
           faults' \in 0 .. MaxFaults, connects' \in 0 .. MaxConnects,
           \A k \in Update :
             /\ stored' < k /\ k <= appended /\ Holder \in {s, None} /\ Watches(ns[s], k)
             /\ ~ (crowd /\ r.overlooked)
             /\ ~ (dropped /\ Holder = None /\ r.sockets = 0 /\ r.save = None)
             => IF r.open THEN Watches(r, k) ELSE ns[s].seen < k
    PROVE  IInv'
<1>1. /\ TypeOK /\ alive \subseteq Server /\ lease \in Server \cup {None} /\ None \notin Server
      /\ ns \in [Server -> Place] /\ appended \in Position /\ stored \in 0 .. appended
      /\ excused \in Position /\ Position \subseteq Int /\ Update \subseteq Int
      /\ left \in BOOLEAN /\ (left => lease # None)
      /\ s \in Server /\ ns[s].seen \in Int
  BY NamespaceAssumption DEF IInv, TypeOK, Place, Position, Update
<1> DEFINE last == \A t \in Server \ {s} : ~ ns[t].open
           unread == ~ r.open /\ ns[s].seen < appended /\ (Holder = s \/ last)
           drops == dropped /\ Holder = None /\ r.sockets = 0 /\ r.save = None
<1>2. /\ ns' = [ns EXCEPT ![s] = r] /\ lease' = lease
      /\ left' = (left \/ (~ r.open /\ lease = s))
      /\ excused' = IF unread \/ (crowd /\ r.overlooked) \/ drops THEN appended ELSE excused
  BY DEF Becomes
<1>3. ns'[s] = r /\ \A t \in Server \ {s} : ns'[t] = ns[t]
  BY <1>1, <1>2
<1>4. Holder' = IF ~ r.open /\ Holder = s THEN None ELSE Holder
  BY <1>1, <1>2, Holding DEF Holder
<1>5. Holder \in Server \cup {None} /\ (Holder # None => ns[Holder].open)
  BY <1>1 DEF Holder, IInv
<1>6. TypeOK'
  <2>1. /\ ns' \in [Server -> Place] /\ left' \in BOOLEAN /\ (left' => lease' # None)
        /\ excused' \in Position
    BY <1>1, <1>2
  <2>2. stored' \in 0 .. appended'
    BY <1>1
  <2>3. QED
    BY <1>1, <1>2, <2>1, <2>2 DEF TypeOK, Place
<1>7. \A t \in Server : Orderly(ns'[t], appended')
  BY <1>1, <1>3 DEF IInv
<1>8. \A t \in Server \ alive' : ~ ns'[t].open
  BY <1>1, <1>3 DEF IInv
<1>9. Holder' # None => ns'[Holder'].open
  BY <1>1, <1>3, <1>4, <1>5
<1>10. \A t \in Server : ns'[t].ask = "refused" => Holder' # t
  <2>1. \A t \in Server : ns[t].ask = "refused" => Holder # t
    BY DEF IInv
  <2>2. QED
    BY <1>1, <1>3, <1>4, <2>1
<1>11. UnsavedIsWatched'
  <2> SUFFICES ASSUME NEW k \in Update, stored' < k, k <= appended, excused' < k
               PROVE  /\ Holder' # None => Watches(ns'[Holder'], k)
                      /\ Holder' = None => \A t \in Server : ns'[t].open => Watches(ns'[t], k)
                      /\ \E t \in Server : ns'[t].open
    BY DEF UnsavedIsWatched, Watches, Holder
  <2>1. /\ excused' = excused /\ stored < k
        /\ ~ unread /\ ~ (crowd /\ r.overlooked) /\ ~ drops
    BY <1>1, <1>2
  <2>2. /\ Holder # None => Watches(ns[Holder], k)
        /\ Holder = None => \A t \in Server : ns[t].open => Watches(ns[t], k)
    BY <2>1 DEF IInv, UnsavedIsWatched
  <2>3. Holder \in {s, None} => IF r.open THEN Watches(r, k) ELSE ns[s].seen < k
    <3>1. Holder \in {s, None} => Watches(ns[s], k)
      BY <1>1, <2>2
    <3>2. ~ (crowd /\ r.overlooked) /\ ~ (dropped /\ Holder = None /\ r.sockets = 0 /\ r.save = None)
      BY <2>1
    <3>3. stored' < k
      OBVIOUS
    <3>4. QED
      BY <3>1, <3>2, <3>3
  <2>4. ~ r.open => Holder # s /\ ~ last
    <3> SUFFICES ASSUME ~ r.open, Holder = s \/ last PROVE FALSE
      OBVIOUS
    <3>1. Holder \in {s, None}
      BY <1>5
    <3>2. ns[s].seen < appended
      BY <1>1, <2>3, <3>1
    <3>3. QED
      BY <2>1, <3>2
  <2>5. Holder' = Holder
    BY <1>4, <2>4
  <2>6. \E t \in Server : ns'[t].open
    BY <1>1, <1>3, <2>4
  <2>7. CASE Holder = None
    BY <1>1, <1>3, <2>2, <2>3, <2>5, <2>6, <2>7
  <2>8. CASE Holder # None
    BY <1>1, <1>3, <1>5, <2>2, <2>3, <2>4, <2>5, <2>6, <2>8
  <2>9. QED
    BY <2>7, <2>8
<1>12. QED
  BY <1>6, <1>7, <1>8, <1>9, <1>10, <1>11 DEF IInv

\* The same for a step that leaves the namespace open, and may bring s the lease
\* or, if all that is accepted is excused, take it away.
LEMMA Continuing ==
    ASSUME IInv, NEW s \in alive,
           NEW r \in Place, Orderly(r, appended), r.open,
           ns' = [ns EXCEPT ![s] = r], UNCHANGED <<appended, stored, alive>>,
           lease' \in Server \cup {None}, left' \in BOOLEAN, left' => lease' # None,
           \/ Holder' = Holder /\ (r.ask = "refused" => ns[s].ask = "refused" \/ Holder # s)
           \/ Holder = None /\ Holder' = s /\ r.ask # "refused"
           \/ Holder' = None /\ excused' = appended,
           excused' \in {excused, appended},
           faults' \in 0 .. MaxFaults, connects' \in 0 .. MaxConnects,
           \A k \in Update : stored < k /\ k <= appended
                             /\ (ns[s].open => Watches(ns[s], k)) => Watches(r, k)
    PROVE  IInv'
<1>1. /\ TypeOK /\ alive \subseteq Server /\ None \notin Server
      /\ ns \in [Server -> Place] /\ s \in Server
      /\ excused \in Position /\ appended \in Position /\ Position \subseteq Int /\ Update \subseteq Int
  BY NamespaceAssumption DEF IInv, TypeOK, Place, Position, Update
<1>2. ns'[s] = r /\ \A t \in Server \ {s} : ns'[t] = ns[t]
  BY <1>1
<1>3. Holder \in Server \cup {None} /\ (Holder # None => ns[Holder].open)
  BY DEF Holder, IInv, TypeOK
<1>4. TypeOK'
  <2>1. ns' \in [Server -> Place] /\ excused' \in Position
    BY <1>1
  <2>2. QED
    BY <1>1, <2>1 DEF TypeOK, Place
<1>5. \A t \in Server : Orderly(ns'[t], appended')
  BY <1>1, <1>2 DEF IInv
<1>6. \A t \in Server \ alive' : ~ ns'[t].open
  BY <1>1, <1>2 DEF IInv
<1>7. Holder' # None => ns'[Holder'].open
  BY <1>1, <1>2, <1>3
<1>8. \A t \in Server : ns'[t].ask = "refused" => Holder' # t
  <2>1. \A t \in Server : ns[t].ask = "refused" => Holder # t
    BY DEF IInv
  <2>2. QED
    BY <1>1, <1>2, <2>1
<1>9. UnsavedIsWatched'
  <2> SUFFICES ASSUME NEW k \in Update, stored < k, k <= appended, excused' < k
               PROVE  /\ Holder' # None => Watches(ns'[Holder'], k)
                      /\ Holder' = None => \A t \in Server : ns'[t].open => Watches(ns'[t], k)
                      /\ \E t \in Server : ns'[t].open
    BY DEF UnsavedIsWatched, Watches, Holder
  <2>1. excused' = excused /\ (Holder' = Holder \/ (Holder = None /\ Holder' = s))
    BY <1>1
  <2>2. /\ Holder # None => Watches(ns[Holder], k)
        /\ Holder = None => \A t \in Server : ns[t].open => Watches(ns[t], k)
    BY <2>1 DEF IInv, UnsavedIsWatched
  <2>3. Holder \in {s, None} => Watches(r, k)
    BY <1>1, <2>2
  <2>4. CASE Holder = None
    BY <1>1, <1>2, <2>1, <2>2, <2>3, <2>4
  <2>5. CASE Holder # None
    BY <1>1, <1>2, <1>3, <2>1, <2>2, <2>3, <2>5
  <2>6. QED
    BY <2>4, <2>5
<1>10. QED
  BY <1>4, <1>5, <1>6, <1>7, <1>8, <1>9 DEF IInv

\* What is open runs, and has what its record has; what is closed is blank.
LEMMA Facts ==
    ASSUME IInv, NEW s \in Server
    PROVE  /\ ns[s] \in Place /\ Orderly(ns[s], appended)
           /\ ns[s].open => s \in alive
           /\ ~ ns[s].open => ns[s] = Blank
           /\ appended \in Nat /\ appended \in Position /\ excused \in Position
           /\ stored \in 0 .. appended
           /\ lease \in Server \cup {None} /\ left \in BOOLEAN /\ (left => lease # None)
           /\ faults \in 0 .. MaxFaults /\ connects \in 0 .. MaxConnects
           /\ faults \in Nat
BY NamespaceAssumption DEF IInv, TypeOK, Place, Orderly, Position

LEMMA Counting ==
    ASSUME NEW crowd, Counts(crowd) \/ Fault,
           faults \in 0 .. MaxFaults, connects \in 0 .. MaxConnects
    PROVE  faults' \in 0 .. MaxFaults /\ connects' \in 0 .. MaxConnects
BY NamespaceAssumption DEF Counts, Fault, boundVars

\* What does not touch the lease leaves the server behind it.
LEMMA Untouched == UNCHANGED leaseVars => Holder' = Holder
BY DEF leaseVars, Holder

LEMMA InitIInv == Init => IInv
<1> SUFFICES ASSUME Init PROVE IInv
  OBVIOUS
<1>1. \A s \in Server : ns[s] = Blank
  BY DEF Init
<1>2. TypeOK
  <2>1. ns \in [Server -> Place]
    BY BlankIsOrderly DEF Init
  <2>2. left \in BOOLEAN /\ ~ left
    BY DEF Init
  <2>3. 0 \in Position /\ 0 \in 0 .. MaxFaults /\ 0 \in 0 .. MaxConnects /\ 0 \in 0 .. 0
    BY NamespaceAssumption DEF Position
  <2>4. /\ appended = 0 /\ stored = 0 /\ lease = None /\ alive = Server
        /\ faults = 0 /\ connects = 0 /\ excused = 0
    BY DEF Init
  <2>5. QED
    BY <2>1, <2>2, <2>3, <2>4 DEF TypeOK, Place
<1>3. appended \in Nat /\ Holder = None
  BY NamespaceAssumption DEF Init, Holder
<1>4. UnsavedIsWatched
  BY DEF Init, UnsavedIsWatched, Update
<1>5. QED
  <2>1. \A s \in Server : ~ ns[s].open /\ ns[s].ask # "refused" /\ Orderly(ns[s], appended)
    BY <1>1, <1>3, BlankIsOrderly
  <2>2. QED
    BY <1>2, <1>3, <1>4, <2>1 DEF IInv

-----------------------------------------------------------------------------
(* One lemma per action.                                                   *)

LEMMA ConnectStep == ASSUME IInv, NEW s \in Server, Connect(s) PROVE IInv'
<1>1. /\ s \in alive /\ connects < MaxConnects /\ connects' = connects + 1
      /\ connects \in 0 .. MaxConnects
      /\ ns[s] \in Place /\ Orderly(ns[s], appended) /\ (~ ns[s].open => ns[s] = Blank)
      /\ appended \in Nat /\ appended \in Position /\ stored \in 0 .. appended
  BY Facts DEF Connect
<1>2. PICK n \in 0 .. stored :
        LET r == [ns[s] EXCEPT !.sockets = @ + 1, !.cleanup = "none",
                               !.overlooked = FALSE, !.open = TRUE,
                               !.seen = IF ns[s].open THEN @ ELSE n]
        IN  \/ /\ r.doc # None
               /\ ns' = [ns EXCEPT ![s] = Asking(r)]
            \/ /\ r.doc = None /\ Cardinality(r.calls) < MaxCalls
               /\ ns' = [ns EXCEPT ![s] = [r EXCEPT !.calls = @ \cup {GetDoc("other")}]]
  BY DEF Connect
<1> DEFINE r == [ns[s] EXCEPT !.sockets = @ + 1, !.cleanup = "none",
                              !.overlooked = FALSE, !.open = TRUE,
                              !.seen = IF ns[s].open THEN @ ELSE n]
           r1 == Asking(r)
           r2 == [r EXCEPT !.calls = @ \cup {GetDoc("other")}]
<1>3. GetDoc("other") \in Call
  BY <1>1, NamespaceAssumption DEF GetDoc, Call, Update, Position
<1>4. n \in Position /\ n <= appended
  BY <1>1, NamespaceAssumption DEF Position
<1>5. /\ r \in Place /\ r.open /\ r.sockets = ns[s].sockets + 1 /\ r.sockets # 0
      /\ r.seen = (IF ns[s].open THEN ns[s].seen ELSE n)
      /\ r.doc = ns[s].doc /\ r.timer = ns[s].timer /\ r.save = ns[s].save
      /\ r.cleanup = "none" /\ r.calls = ns[s].calls /\ r.ask = ns[s].ask
  <2> DEFINE n1 == IF ns[s].open THEN ns[s].seen ELSE n
             rn == [ns[s] EXCEPT !.sockets = @ + 1, !.cleanup = "none",
                                 !.overlooked = FALSE, !.open = TRUE, !.seen = n1]
  <2>1. r = rn
    OBVIOUS
  <2>2. n1 \in Position
    BY <1>1, <1>4 DEF Place
  <2> HIDE DEF n1
  <2>3. /\ rn \in Place /\ rn.open /\ rn.sockets = ns[s].sockets + 1 /\ rn.sockets # 0
        /\ rn.seen = n1
        /\ rn.doc = ns[s].doc /\ rn.timer = ns[s].timer /\ rn.save = ns[s].save
        /\ rn.cleanup = "none" /\ rn.calls = ns[s].calls /\ rn.ask = ns[s].ask
    <3>1. ns[s].sockets + 1 \in Nat /\ ns[s].sockets + 1 # 0
      BY <1>1, NamespaceAssumption DEF Place
    <3>2. QED
      BY <1>1, <2>2, <3>1 DEF Place, Timer
  <2>4. QED
    BY <2>1, <2>3 DEF n1
<1> HIDE DEF r
<1>6. /\ r1 \in Place /\ r1.open /\ r1.sockets = r.sockets /\ r1.seen = r.seen
      /\ r1.doc = r.doc /\ r1.timer = r.timer /\ r1.save = r.save
      /\ r1.cleanup = r.cleanup /\ r1.calls = r.calls
      /\ r1.ask = "refused" => ns[s].ask = "refused"
  BY <1>5, AskingOnly
<1> HIDE DEF r1
<1>7. /\ r2 \in Place /\ r2.open /\ r2.sockets = r.sockets /\ r2.seen = r.seen
      /\ r2.doc = r.doc /\ r2.timer = r.timer /\ r2.save = r.save
      /\ r2.cleanup = r.cleanup /\ r2.calls = r.calls \cup {GetDoc("other")}
      /\ r2.ask = ns[s].ask
  BY <1>3, <1>5 DEF Place
<1> HIDE DEF r2
<1>8. Orderly(r1, appended) /\ Orderly(r2, appended)
  BY <1>1, <1>4, <1>5, <1>6, <1>7 DEF Orderly
<1>9. \A k \in Update : stored < k /\ (ns[s].open => Watches(ns[s], k)) => Watches(r1, k) /\ Watches(r2, k)
  <2> SUFFICES ASSUME NEW k \in Update, stored < k, ns[s].open => Watches(ns[s], k)
               PROVE  Watches(r1, k) /\ Watches(r2, k)
    OBVIOUS
  <2>1. CASE ns[s].open
    BY <1>1, <1>5, <1>6, <1>7, <2>1 DEF Watches, Place
  <2>2. CASE ~ ns[s].open
    <3>1. n < k
      BY <1>1, <1>4 DEF Update, Position
    <3>2. QED
      BY <1>5, <1>6, <1>7, <2>2, <3>1 DEF Watches
  <2>3. QED
    BY <2>1, <2>2
<1>10. /\ UNCHANGED <<appended, stored, alive, faults, excused, lease, left>> /\ Holder' = Holder
      /\ lease \in Server \cup {None} /\ left \in BOOLEAN /\ (left => lease # None)
      /\ faults \in 0 .. MaxFaults /\ connects' \in 0 .. MaxConnects
  BY <1>1, Facts, Untouched, NamespaceAssumption DEF Connect, redisVars, leaseVars
<1>11. CASE ns' = [ns EXCEPT ![s] = r1]
  BY <1>1, <1>6, <1>8, <1>9, <1>10, <1>11, Continuing
<1>12. CASE ns' = [ns EXCEPT ![s] = r2]
  <2>1. r2.open /\ (r2.ask = "refused" => ns[s].ask = "refused")
    BY <1>7
  <2>2. QED
    BY <1>1, <1>7, <1>8, <1>9, <1>10, <1>12, <2>1, Continuing
<1>13. QED
  BY <1>2, <1>11, <1>12 DEF r, r1, r2

LEMMA DisconnectStep == ASSUME IInv, NEW s \in Server, Disconnect(s) PROVE IInv'
<1>1. PICK crowd \in BOOLEAN :
        LET r == [ns[s] EXCEPT !.sockets = @ - 1] IN
         /\ Counts(crowd)
         /\ Becomes(s, IF Empty(r, crowd)
                       THEN LET armed == Armed(r, FALSE)
                            IN  IF r.doc # None THEN Debounced(armed, TRUE) ELSE armed
                       ELSE [r EXCEPT !.overlooked = @ \/ r.sockets = 0], crowd, FALSE)
  BY DEF Disconnect
<1>2. /\ ns[s].sockets > 0 /\ UNCHANGED <<appended, stored, alive>>
      /\ ns[s] \in Place /\ Orderly(ns[s], appended)
      /\ appended \in Nat /\ stored \in 0 .. appended
  BY Facts DEF Disconnect, redisVars
<1>3. ns[s].open /\ s \in alive
  <2>1. ns[s] # Blank
    BY <1>2, BlankIsOrderly
  <2>2. QED
    BY <2>1, Facts
<1> DEFINE r == [ns[s] EXCEPT !.sockets = @ - 1]
           armed == Armed(r, FALSE)
           d == Debounced(armed, TRUE)
           o == [r EXCEPT !.overlooked = @ \/ r.sockets = 0]
           q == IF Empty(r, crowd) THEN IF r.doc # None THEN d ELSE armed ELSE o
<1>4. Becomes(s, q, crowd, FALSE)
  BY <1>1
<1>5. /\ r \in Place /\ r.sockets = ns[s].sockets - 1 /\ r.open /\ r.seen = ns[s].seen
      /\ r.doc = ns[s].doc /\ r.timer = ns[s].timer /\ r.save = ns[s].save
      /\ r.cleanup = ns[s].cleanup /\ r.calls = ns[s].calls /\ r.overlooked = ns[s].overlooked
      /\ r.ask = ns[s].ask
  BY <1>2, <1>3, NamespaceAssumption DEF Place
<1> HIDE DEF r
<1>6. /\ armed \in Place /\ armed.sockets = r.sockets /\ armed.open /\ armed.seen = r.seen
      /\ armed.doc = r.doc /\ armed.timer = r.timer /\ armed.save = r.save
      /\ armed.cleanup # "none" /\ (armed.cleanup = "fired" => r.cleanup = "fired")
      /\ armed.calls = r.calls /\ armed.ask = r.ask
  BY <1>5 DEF Armed, Place, Timer
<1> HIDE DEF armed
<1>7. d \in Place /\ SameState(armed, d) /\ d.timer # "none"
  BY <1>6, Debouncing
<1> HIDE DEF d
<1>8. /\ o \in Place /\ o.sockets = r.sockets /\ o.open /\ o.seen = r.seen
      /\ o.doc = r.doc /\ o.timer = r.timer /\ o.save = r.save
      /\ o.cleanup = r.cleanup /\ o.calls = r.calls /\ o.ask = r.ask
      /\ o.overlooked = (r.overlooked \/ r.sockets = 0)
      /\ r.sockets = 0 => o.overlooked
  BY <1>5 DEF Place
<1> HIDE DEF o
<1>9. q \in Place /\ Orderly(q, appended) /\ q.open /\ q.ask = ns[s].ask
  <2>1. CASE Empty(r, crowd) /\ r.doc # None
    BY <1>2, <1>5, <1>6, <1>7, <2>1 DEF SameState, Orderly
  <2>2. CASE Empty(r, crowd) /\ r.doc = None
    BY <1>2, <1>5, <1>6, <2>2 DEF Orderly
  <2>3. CASE ~ Empty(r, crowd)
    BY <1>2, <1>5, <1>8, <2>3 DEF Orderly
  <2>4. QED
    BY <2>1, <2>2, <2>3
<1>10. \A k \in Update : Watches(ns[s], k) => Watches(q, k) \/ (crowd /\ q.overlooked)
  <2> SUFFICES ASSUME NEW k \in Update, Watches(ns[s], k)
               PROVE  Watches(q, k) \/ (crowd /\ q.overlooked)
    OBVIOUS
  <2>1. CASE Empty(r, crowd) /\ r.doc # None
    BY <1>5, <1>6, <1>7, <2>1 DEF SameState, Watches
  <2>2. CASE Empty(r, crowd) /\ r.doc = None
    BY <1>5, <1>6, <2>2 DEF Watches
  <2>3. CASE ~ Empty(r, crowd)
    <3>1. r.sockets > 0 \/ (crowd /\ o.overlooked)
      <4>1. r.sockets \in Nat
        BY <1>5 DEF Place
      <4>2. r.sockets # 0 \/ crowd
        BY <2>3 DEF Empty
      <4>3. CASE r.sockets = 0
        BY <1>8, <4>2, <4>3
      <4>4. CASE r.sockets # 0
        BY <4>1, <4>4, NamespaceAssumption
      <4>5. QED
        BY <4>3, <4>4
    <3>2. q = o
      BY <2>3
    <3>3. QED
      BY <1>2, <1>5, <1>8, <3>1, <3>2 DEF Watches
  <2>4. QED
    BY <2>1, <2>2, <2>3
<1> HIDE DEF q
<1>11. faults' \in 0 .. MaxFaults /\ connects' \in 0 .. MaxConnects
  BY <1>1, Facts, Counting
<1>12. stored' \in stored .. appended
  BY <1>2
<1>13. QED
  BY <1>2, <1>3, <1>4, <1>9, <1>10, <1>11, <1>12, Becoming

LEMMA AppendStep == ASSUME IInv, NEW s \in Server, Append(s) PROVE IInv'
<1>1. /\ TypeOK /\ ns[s].open /\ appended < MaxAppends /\ appended' = appended + 1
      /\ UNCHANGED <<stored, lease, left, alive, ns, faults, connects, excused>> /\ Holder' = Holder
      /\ alive \subseteq Server /\ lease \in Server \cup {None} /\ None \notin Server
      /\ appended \in Nat /\ Update \subseteq Nat
  BY NamespaceAssumption, Untouched DEF Append, IInv, TypeOK, Position, Update, leaseVars, boundVars
<1>2. TypeOK'
  BY <1>1, NamespaceAssumption DEF TypeOK, Position
<1>3. \A t \in Server : ns[t].seen \in Nat /\ ns[t].seen <= appended
                       /\ (ns[t].save # None => ns[t].save.snap \in Nat)
  BY Facts, NamespaceAssumption DEF Place, Orderly, Position, Save
<1>4. \A t \in Server : Orderly(ns'[t], appended')
  BY <1>1, <1>3 DEF IInv, Orderly
<1>5. Holder \in Server \cup {None} /\ (Holder # None => ns[Holder].open)
  BY <1>1 DEF Holder, IInv
<1>6. UnsavedIsWatched'
  <2> SUFFICES ASSUME NEW k \in Update, stored < k, k <= appended + 1, excused < k
               PROVE  /\ Holder # None => Watches(ns[Holder], k)
                      /\ Holder = None => \A t \in Server : ns[t].open => Watches(ns[t], k)
                      /\ \E t \in Server : ns[t].open
    BY <1>1 DEF UnsavedIsWatched, Watches, Holder
  <2>1. CASE k <= appended
    BY <2>1 DEF IInv, UnsavedIsWatched
  <2>2. CASE ~ (k <= appended)
    <3>1. \A t \in Server : ns[t].seen < k
      BY <1>1, <1>3, <2>2
    <3>2. \A t \in Server : ns[t].open => Watches(ns[t], k)
      BY <3>1 DEF Watches
    <3>3. QED
      BY <1>1, <1>5, <3>2
  <2>3. QED
    BY <2>1, <2>2
<1>7. QED
  BY <1>1, <1>2, <1>4, <1>6 DEF IInv

LEMMA DeliverStep == ASSUME IInv, NEW s \in Server, Deliver(s) PROVE IInv'
<1>1. PICK n \in ns[s].seen + 1 .. appended, due \in BOOLEAN, crowd \in BOOLEAN, leads \in BOOLEAN :
        /\ ns[s].open /\ Counts(crowd)
        /\ LET r == [ns[s] EXCEPT !.seen = n]
               heard == IF Empty(r, crowd) THEN Armed(r, leads) ELSE r
               batch == ns[s].seen + 1 .. n
           IN  Becomes(s, IF r.doc = None
                          THEN [heard EXCEPT !.calls = @ \cup {GetDoc("message")}]
                          ELSE [Told(heard, ~ (batch \subseteq r.doc), due, crowd)
                                  EXCEPT !.doc = @ \cup batch], crowd, FALSE)
        /\ UNCHANGED <<redisVars, alive>>
  BY DEF Deliver
<1>2. /\ UNCHANGED <<appended, stored, alive>> /\ s \in alive /\ ns[s].open
      /\ ns[s] \in Place /\ Orderly(ns[s], appended)
      /\ appended \in Nat /\ appended \in Position /\ stored \in 0 .. appended
  BY <1>1, Facts DEF redisVars
<1>3. n \in Position /\ n <= appended /\ ns[s].seen + 1 .. n \in SUBSET Update
  BY <1>1, <1>2, NamespaceAssumption DEF Position, Update, Place
<1> DEFINE r == [ns[s] EXCEPT !.seen = n]
           heard == IF Empty(r, crowd) THEN Armed(r, leads) ELSE r
           batch == ns[s].seen + 1 .. n
           new == ~ (batch \subseteq r.doc)
           called == [heard EXCEPT !.calls = @ \cup {GetDoc("message")}]
           told == Told(heard, new, due, crowd)
           applied == [told EXCEPT !.doc = @ \cup batch]
           q == IF r.doc = None THEN called ELSE applied
<1>4. Becomes(s, q, crowd, FALSE)
  BY <1>1
<1>5. /\ r \in Place /\ r.sockets = ns[s].sockets /\ r.open /\ r.seen = n
      /\ r.doc = ns[s].doc /\ r.timer = ns[s].timer /\ r.save = ns[s].save
      /\ r.cleanup = ns[s].cleanup /\ r.calls = ns[s].calls /\ r.overlooked = ns[s].overlooked
      /\ r.ask = ns[s].ask
  BY <1>2, <1>3 DEF Place
<1> HIDE DEF r
<1>6. /\ heard \in Place /\ heard.sockets = r.sockets /\ heard.open /\ heard.seen = r.seen
      /\ heard.doc = r.doc /\ heard.timer = r.timer /\ heard.save = r.save
      /\ (heard.cleanup = "fired" => r.cleanup = "fired")
      /\ heard.calls = r.calls /\ heard.ask = r.ask
      /\ (r.sockets = 0 => heard.cleanup # "none" \/ heard.overlooked)
  <2>1. CASE Empty(r, crowd)
    <3>1. heard = Armed(r, leads)
      BY <2>1
    <3> HIDE DEF heard
    <3>2. QED
      BY <1>5, <3>1 DEF Armed, Place, Timer
  <2>2. CASE ~ Empty(r, crowd)
    BY <1>2, <1>5, <2>2 DEF Orderly
  <2>3. QED
    BY <2>1, <2>2
<1> HIDE DEF heard
<1>7. /\ GetDoc("message") \in Call /\ GetDoc("message").kind = "message"
      /\ GetDoc("message").changed = (stored < appended) /\ GetDoc("message").has = 1 .. appended
  BY <1>2, NamespaceAssumption DEF GetDoc, Call, Update, Position
<1>8. /\ called \in Place /\ called.sockets = r.sockets /\ called.open /\ called.seen = n
      /\ called.doc = r.doc /\ called.timer = r.timer /\ called.save = r.save
      /\ called.cleanup = heard.cleanup /\ called.overlooked = heard.overlooked
      /\ called.calls = r.calls \cup {GetDoc("message")} /\ called.ask = r.ask
  BY <1>5, <1>6, <1>7 DEF Place
<1> HIDE DEF called
<1> batch \in SUBSET Update
  BY <1>3
<1> HIDE DEF batch
<1>9. new \in BOOLEAN
  OBVIOUS
<1> HIDE DEF new
<1>10. /\ told \in Place /\ SameState(heard, told)
       /\ heard.timer # "none" => told.timer # "none"
       /\ heard.overlooked => told.overlooked
       /\ \/ told.timer # "none"
          \/ ~ new /\ heard.sockets > 0
          \/ ~ new /\ crowd /\ told.overlooked
  BY <1>6, <1>9, Telling
<1> HIDE DEF told
<1>11. r.doc # None =>
         /\ applied \in Place /\ applied.sockets = r.sockets /\ applied.open /\ applied.seen = n
         /\ applied.doc = r.doc \cup batch /\ applied.timer = told.timer /\ applied.save = r.save
         /\ applied.cleanup = heard.cleanup /\ applied.calls = r.calls
         /\ applied.overlooked = told.overlooked /\ applied.doc # None /\ applied.ask = r.ask
  <2> SUFFICES ASSUME r.doc # None
               PROVE  /\ applied \in Place /\ applied.sockets = r.sockets /\ applied.open /\ applied.seen = n
                      /\ applied.doc = r.doc \cup batch /\ applied.timer = told.timer /\ applied.save = r.save
                      /\ applied.cleanup = heard.cleanup /\ applied.calls = r.calls
                      /\ applied.overlooked = told.overlooked /\ applied.doc # None /\ applied.ask = r.ask
    OBVIOUS
  <2>1. /\ told.doc = r.doc /\ told.sockets = r.sockets /\ told.open /\ told.seen = n
        /\ told.save = r.save /\ told.cleanup = heard.cleanup /\ told.calls = r.calls
        /\ told.ask = r.ask
    BY <1>5, <1>6, <1>10 DEF SameState
  <2>2. r.doc \cup batch \in SUBSET Update
    BY <1>5 DEF Place
  <2>3. r.doc \cup batch # None
    BY <2>2, NoneAssumption
  <2>4. QED
    BY <1>10, <2>1, <2>2, <2>3 DEF Place
<1> HIDE DEF applied
<1>12. q \in Place /\ Orderly(q, appended) /\ q.open /\ q.ask = ns[s].ask
  <2>1. CASE r.doc = None
    BY <1>2, <1>3, <1>5, <1>6, <1>8, <2>1 DEF Orderly
  <2>2. CASE r.doc # None
    BY <1>2, <1>3, <1>5, <1>6, <1>10, <1>11, <2>2 DEF Orderly
  <2>3. QED
    BY <2>1, <2>2
<1>13. \A k \in Update : stored < k /\ k <= appended /\ Watches(ns[s], k)
                        => Watches(q, k) \/ (crowd /\ q.overlooked)
  <2> SUFFICES ASSUME NEW k \in Update, stored < k, k <= appended, Watches(ns[s], k)
               PROVE  Watches(q, k) \/ (crowd /\ q.overlooked)
    OBVIOUS
  <2>1. CASE r.doc = None
    <3>1. stored < appended /\ k \in 1 .. appended
      BY <1>2 DEF Update
    <3>2. q = called
      BY <2>1
    <3>3. GetDoc("message") \in q.calls /\ q.open
      BY <1>8, <3>2
    <3>4. QED
      BY <1>7, <3>1, <3>3 DEF Watches
  <2>2. CASE r.doc # None
    BY <1>6, <1>10, <1>11, <2>2 DEF Watches
  <2>3. QED
    BY <2>1, <2>2
<1> HIDE DEF q
<1>14. faults' \in 0 .. MaxFaults /\ connects' \in 0 .. MaxConnects
  BY <1>1, Facts, Counting
<1>15. stored' \in stored .. appended
  BY <1>2
<1>16. QED
  BY <1>2, <1>4, <1>12, <1>13, <1>14, <1>15, Becoming

LEMMA CallReturnsStep == ASSUME IInv, NEW s \in Server, CallReturns(s) PROVE IInv'
<1>1. PICK c \in ns[s].calls :
        LET r == [ns[s] EXCEPT !.calls = @ \ {c}, !.doc = c.has] IN
        /\ IF c.kind = "message"
           THEN \E due, crowd \in BOOLEAN :
                  Counts(crowd) /\ Becomes(s, Told(r, c.changed, due, crowd), crowd, FALSE)
           ELSE /\ \E asked \in BOOLEAN :
                     ns' = [ns EXCEPT ![s] = IF asked THEN Asking(r) ELSE r]
                /\ UNCHANGED <<leaseVars, boundVars, excused>>
        /\ UNCHANGED <<redisVars, alive>>
  BY DEF CallReturns
<1>2. /\ UNCHANGED <<appended, stored, alive>>
      /\ ns[s] \in Place /\ Orderly(ns[s], appended)
      /\ appended \in Nat /\ stored \in 0 .. appended
  BY <1>1, Facts DEF redisVars
<1>3. ns[s].open /\ s \in alive
  <2>1. ns[s] # Blank
    BY <1>1, BlankIsOrderly
  <2>2. QED
    BY <2>1, Facts
<1>4. c.has \in SUBSET Update /\ c.has # None /\ c.changed \in BOOLEAN /\ c \in Call
  BY <1>2, NoneAssumption DEF Place, Call
<1> DEFINE r == [ns[s] EXCEPT !.calls = @ \ {c}, !.doc = c.has]
<1>5. /\ r \in Place /\ r.sockets = ns[s].sockets /\ r.open /\ r.seen = ns[s].seen
      /\ r.doc = c.has /\ r.timer = ns[s].timer /\ r.save = ns[s].save
      /\ r.cleanup = ns[s].cleanup /\ r.calls = ns[s].calls \ {c}
      /\ r.overlooked = ns[s].overlooked /\ r.ask = ns[s].ask
  BY <1>2, <1>3, <1>4 DEF Place
<1>6. CASE c.kind = "message"
  <2>1. PICK due \in BOOLEAN, crowd \in BOOLEAN :
          Counts(crowd) /\ Becomes(s, Told(r, c.changed, due, crowd), crowd, FALSE)
    BY <1>1, <1>6
  <2> DEFINE q == Told(r, c.changed, due, crowd)
  <2> HIDE DEF r
  <2>2. /\ q \in Place /\ SameState(r, q)
        /\ r.timer # "none" => q.timer # "none"
        /\ r.overlooked => q.overlooked
        /\ q.timer # "none" \/ ~ c.changed
    BY <1>4, <1>5, Telling
  <2>3. Becomes(s, q, crowd, FALSE)
    BY <2>1
  <2> HIDE DEF q
  <2>4. Orderly(q, appended) /\ q.open /\ q.ask = ns[s].ask
    BY <1>2, <1>3, <1>4, <1>5, <2>2 DEF SameState, Orderly
  <2>5. \A k \in Update : Watches(ns[s], k) => Watches(q, k)
    <3> SUFFICES ASSUME NEW k \in Update, Watches(ns[s], k) PROVE Watches(q, k)
      OBVIOUS
    <3>1. CASE q.timer # "none"
      BY <2>4, <3>1 DEF Watches
    <3>2. CASE q.timer = "none"
      BY <1>4, <1>5, <2>2, <2>4, <3>2 DEF SameState, Watches
    <3>3. QED
      BY <3>1, <3>2
  <2>6. faults' \in 0 .. MaxFaults /\ connects' \in 0 .. MaxConnects
    BY <2>1, Facts, Counting
  <2>7. stored' \in stored .. appended
    BY <1>2
  <2>8. QED
    BY <1>2, <1>3, <2>3, <2>2, <2>4, <2>5, <2>6, <2>7, Becoming
<1>7. CASE c.kind # "message"
  <2>1. PICK asked \in BOOLEAN : ns' = [ns EXCEPT ![s] = IF asked THEN Asking(r) ELSE r]
    BY <1>1, <1>7
  <2> DEFINE q == IF asked THEN Asking(r) ELSE r
  <2> HIDE DEF r
  <2>2. /\ q \in Place
        /\ q.sockets = r.sockets /\ q.open = r.open /\ q.seen = r.seen /\ q.doc = r.doc
        /\ q.save = r.save /\ q.cleanup = r.cleanup /\ q.calls = r.calls
        /\ q.timer = r.timer /\ q.overlooked = r.overlooked
        /\ q.ask = "refused" => ns[s].ask = "refused"
    BY <1>5, AskingOnly
  <2>3. ns' = [ns EXCEPT ![s] = q]
    BY <2>1
  <2> HIDE DEF q
  <2>4. Orderly(q, appended)
    BY <1>2, <1>3, <1>4, <1>5, <2>2 DEF Orderly
  <2>5. \A k \in Update : Watches(ns[s], k) => Watches(q, k)
    BY <1>4, <1>5, <1>7, <2>2 DEF Watches
  <2>6. /\ UNCHANGED <<lease, left, faults, connects, excused>> /\ Holder' = Holder
        /\ lease \in Server \cup {None} /\ left \in BOOLEAN /\ (left => lease # None)
        /\ faults \in 0 .. MaxFaults /\ connects \in 0 .. MaxConnects
    BY <1>1, <1>7, Facts, Untouched DEF leaseVars, boundVars
  <2>7. q.open
    BY <1>5, <2>2
  <2>8. QED
    BY <1>2, <1>3, <2>2, <2>3, <2>4, <2>5, <2>6, <2>7, Continuing
<1>8. QED
  BY <1>6, <1>7

LEMMA PersistTimerStep == ASSUME IInv, NEW s \in Server, PersistTimer(s) PROVE IInv'
<1>1. /\ ns[s].timer = "set"
      /\ ns' = [ns EXCEPT ![s] = IF ns[s].save = None THEN SaveStarted(ns[s])
                                 ELSE [ns[s] EXCEPT !.timer = "fired"]]
      /\ UNCHANGED <<appended, stored, lease, left, alive, faults, connects, excused>>
  <2>1. ns[s].timer = "set" /\ ns \in [Server -> Place]
    BY DEF PersistTimer, IInv, TypeOK, Place
  <2>2. QED
    BY <2>1 DEF PersistTimer, redisVars, leaseVars, boundVars
<1>2. ns[s] \in Place /\ Orderly(ns[s], appended) /\ appended \in Nat
  BY Facts
<1>3. ns[s].open /\ s \in alive
  <2>1. ns[s] # Blank
    BY <1>1, BlankIsOrderly
  <2>2. QED
    BY <2>1, Facts
<1> DEFINE a == SaveStarted(ns[s])
           b == [ns[s] EXCEPT !.timer = "fired"]
<1>4. /\ ns[s].doc # None /\ ns[s].seen <= appended
      /\ ns[s].sockets = 0 => ns[s].cleanup # "none" \/ ns[s].overlooked
  BY <1>1, <1>2, <1>3 DEF Orderly
<1>5. Holder' = Holder
  BY <1>1, Untouched DEF leaseVars
<1>6. CASE ns[s].save = None
  <2>1. ns' = [ns EXCEPT ![s] = a] /\ ns[s].cleanup # "fired"
    BY <1>1, <1>2, <1>6 DEF Orderly
  <2>2. /\ a \in Place /\ Orderly(a, appended) /\ a.open
        /\ a.ask = "refused" => ns[s].ask = "refused"
        /\ \A k \in Update : Watches(a, k)
    BY <1>2, <1>3, <1>4, <2>1, Starting
  <2> HIDE DEF a
  <2>3. QED
    BY <1>1, <1>3, <1>5, <2>1, <2>2, Facts, Continuing
<1>7. CASE ns[s].save # None
  <2>1. ns' = [ns EXCEPT ![s] = b]
    BY <1>1, <1>7
  <2>2. /\ b \in Place /\ b.open /\ b.timer = "fired" /\ b.save = ns[s].save
        /\ b.sockets = ns[s].sockets /\ b.seen = ns[s].seen /\ b.doc = ns[s].doc
        /\ b.cleanup = ns[s].cleanup /\ b.calls = ns[s].calls /\ b.overlooked = ns[s].overlooked
        /\ b.ask = ns[s].ask
    BY <1>2, <1>3 DEF Place, Timer
  <2> HIDE DEF b
  <2>3. Orderly(b, appended)
    BY <1>1, <1>2, <1>3, <1>4, <2>2 DEF Orderly
  <2>4. \A k \in Update : Watches(b, k)
    BY <2>2 DEF Watches
  <2>5. b.ask = "refused" => ns[s].ask = "refused"
    BY <2>2
  <2>6. QED
    BY <1>1, <1>3, <1>5, <2>1, <2>2, <2>3, <2>4, <2>5, Facts, Continuing
<1>8. QED
  BY <1>6, <1>7

LEMMA CleanupTimerStep == ASSUME IInv, NEW s \in Server, CleanupTimer(s) PROVE IInv'
<1>1. PICK crowd \in BOOLEAN :
        /\ Counts(crowd)
        /\ Becomes(s, IF ns[s].save # None THEN [ns[s] EXCEPT !.cleanup = "fired"]
                      ELSE CleanupResumed(ns[s], FALSE, crowd), crowd, FALSE)
  BY DEF CleanupTimer
<1>2. /\ ns[s].cleanup = "set" /\ ns[s].calls = {}
      /\ UNCHANGED <<appended, stored, alive>>
      /\ ns[s] \in Place /\ Orderly(ns[s], appended)
      /\ appended \in Nat /\ stored \in 0 .. appended
  BY Facts DEF CleanupTimer, redisVars
<1>3. ns[s].open /\ s \in alive
  <2>1. ns[s] # Blank
    BY <1>2, BlankIsOrderly
  <2>2. QED
    BY <2>1, Facts
<1>4. /\ faults' \in 0 .. MaxFaults /\ connects' \in 0 .. MaxConnects
      /\ stored' \in stored .. appended
  BY <1>1, <1>2, Facts, Counting
<1>5. CASE ns[s].save # None
  <2> DEFINE q == [ns[s] EXCEPT !.cleanup = "fired"]
  <2>1. Becomes(s, q, crowd, FALSE)
    BY <1>1, <1>5
  <2>2. /\ q \in Place /\ q.open /\ q.timer = ns[s].timer /\ q.save = ns[s].save
        /\ q.sockets = ns[s].sockets /\ q.seen = ns[s].seen /\ q.doc = ns[s].doc
        /\ q.cleanup = "fired" /\ q.calls = ns[s].calls /\ q.ask = ns[s].ask
    BY <1>2, <1>3 DEF Place, Timer
  <2> HIDE DEF q
  <2>3. Orderly(q, appended)
    BY <1>2, <1>5, <2>2 DEF Orderly
  <2>4. \A k \in Update : Watches(ns[s], k) => Watches(q, k)
    BY <2>2 DEF Watches
  <2>5. QED
    BY <1>2, <1>3, <1>4, <2>1, <2>2, <2>3, <2>4, Becoming
<1>6. CASE ns[s].save = None
  <2> DEFINE q == CleanupResumed(ns[s], FALSE, crowd)
  <2>1. Becomes(s, q, crowd, FALSE)
    BY <1>1, <1>6
  <2>2. /\ q \in Place /\ Orderly(q, appended)
        /\ q.open => /\ q.sockets = ns[s].sockets /\ q.seen = ns[s].seen /\ q.doc = ns[s].doc
                     /\ q.save = ns[s].save /\ q.calls = ns[s].calls /\ q.timer = ns[s].timer
                     /\ q.ask = ns[s].ask
        /\ ~ q.open => q = Blank /\ ns[s].timer = "none" /\ ns[s].sockets = 0
    <3>1. ns[s].seen <= appended /\ (ns[s].timer # "none" => ns[s].doc # None)
      BY <1>2 DEF Orderly
    <3>2. QED
      BY <1>2, <1>3, <1>6, <3>1, Resuming
  <2> HIDE DEF q
  <2>3. q.ask = "refused" => ns[s].ask = "refused"
    BY <2>2, BlankIsOrderly
  <2>4. \A k \in Update : Watches(ns[s], k) => IF q.open THEN Watches(q, k) ELSE ns[s].seen < k
    BY <1>2, <1>6, <2>2 DEF Watches
  <2>5. QED
    BY <1>2, <1>3, <1>4, <2>1, <2>2, <2>3, <2>4, Becoming, ZenonT(30)
<1>7. QED
  BY <1>5, <1>6

\* Storage with what a save has read of it.
LEMMA Storing ==
    ASSUME NEW save \in Save, NEW app \in Nat, appended = app, stored \in 0 .. app,
           save.snap <= app, TakesEffect(save)
    PROVE  stored' \in stored .. app /\ save.snap <= stored'
<1>1. PICK n \in save.snap .. app : stored' = IF stored < n THEN n ELSE stored
  BY DEF TakesEffect, StoredWith
<1>2. save.snap \in Int
  BY DEF Save, Position
<1>3. QED
  BY <1>1, <1>2

LEMMA WriteStep == ASSUME IInv, NEW s \in Server, Write(s) PROVE IInv'
<1>1. /\ ns[s].save # None /\ ns[s].save.pc = "write" /\ TakesEffect(ns[s].save)
      /\ UNCHANGED <<appended, alive>>
      /\ ns[s] \in Place /\ Orderly(ns[s], appended)
      /\ appended \in Nat /\ stored \in 0 .. appended
  BY Facts DEF Write
<1>2. ns[s].open /\ s \in alive
  <2>1. ns[s] # Blank
    BY <1>1, BlankIsOrderly
  <2>2. QED
    BY <2>1, Facts
<1>3. PICK crowd \in BOOLEAN :
        Counts(crowd) /\ Becomes(s, SaveEnded(ns[s], FALSE, crowd), crowd, FALSE)
  BY DEF Write
<1> DEFINE q == SaveEnded(ns[s], FALSE, crowd)
<1>4. /\ q \in Place /\ Orderly(q, appended)
      /\ q.ask = "refused" => ns[s].ask = "refused"
      /\ q.open => \A k \in Update : Remains(ns[s], FALSE, k) /\ Watches(ns[s], k) => Watches(q, k)
      /\ ~ q.open => \A k \in Update : Remains(ns[s], FALSE, k) /\ Watches(ns[s], k) => ns[s].seen < k
  BY <1>1, <1>2, Ending
<1>5. Becomes(s, q, crowd, FALSE)
  BY <1>3
<1> HIDE DEF q
<1>6. /\ ns[s].save \in Save /\ ns[s].save.snap \in Int
      /\ ns[s].save.snap <= appended
  BY <1>1 DEF Place, Save, Position, Orderly
<1>7. stored' \in stored .. appended /\ ns[s].save.snap <= stored'
  BY <1>1, <1>6, Storing
<1>8. \A k \in Update : stored' < k => Remains(ns[s], FALSE, k)
  BY <1>1, <1>6, <1>7 DEF Remains, Update
<1>9. faults' \in 0 .. MaxFaults /\ connects' \in 0 .. MaxConnects
  BY <1>3, Facts, Counting
<1>10. QED
  BY <1>1, <1>2, <1>4, <1>5, <1>7, <1>8, <1>9, Becoming, ZenonT(30)

LEMMA SaveFailsStep == ASSUME IInv, NEW s \in Server, SaveFails(s) PROVE IInv'
<1>1. /\ ns[s].save # None /\ Fault
      /\ stored' = stored \/ TakesEffect(ns[s].save)
      /\ Becomes(s, SaveEnded(ns[s], TRUE, FALSE), FALSE, FALSE)
      /\ UNCHANGED <<appended, alive>>
      /\ ns[s] \in Place /\ Orderly(ns[s], appended)
      /\ appended \in Nat /\ stored \in 0 .. appended
  BY Facts DEF SaveFails
<1>2. ns[s].open /\ s \in alive
  <2>1. ns[s] # Blank
    BY <1>1, BlankIsOrderly
  <2>2. QED
    BY <2>1, Facts
<1> DEFINE q == SaveEnded(ns[s], TRUE, FALSE)
<1>3. /\ q \in Place /\ Orderly(q, appended) /\ q.open
      /\ q.ask = "refused" => ns[s].ask = "refused"
      /\ \A k \in Update : Watches(ns[s], k) => Watches(q, k)
  <2>1. \A k : Remains(ns[s], TRUE, k)
    BY DEF Remains
  <2>2. QED
    BY <1>1, <1>2, <2>1, Ending
<1> HIDE DEF q
<1>4. Becomes(s, q, FALSE, FALSE)
  BY <1>1 DEF q
<1>5. ns[s].save \in Save /\ ns[s].save.snap <= appended
  BY <1>1 DEF Place, Orderly
<1>6. stored' \in stored .. appended
  <2>1. CASE stored' = stored
    BY <1>1, <2>1
  <2>2. CASE TakesEffect(ns[s].save)
    BY <1>1, <1>5, <2>2, Storing
  <2>3. QED
    BY <1>1, <2>1, <2>2
<1>7. faults' \in 0 .. MaxFaults /\ connects' \in 0 .. MaxConnects
  BY <1>1, Facts, Counting
<1>8. QED
  BY <1>1, <1>2, <1>3, <1>4, <1>6, <1>7, Becoming

LEMMA ExecuteStep == ASSUME IInv, NEW s \in Server, Execute(s) PROVE IInv'
<1> DEFINE won == Holder = s \/ lease = None
           q == [ns[s] EXCEPT !.ask = IF won THEN "won" ELSE "refused"]
<1>1. /\ ns[s].ask = "sent" /\ ns' = [ns EXCEPT ![s] = q]
      /\ lease' = IF lease = None THEN s ELSE lease
      /\ UNCHANGED <<appended, stored, left, alive, faults, connects, excused>>
  <2>1. ns \in [Server -> Place]
    BY DEF IInv, TypeOK, Place
  <2>2. QED
    BY <2>1 DEF Execute, redisVars, boundVars
<1>2. ns[s] \in Place /\ Orderly(ns[s], appended)
  BY Facts
<1>3. ns[s].open /\ s \in alive
  <2>1. ns[s] # Blank
    BY <1>1, BlankIsOrderly
  <2>2. QED
    BY <2>1, Facts
<1>4. /\ q \in Place /\ q.sockets = ns[s].sockets /\ q.open /\ q.seen = ns[s].seen
      /\ q.doc = ns[s].doc /\ q.timer = ns[s].timer /\ q.save = ns[s].save
      /\ q.cleanup = ns[s].cleanup /\ q.calls = ns[s].calls /\ q.overlooked = ns[s].overlooked
      /\ q.ask = IF won THEN "won" ELSE "refused"
  BY <1>2, <1>3 DEF Place, Request
<1> HIDE DEF q
<1>5. Orderly(q, appended) /\ \A k \in Update : Watches(ns[s], k) => Watches(q, k)
  BY <1>2, <1>3, <1>4 DEF Orderly, Watches
<1>6. /\ lease \in Server \cup {None} /\ left \in BOOLEAN /\ (left => lease # None)
      /\ None \notin Server /\ faults \in 0 .. MaxFaults /\ connects \in 0 .. MaxConnects
  BY Facts, NamespaceAssumption
<1>7. lease' \in Server \cup {None} /\ left' \in BOOLEAN /\ (left' => lease' # None)
  BY <1>1, <1>6
<1>8. CASE lease = None
  <2>1. Holder = None /\ Holder' = s /\ q.ask # "refused"
    BY <1>1, <1>4, <1>6, <1>8, Holding DEF Holder
  <2>2. QED
    BY <1>1, <1>3, <1>4, <1>5, <1>6, <1>7, <2>1, Continuing
<1>9. CASE lease # None /\ Holder = s
  <2>1. Holder' = Holder /\ q.ask # "refused"
    BY <1>1, <1>4, <1>9, Holding DEF Holder
  <2>2. QED
    BY <1>1, <1>3, <1>4, <1>5, <1>6, <1>7, <2>1, Continuing
<1>10. CASE lease # None /\ Holder # s
  <2>1. Holder' = Holder
    BY <1>1, <1>10, Holding DEF Holder
  <2>2. QED
    BY <1>1, <1>3, <1>4, <1>5, <1>6, <1>7, <1>10, <2>1, Continuing
<1>11. QED
  BY <1>8, <1>9, <1>10

LEMMA AnsweredStep == ASSUME IInv, NEW s \in Server, Answered(s) PROVE IInv'
<1> DEFINE r == [ns[s] EXCEPT !.ask = "none"]
<1>1. /\ ns[s].ask \in {"won", "refused"}
      /\ UNCHANGED <<appended, stored, alive>>
      /\ ns[s] \in Place /\ Orderly(ns[s], appended)
      /\ appended \in Nat /\ appended \in Position /\ stored \in 0 .. appended
      /\ faults \in 0 .. MaxFaults /\ connects \in 0 .. MaxConnects
  BY Facts DEF Answered, redisVars
<1>2. ns[s].open /\ s \in alive
  <2>1. ns[s] # Blank
    BY <1>1, BlankIsOrderly
  <2>2. QED
    BY <2>1, Facts
<1>3. \/ /\ ~ Waiting(r)
         /\ Becomes(s, r, FALSE, FALSE) /\ UNCHANGED boundVars
      \/ /\ Waiting(r) /\ ns[s].ask # "refused"
         /\ Becomes(s, [r EXCEPT !.save = [pc |-> "write", snap |-> appended]], FALSE, FALSE)
         /\ UNCHANGED boundVars
      \/ /\ Waiting(r) /\ ns[s].ask = "refused"
         /\ \E crowd \in BOOLEAN :
              Counts(crowd) /\ Becomes(s, SaveEnded(r, FALSE, crowd), crowd, TRUE)
  BY DEF Answered
<1>4. /\ r \in Place /\ r.sockets = ns[s].sockets /\ r.open /\ r.seen = ns[s].seen
      /\ r.doc = ns[s].doc /\ r.timer = ns[s].timer /\ r.save = ns[s].save
      /\ r.cleanup = ns[s].cleanup /\ r.calls = ns[s].calls /\ r.overlooked = ns[s].overlooked
      /\ r.ask = "none"
  BY <1>1, <1>2 DEF Place, Request
<1> HIDE DEF r
<1>5. Orderly(r, appended) /\ \A k \in Update : Watches(ns[s], k) => Watches(r, k)
  BY <1>1, <1>2, <1>4 DEF Orderly, Watches
<1>6. stored' \in stored .. appended
  BY <1>1
<1>7. CASE ~ Waiting(r) /\ Becomes(s, r, FALSE, FALSE) /\ UNCHANGED boundVars
  BY <1>1, <1>2, <1>4, <1>5, <1>6, <1>7, Becoming DEF boundVars
<1>8. CASE /\ Waiting(r) /\ UNCHANGED boundVars
           /\ Becomes(s, [r EXCEPT !.save = [pc |-> "write", snap |-> appended]], FALSE, FALSE)
  <2> DEFINE w == [pc |-> "write", snap |-> appended]
             q == [r EXCEPT !.save = w]
  <2>1. Becomes(s, q, FALSE, FALSE)
    BY <1>8
  <2>2. w \in Save /\ w # None
    BY <1>1, NoneAssumption DEF Save
  <2>3. /\ q \in Place /\ q.open /\ q.timer = r.timer /\ q.save = w
        /\ q.sockets = r.sockets /\ q.seen = r.seen /\ q.doc = r.doc
        /\ q.cleanup = r.cleanup /\ q.calls = r.calls /\ q.overlooked = r.overlooked
        /\ q.ask = "none"
    BY <1>4, <2>2 DEF Place
  <2> HIDE DEF q
  <2>4. Orderly(q, appended)
    BY <1>1, <1>4, <1>5, <1>8, <2>2, <2>3 DEF Orderly, Waiting
  <2>5. \A k \in Update : k <= appended => Watches(q, k)
    BY <2>2, <2>3 DEF Watches
  <2>6. QED
    BY <1>1, <1>2, <1>6, <1>8, <2>1, <2>3, <2>4, <2>5, Becoming DEF boundVars
<1>9. CASE /\ Waiting(r) /\ ns[s].ask = "refused"
           /\ \E crowd \in BOOLEAN :
                Counts(crowd) /\ Becomes(s, SaveEnded(r, FALSE, crowd), crowd, TRUE)
  <2>1. PICK crowd \in BOOLEAN :
          Counts(crowd) /\ Becomes(s, SaveEnded(r, FALSE, crowd), crowd, TRUE)
    BY <1>9
  <2> DEFINE q == SaveEnded(r, FALSE, crowd)
  <2>2. /\ q \in Place /\ Orderly(q, appended) /\ q.ask # "refused"
        /\ q.open => q.doc # None
        /\ q.save # None => q.save.pc = "acquire"
    BY <1>1, <1>4, <1>5, <1>9, Ending DEF Waiting
  <2>3. Becomes(s, q, crowd, TRUE)
    BY <2>1
  <2> HIDE DEF q
  <2>4. faults' \in 0 .. MaxFaults /\ connects' \in 0 .. MaxConnects
    BY <1>1, <2>1, Counting
  <2>5. Holder # s
    BY <1>9 DEF IInv
  <2>6. ASSUME NEW k \in Update, Holder \in {s, None},
               ~ (TRUE /\ Holder = None /\ q.sockets = 0 /\ q.save = None)
        PROVE  q.open /\ Watches(q, k)
    <3>1. q.sockets # 0 \/ q.save # None
      BY <2>5, <2>6
    <3>2. q.open /\ q.sockets \in Nat
      BY <2>2, <3>1, BlankIsOrderly DEF Orderly, Place
    <3>3. CASE q.save # None
      BY <2>2, <3>2, <3>3 DEF Watches
    <3>4. CASE q.sockets # 0
      BY <2>2, <3>2, <3>4 DEF Watches
    <3>5. QED
      BY <3>1, <3>2, <3>3, <3>4
  <2>7. QED
    BY <1>1, <1>2, <1>6, <2>2, <2>3, <2>4, <2>6, Becoming
<1>10. QED
  BY <1>3, <1>7, <1>8, <1>9

LEMMA RequestFailsStep == ASSUME IInv, NEW s \in Server, RequestFails(s) PROVE IInv'
<1> DEFINE r == [ns[s] EXCEPT !.ask = "none"]
           q == IF Waiting(r) THEN SaveEnded(r, TRUE, FALSE) ELSE r
<1>1. /\ ns[s].ask # "none" /\ Fault /\ ns' = [ns EXCEPT ![s] = q]
      /\ \/ ns[s].ask = "sent" /\ lease = None /\ lease' = s /\ left' = TRUE /\ UNCHANGED excused
         \/ ns[s].ask = "won" /\ Holder = s /\ UNCHANGED lease /\ left' = TRUE /\ excused' = appended
         \/ UNCHANGED <<leaseVars, excused>>
      /\ UNCHANGED <<appended, stored, alive>>
  BY DEF RequestFails, redisVars
<1>2. /\ ns[s] \in Place /\ Orderly(ns[s], appended)
      /\ appended \in Nat /\ lease \in Server \cup {None} /\ left \in BOOLEAN
      /\ (left => lease # None) /\ None \notin Server
      /\ faults \in 0 .. MaxFaults /\ connects \in 0 .. MaxConnects
  BY Facts, NamespaceAssumption
<1>3. ns[s].open /\ s \in alive
  <2>1. ns[s] # Blank
    BY <1>1, BlankIsOrderly
  <2>2. QED
    BY <2>1, Facts
<1>4. /\ r \in Place /\ r.sockets = ns[s].sockets /\ r.open /\ r.seen = ns[s].seen
      /\ r.doc = ns[s].doc /\ r.timer = ns[s].timer /\ r.save = ns[s].save
      /\ r.cleanup = ns[s].cleanup /\ r.calls = ns[s].calls /\ r.overlooked = ns[s].overlooked
      /\ r.ask = "none"
  BY <1>2, <1>3 DEF Place, Request
<1> HIDE DEF r
<1>5. Orderly(r, appended) /\ \A k \in Update : Watches(ns[s], k) => Watches(r, k)
  BY <1>2, <1>3, <1>4 DEF Orderly, Watches
<1>6. /\ q \in Place /\ Orderly(q, appended) /\ q.open /\ q.ask # "refused"
      /\ \A k \in Update : Watches(r, k) => Watches(q, k)
  <2>1. CASE Waiting(r)
    <3>1. \A k : Remains(r, TRUE, k)
      BY DEF Remains
    <3>2. r.save # None /\ q = SaveEnded(r, TRUE, FALSE)
      BY <2>1 DEF Waiting
    <3> HIDE DEF q
    <3>3. QED
      BY <1>2, <1>4, <1>5, <3>1, <3>2, Ending
  <2>2. CASE ~ Waiting(r)
    BY <1>4, <1>5, <2>2
  <2>3. QED
    BY <2>1, <2>2
<1> HIDE DEF q
<1>7. faults' \in 0 .. MaxFaults /\ connects' \in 0 .. MaxConnects
  BY <1>1, <1>2, Counting
<1>8. /\ lease' \in Server \cup {None} /\ left' \in BOOLEAN /\ (left' => lease' # None)
      /\ excused' \in {excused, appended}
      /\ \/ Holder' = Holder
         \/ Holder' = None /\ excused' = appended
  <2>1. CASE lease = None /\ lease' = s /\ left' = TRUE /\ UNCHANGED excused
    BY <1>2, <2>1, Holding DEF Holder
  <2>2. CASE UNCHANGED lease /\ left' = TRUE /\ excused' = appended /\ Holder = s
    BY <1>2, <2>2, Holding DEF Holder
  <2>3. CASE UNCHANGED <<leaseVars, excused>>
    BY <1>2, <2>3, Untouched DEF leaseVars
  <2>4. QED
    BY <1>1, <2>1, <2>2, <2>3
<1>9. QED
  BY <1>1, <1>3, <1>5, <1>6, <1>7, <1>8, Continuing

LEMMA ReleaseStep == ASSUME IInv, Release PROVE IInv'
<1>1. /\ left /\ lease' = None /\ left' = FALSE
      /\ UNCHANGED <<appended, stored, alive, ns, faults, connects, excused>>
  BY DEF Release, redisVars, boundVars
<1>2. Holder' = Holder /\ Holder = None
  BY <1>1, Holding DEF Holder
<1>3. TypeOK'
  BY <1>1 DEF IInv, TypeOK
<1>4. UnsavedIsWatched'
  <2>1. UnsavedIsWatched
    BY DEF IInv
  <2>2. QED
    BY <1>1, <1>2, <2>1 DEF UnsavedIsWatched, Watches
<1>5. QED
  BY <1>1, <1>2, <1>3, <1>4 DEF IInv, Orderly

LEMMA ExpireStep == ASSUME IInv, Expire PROVE IInv'
<1>1. /\ Holder # None /\ lease' = None /\ excused' = appended
      /\ UNCHANGED <<appended, stored, left, alive, ns, faults, connects>>
  BY DEF Expire, redisVars, boundVars
<1>2. TypeOK /\ None \notin Server /\ ~ left
  BY <1>1, NamespaceAssumption DEF IInv, Holder
<1>3. Holder' = None
  BY <1>1, Holding
<1>4. TypeOK'
  BY <1>1, <1>2 DEF TypeOK
<1>5. UnsavedIsWatched'
  BY <1>1, <1>2 DEF UnsavedIsWatched, TypeOK, Update, Position
<1>6. QED
  BY <1>1, <1>2, <1>3, <1>4, <1>5 DEF IInv, Orderly

LEMMA StopStep == ASSUME IInv, NEW s \in Server, Stop(s) PROVE IInv'
<1>1. /\ s \in alive /\ Fault /\ alive' = alive \ {s} /\ ns' = [ns EXCEPT ![s] = Blank]
      /\ stored' = stored \/ (ns[s].save # None /\ TakesEffect(ns[s].save))
      /\ \/ UNCHANGED lease /\ left' = (left \/ lease = s)
         \/ lease = None /\ lease' = s /\ left' = TRUE
      /\ excused' = appended /\ UNCHANGED appended
  BY DEF Stop
<1>2. /\ TypeOK /\ None \notin Server /\ alive \subseteq Server /\ ns \in [Server -> Place]
      /\ appended \in Nat /\ appended \in Position /\ stored \in 0 .. appended
      /\ ns[s] \in Place /\ Orderly(ns[s], appended)
      /\ lease \in Server \cup {None} /\ left \in BOOLEAN /\ (left => lease # None)
  BY Facts, NamespaceAssumption DEF IInv, TypeOK, Place
<1>3. stored' \in 0 .. appended
  <2>1. CASE stored' = stored
    BY <1>2, <2>1
  <2>2. CASE ns[s].save # None /\ TakesEffect(ns[s].save)
    <3>1. ns[s].save \in Save /\ ns[s].save.snap <= appended
      BY <1>2, <2>2 DEF Place, Orderly
    <3>2. QED
      BY <1>2, <2>2, <3>1, Storing
  <2>3. QED
    BY <1>1, <2>1, <2>2
<1>4. ns' \in [Server -> Place] /\ ns'[s] = Blank /\ \A t \in Server \ {s} : ns'[t] = ns[t]
  BY <1>1, <1>2, BlankIsOrderly
<1>5. /\ lease' \in Server \cup {None} /\ left' \in BOOLEAN /\ (left' => lease' # None)
      /\ Holder' = None \/ (Holder' = Holder /\ Holder # s)
  <2>1. CASE UNCHANGED lease /\ left' = (left \/ lease = s)
    BY <1>1, <1>2, <2>1, Holding DEF Holder
  <2>2. CASE lease = None /\ lease' = s /\ left' = TRUE
    BY <1>1, <1>2, <2>2, Holding
  <2>3. QED
    BY <1>1, <2>1, <2>2
<1>6. TypeOK'
  <2>1. faults' \in 0 .. MaxFaults /\ connects' \in 0 .. MaxConnects
    BY <1>1, Facts, Counting
  <2>2. alive' \in SUBSET Server
    BY <1>1, <1>2
  <2>3. QED
    BY <1>1, <1>2, <1>3, <1>4, <1>5, <2>1, <2>2 DEF TypeOK, Place
<1>7. UnsavedIsWatched'
  BY <1>1, <1>2, NamespaceAssumption DEF UnsavedIsWatched, Update
<1>8. \A t \in Server : Orderly(ns'[t], appended')
  BY <1>1, <1>2, <1>4, BlankIsOrderly DEF IInv
<1>9. \A t \in Server \ alive' : ~ ns'[t].open
  BY <1>1, <1>2, <1>4, BlankIsOrderly DEF IInv
<1>10. Holder' # None => ns'[Holder'].open
  BY <1>2, <1>4, <1>5 DEF IInv, Holder
<1>11. \A t \in Server : ns'[t].ask = "refused" => Holder' # t
  BY <1>2, <1>4, <1>5, BlankIsOrderly DEF IInv
<1>12. QED
  BY <1>6, <1>7, <1>8, <1>9, <1>10, <1>11 DEF IInv

LEMMA NextIInv == IInv /\ [Next]_vars => IInv'
<1> SUFFICES ASSUME IInv, [Next]_vars PROVE IInv'
  OBVIOUS
<1>1. CASE UNCHANGED vars
  BY <1>1 DEF vars, IInv, TypeOK, Orderly, UnsavedIsWatched, Watches, Holder
<1>2. CASE Next
  <2>1. ASSUME NEW s \in Server,
               \/ Connect(s) \/ Disconnect(s) \/ Append(s)
               \/ Progress(s) \/ SaveFails(s) \/ RequestFails(s) \/ Stop(s)
        PROVE  IInv'
    BY <2>1, ConnectStep, DisconnectStep, AppendStep, DeliverStep, CallReturnsStep,
       PersistTimerStep, CleanupTimerStep, ExecuteStep, AnsweredStep, WriteStep,
       SaveFailsStep, RequestFailsStep, StopStep DEF Progress
  <2>2. QED
    BY <1>2, <2>1, ReleaseStep, ExpireStep DEF Next
<1>3. QED
  BY <1>1, <1>2

LEMMA Invariance == Spec => []IInv
BY InitIInv, NextIInv, PTL DEF Spec

-----------------------------------------------------------------------------
(* The theorems.                                                           *)

\* The types of the namespaces on all servers, of Redis and of the bounds.
THEOREM Types == Spec => []TypeOK
BY Invariance, PTL DEF IInv

\* A server may drop its save because it is refused the lease (y-socket-io.js:591),
\* if a server stands behind the lease when the refusal comes, however old it is:
\* what is not saved is before that server, for any number of servers, sockets,
\* updates and faults, with the release of a closed namespace in flight
\* (y-socket-io.js:839) and leases that run out.  If none does, a server with
\* users still watches, and what one without drops is excused and nothing else.
THEOREM NobodyIsRelyingInVain == Spec => []UnsavedIsWatched
BY Invariance, PTL DEF IInv

\* A namespace without users has a cleanup timer, or a socket that was turned
\* away has been taken for a user (y-socket-io.js:806).
THEOREM Cleaning == Spec => []IdleIsCleanedUp
<1>1. IInv => IdleIsCleanedUp
  BY DEF IInv, Orderly, IdleIsCleanedUp
<1>2. QED
  BY <1>1, Invariance, PTL

\* A closed namespace has no document, timer, save, request or getDoc left, and if
\* the key still has its token, that is about to be deleted or to run out
\* (y-socket-io.js:824-840).
THEOREM Closing == Spec => []NothingLeftBehind
<1>1. IInv => NothingLeftBehind
  BY NamespaceAssumption DEF IInv, TypeOK, Orderly, NothingLeftBehind
<1>2. QED
  BY <1>1, Invariance, PTL
=============================================================================
