-------------------------- MODULE MessagePath_proofs --------------------------
(***************************************************************************)
(* Merging loses no change and no presence: proof of MessagePath's         *)
(* invariants for any changes and clients, any COUNT, any number of        *)
(* messages and of awareness states.                                       *)
(*                                                                         *)
(* The observer is compared with what the messages say one by one, up to   *)
(* where the subscriber has read.  On the changes the two agree.  On       *)
(* awareness they need not: that a client has left may be lost.  But the   *)
(* observer is never ahead, and agrees on every client that is there; that *)
(* is inductive, as a state replaces another only with a higher clock.     *)
(*                                                                         *)
(* A batch is merged by a loop over its messages, so the proof begins with *)
(* an induction: that the function ApplyMessages describes exists, and     *)
(* what it does with one message more.                                     *)
(***************************************************************************)
EXTENDS MessagePath, SequenceTheorems, WellFoundedInduction, TLAPS

Messages == Updates \cup Awareness
Awarenesses == [Peer -> [clock : 0..MaxClock, there : BOOLEAN]]

\* In the stream an awareness message tells of one client.
Told(m) == m \in Awareness => \E s \in States : s.client \in Client /\ m.payload = {s}

\* What the messages say one by one, up to the n-th.
DirectUpTo(n) == ApplyMessages(Nobody, SubSeq(stream, 1, n))

\* What an observer knows against what it would know from the messages.
Behind(known, direct) ==
    \A c \in Client :
        /\ known[c].clock <= direct[c].clock
        /\ direct[c].there => known[c] = direct[c]

ObserverAgrees ==
    /\ doc = Changes(SubSeq(stream, 1, read))
    /\ Behind(aware, DirectUpTo(read))

IInv ==
    /\ TypeOK
    /\ \A i \in DOMAIN stream : Told(stream[i])
    /\ sent = Changes(stream)
    /\ ObserverAgrees

-----------------------------------------------------------------------------
(* A loop over a sequence.                                                 *)

\* A set of naturals that is not empty has a least.
LEMMA LeastExists ==
    ASSUME NEW T \in SUBSET Nat, T # {}
    PROVE  \E n \in T : \A m \in T : n <= m
<1>1. PICK x \in T : \A y \in T : <<y, x>> \notin OpToRel(<, Nat)
  BY NatLessThanWellFounded, WFMin
<1>2. OpToRel(<, Nat) = {ss \in Nat \X Nat : ss[1] < ss[2]}
  BY DEF OpToRel
<1>3. \A y \in T : x <= y
  <2>1. SUFFICES ASSUME NEW y \in T, y < x PROVE FALSE
    OBVIOUS
  <2>2. <<y, x>> \in Nat \X Nat /\ <<y, x>>[1] < <<y, x>>[2]
    BY <2>1
  <2>3. QED
    BY <1>1, <1>2, <2>2
<1>4. QED
  BY <1>3

\* f is what the loop of ApplyMessages computes, up to the n-th message.
Loops(f, n, aw, ms) ==
    f = [i \in 0..n |-> IF i = 0 THEN aw ELSE ApplyMessage(f[i - 1], ms[i])]

LEMMA LoopsStep ==
    ASSUME NEW f, NEW n \in Nat, NEW aw, NEW ms, Loops(f, n, aw, ms)
    PROVE  f[0] = aw /\ \A i \in 1..n : f[i] = ApplyMessage(f[i - 1], ms[i])
<1>1. f = [i \in 0..n |-> IF i = 0 THEN aw ELSE ApplyMessage(f[i - 1], ms[i])]
  BY DEF Loops
<1>2. QED
  BY <1>1

LEMMA LoopsLast ==
    ASSUME NEW f, NEW n \in Nat, n # 0, NEW aw, NEW ms, Loops(f, n, aw, ms)
    PROVE  f[n] = ApplyMessage(f[n - 1], ms[n])
<1>1. n \in 1..n
  OBVIOUS
<1>2. QED
  BY <1>1, LoopsStep

\* There is one such function,
LEMMA LoopExists ==
    ASSUME NEW aw, NEW ms, NEW n \in Nat
    PROVE  \E f : Loops(f, n, aw, ms)
<1> DEFINE T == {k \in Nat : ~ \E f : Loops(f, k, aw, ms)}
<1>1. SUFFICES ASSUME T # {} PROVE FALSE
  OBVIOUS
<1>2. PICK k \in T : \A j \in T : k <= j
  <2>1. T \in SUBSET Nat
    OBVIOUS
  <2> HIDE DEF T
  <2>2. QED
    BY <1>1, <2>1, LeastExists
<1>3. k \in Nat /\ ~ \E f : Loops(f, k, aw, ms)
  OBVIOUS
<1>4. CASE k = 0
  <2> DEFINE f == [i \in 0..0 |-> aw]
  <2>1. [i \in 0..0 |-> aw] =
          [i \in 0..0 |-> IF i = 0 THEN aw ELSE ApplyMessage(f[i - 1], ms[i])]
    OBVIOUS
  <2>2. Loops(f, 0, aw, ms)
    BY <2>1 DEF Loops
  <2> HIDE DEF f
  <2>3. QED
    BY <1>3, <1>4, <2>2
<1>5. CASE k # 0
  <2>1. k - 1 \in Nat /\ k - 1 \notin T
    BY <1>2, <1>5
  <2>2. PICK g : Loops(g, k - 1, aw, ms)
    BY <2>1
  <2>3. /\ g[0] = aw
        /\ \A i \in 1..(k - 1) : g[i] = ApplyMessage(g[i - 1], ms[i])
    BY <2>1, <2>2, LoopsStep
  <2> DEFINE f == [i \in 0..k |-> IF i = k THEN ApplyMessage(g[k - 1], ms[k]) ELSE g[i]]
             Body(i) == IF i = 0 THEN aw ELSE ApplyMessage(f[i - 1], ms[i])
  <2>4. f[k] = ApplyMessage(g[k - 1], ms[k]) /\ \A i \in 0..(k - 1) : f[i] = g[i]
    BY <1>3
  <2>11. f = [i \in 0..k |-> f[i]]
    OBVIOUS
  <2> HIDE DEF f
  <2>5. f[0] = aw
    BY <1>3, <1>5, <2>3, <2>4
  <2>6. \A i \in 1..k : f[i] = ApplyMessage(f[i - 1], ms[i])
    <3> SUFFICES ASSUME NEW i \in 1..k PROVE f[i] = ApplyMessage(f[i - 1], ms[i])
      OBVIOUS
    <3>1. i - 1 \in 0..(k - 1) /\ f[i - 1] = g[i - 1]
      BY <1>3, <2>4
    <3>2. CASE i = k
      BY <3>1, <3>2, <2>4
    <3>3. CASE i # k
      BY <1>3, <3>1, <3>3, <2>3, <2>4
    <3>4. QED
      BY <3>2, <3>3
  <2>7. \A i \in 0..k : f[i] = Body(i)
    BY <1>3, <2>5, <2>6
  <2>8. [i \in 0..k |-> f[i]] = [i \in 0..k |-> Body(i)]
    BY <2>7, Zenon
  <2>9. Loops(f, k, aw, ms)
    BY <2>11, <2>8 DEF Loops
  <2>10. QED
    BY <1>3, <2>9
<1>6. QED
  BY <1>4, <1>5

\* and what it says of a message does not depend on the messages after it.
LEMMA LoopUnique ==
    ASSUME NEW aw, NEW ms, NEW ns, NEW m \in Nat, NEW n \in Nat, n <= m,
           \A i \in 1..n : ms[i] = ns[i],
           NEW f, Loops(f, m, aw, ms), NEW g, Loops(g, n, aw, ns)
    PROVE  \A i \in 0..n : f[i] = g[i]
<1> DEFINE T == {i \in 0..n : f[i] # g[i]}
<1>1. SUFFICES ASSUME T # {} PROVE FALSE
  OBVIOUS
<1>2. PICK k \in T : \A j \in T : k <= j
  <2>1. T \in SUBSET Nat
    OBVIOUS
  <2> HIDE DEF T
  <2>2. QED
    BY <1>1, <2>1, LeastExists
<1>3. f[0] = aw /\ \A i \in 1..m : f[i] = ApplyMessage(f[i - 1], ms[i])
  BY LoopsStep
<1>4. g[0] = aw /\ \A i \in 1..n : g[i] = ApplyMessage(g[i - 1], ns[i])
  BY LoopsStep
<1>5. CASE k = 0
  BY <1>3, <1>4, <1>5
<1>6. CASE k # 0
  <2>1. k \in 1..n /\ k \in 1..m /\ k - 1 \in 0..n /\ k - 1 \notin T
    BY <1>2, <1>6
  <2>2. f[k - 1] = g[k - 1]
    BY <2>1
  <2>3. QED
    BY <1>3, <1>4, <2>1, <2>2
<1>7. QED
  BY <1>5, <1>6

LEMMA LoopComputes ==
    ASSUME NEW aw, NEW ms, Len(ms) \in Nat
    PROVE  \E f : Loops(f, Len(ms), aw, ms) /\ ApplyMessages(aw, ms) = f[Len(ms)]
<1> DEFINE known == CHOOSE f : Loops(f, Len(ms), aw, ms)
<1>1. Loops(known, Len(ms), aw, ms)
  BY LoopExists
<1>2. ApplyMessages(aw, ms) = known[Len(ms)]
  BY DEF ApplyMessages, Loops
<1> HIDE DEF known
<1>3. QED
  BY <1>1, <1>2

\* Nothing changes without a message, and of several the last comes last.
LEMMA Applying ==
    ASSUME NEW aw, NEW ms \in Seq(Messages)
    PROVE  /\ ms = <<>> => ApplyMessages(aw, ms) = aw
           /\ \A n \in 1..Len(ms) :
                ApplyMessages(aw, SubSeq(ms, 1, n)) =
                  ApplyMessage(ApplyMessages(aw, SubSeq(ms, 1, n - 1)), ms[n])
<1>1. ASSUME ms = <<>> PROVE ApplyMessages(aw, ms) = aw
  <2>1. Len(ms) = 0
    BY <1>1
  <2>2. PICK f : Loops(f, 0, aw, ms) /\ ApplyMessages(aw, ms) = f[0]
    BY <2>1, LoopComputes
  <2>3. QED
    BY <2>2, LoopsStep
<1>2. ASSUME NEW n \in 1..Len(ms)
      PROVE  ApplyMessages(aw, SubSeq(ms, 1, n)) =
               ApplyMessage(ApplyMessages(aw, SubSeq(ms, 1, n - 1)), ms[n])
  <2> DEFINE long == SubSeq(ms, 1, n)
             short == SubSeq(ms, 1, n - 1)
  <2>1. /\ n \in Nat /\ n - 1 \in Nat /\ Len(ms) \in Nat
        /\ Len(long) = n /\ Len(short) = n - 1
        /\ \A i \in 1..n : long[i] = ms[i]
        /\ \A i \in 1..(n - 1) : short[i] = ms[i]
    BY LenProperties, SubSeqProperties
  <2> HIDE DEF long, short
  <2>2. PICK f : Loops(f, n, aw, long) /\ ApplyMessages(aw, long) = f[n]
    BY <2>1, LoopComputes
  <2>3. PICK g : Loops(g, n - 1, aw, short) /\ ApplyMessages(aw, short) = g[n - 1]
    BY <2>1, LoopComputes
  <2>4. f[n - 1] = g[n - 1]
    <3>1. \A i \in 1..(n - 1) : long[i] = short[i]
      BY <2>1
    <3>2. \A i \in 0..(n - 1) : f[i] = g[i]
      BY SMTT(30), <2>1, <2>2, <2>3, <3>1, LoopUnique
    <3>3. QED
      BY <2>1, <3>2
  <2>5. f[n] = ApplyMessage(f[n - 1], long[n])
    <3>1. n \in Nat /\ n # 0 /\ Loops(f, n, aw, long)
      BY <2>1, <2>2
    <3>2. QED
      BY <3>1, LoopsLast
  <2>6. QED
    BY <2>1, <2>2, <2>3, <2>4, <2>5 DEF long, short
<1>3. QED
  BY <1>1, <1>2

LEMMA ApplyingFew ==
    ASSUME NEW aw, NEW m \in Messages, NEW n \in Messages
    PROVE  /\ ApplyMessages(aw, <<>>) = aw
           /\ ApplyMessages(aw, <<m>>) = ApplyMessage(aw, m)
           /\ ApplyMessages(aw, <<m, n>>) = ApplyMessage(ApplyMessage(aw, m), n)
<1>1. <<>> \in Seq(Messages) /\ <<m>> \in Seq(Messages) /\ <<m, n>> \in Seq(Messages)
  OBVIOUS
<1>2. ApplyMessages(aw, <<>>) = aw
  BY <1>1, Applying
<1>3. ApplyMessages(aw, <<m>>) = ApplyMessage(aw, m)
  <2>1. SubSeq(<<m>>, 1, 1) = <<m>> /\ SubSeq(<<m>>, 1, 1 - 1) = <<>>
    <3>1. Len(<<m>>) = 1
      OBVIOUS
    <3>2. SubSeq(<<m>>, 1, Len(<<m>>)) = <<m>>
      BY <1>1, SubSeqFull
    <3>3. QED
      BY <3>1, <3>2, SubSeqEmpty
  <2>2. 1 \in 1..Len(<<m>>) /\ <<m>>[1] = m
    OBVIOUS
  <2>3. ApplyMessages(aw, SubSeq(<<m>>, 1, 1)) =
          ApplyMessage(ApplyMessages(aw, SubSeq(<<m>>, 1, 1 - 1)), <<m>>[1])
    BY <1>1, <2>2, Applying
  <2>4. QED
    BY <1>2, <2>1, <2>2, <2>3
<1>4. ApplyMessages(aw, <<m, n>>) = ApplyMessage(ApplyMessage(aw, m), n)
  <2>1. SubSeq(<<m, n>>, 1, 2) = <<m, n>> /\ SubSeq(<<m, n>>, 1, 2 - 1) = <<m>>
    <3>1. Len(<<m, n>>) = 2 /\ Len(<<m>>) = 1 /\ <<m>>[1] = m /\ <<m, n>>[1] = m
      OBVIOUS
    <3>2. SubSeq(<<m, n>>, 1, Len(<<m, n>>)) = <<m, n>>
      BY <1>1, SubSeqFull
    <3> DEFINE first == SubSeq(<<m, n>>, 1, 1)
    <3>3. \A i \in 1..1 : <<m, n>>[i] \in Messages
      BY <3>1
    <3>4. /\ first \in Seq(Messages)
          /\ Len(first) = (IF 1 <= 1 THEN 1 - 1 + 1 ELSE 0)
          /\ \A i \in 1..(1 - 1 + 1) : first[i] = <<m, n>>[1 + i - 1]
      BY <3>3, SubSeqProperties
    <3> HIDE DEF first
    <3>5. Len(first) = Len(<<m>>) /\ \A i \in 1..Len(first) : first[i] = <<m>>[i]
      BY <3>1, <3>4
    <3>6. first = <<m>>
      BY <1>1, <3>4, <3>5, SeqEqual
    <3>7. QED
      BY <3>1, <3>2, <3>6 DEF first
  <2>2. 2 \in 1..Len(<<m, n>>) /\ <<m, n>>[2] = n
    OBVIOUS
  <2>3. ApplyMessages(aw, SubSeq(<<m, n>>, 1, 2)) =
          ApplyMessage(ApplyMessages(aw, SubSeq(<<m, n>>, 1, 2 - 1)), <<m, n>>[2])
    BY <1>1, <2>2, Applying
  <2>4. QED
    BY <1>3, <2>1, <2>2, <2>3
<1>5. QED
  BY <1>2, <1>3, <1>4

-----------------------------------------------------------------------------
(* Awareness.                                                              *)

\* A message that tells of each client once.
LEMMA Superseding ==
    ASSUME NEW aw \in Awarenesses, NEW states \in SUBSET States,
           \A s, t \in states : s.client = t.client => s = t
    PROVE  LET new == ApplyAwareness(aw, states) IN
           \A p \in Peer :
             /\ \A s \in states : s.client = p /\ Supersedes(s, aw[p])
                  => new[p] = [clock |-> s.clock, there |-> ~s.gone]
             /\ (\A s \in states : s.client = p => ~Supersedes(s, aw[p]))
                  => new[p] = aw[p]
<1> SUFFICES ASSUME NEW p \in Peer
             PROVE  LET new == ApplyAwareness(aw, states) IN
                    /\ \A s \in states : s.client = p /\ Supersedes(s, aw[p])
                         => new[p] = [clock |-> s.clock, there |-> ~s.gone]
                    /\ (\A s \in states : s.client = p => ~Supersedes(s, aw[p]))
                         => new[p] = aw[p]
  OBVIOUS
<1> DEFINE S == {s \in states : s.client = p /\ Supersedes(s, aw[p])}
           Shown(s) == [clock |-> s.clock, there |-> ~s.gone]
<1>1. ApplyAwareness(aw, states)[p] =
        IF S = {} THEN aw[p] ELSE Shown(CHOOSE s \in S : TRUE)
  BY DEF ApplyAwareness
<1>2. ASSUME NEW s \in states, s.client = p, Supersedes(s, aw[p])
      PROVE  ApplyAwareness(aw, states)[p] = Shown(s)
  <2>1. s \in S /\ \A t \in S : t = s
    BY <1>2
  <2>2. (CHOOSE t \in S : TRUE) = s
    BY <2>1
  <2>3. S # {}
    BY <2>1
  <2> HIDE DEF S, Shown
  <2>4. QED
    BY <1>1, <2>2, <2>3
<1>3. ASSUME \A s \in states : s.client = p => ~Supersedes(s, aw[p])
      PROVE  ApplyAwareness(aw, states)[p] = aw[p]
  <2>1. S = {}
    BY <1>3
  <2> HIDE DEF S, Shown
  <2>2. QED
    BY <1>1, <2>1
<1>4. QED
  BY <1>2, <1>3

\* Whatever it tells, awareness stays awareness.
LEMMA AwarenessTyped ==
    ASSUME NEW aw \in Awarenesses, NEW m \in Messages
    PROVE  ApplyMessage(aw, m) \in Awarenesses
<1>1. CASE m.type # "awareness-update"
  BY <1>1 DEF ApplyMessage
<1>2. CASE m.type = "awareness-update"
  <2>1. m.payload \in SUBSET States
    BY <1>2 DEF Messages, Updates, Awareness
  <2>2. \A p \in Peer : LET S == {s \in m.payload : s.client = p /\ Supersedes(s, aw[p])}
                        IN  (IF S = {} THEN aw[p]
                             ELSE LET s == CHOOSE s \in S : TRUE
                                  IN  [clock |-> s.clock, there |-> ~s.gone])
                            \in [clock : 0..MaxClock, there : BOOLEAN]
    <3> TAKE p \in Peer
    <3> DEFINE S == {s \in m.payload : s.client = p /\ Supersedes(s, aw[p])}
    <3>1. aw[p] \in [clock : 0..MaxClock, there : BOOLEAN]
      BY DEF Awarenesses
    <3>2. \A s \in States : [clock |-> s.clock, there |-> ~s.gone]
                              \in [clock : 0..MaxClock, there : BOOLEAN]
      BY DEF States
    <3>3. S \in SUBSET States
      BY <2>1
    <3> HIDE DEF S
    <3>4. S # {} => (CHOOSE s \in S : TRUE) \in States
      BY <3>3
    <3>5. QED
      BY <3>1, <3>2, <3>4 DEF S
  <2>3. QED
    BY <1>2, <2>2 DEF ApplyMessage, ApplyAwareness, Awarenesses
<1>3. QED
  BY <1>1, <1>2

LEMMA BeginningsTyped ==
    Nobody \in Awarenesses /\ NewAwareness \in Awarenesses
<1>1. Nobody \in Awarenesses
  BY MessagePathAssumption DEF Nobody, Awarenesses
<1>2. [Nobody[Phantom] EXCEPT !.there = TRUE] \in [clock : 0..MaxClock, there : BOOLEAN]
  BY <1>1 DEF Awarenesses, Peer
<1>3. NewAwareness = [Nobody EXCEPT ![Phantom] = [@ EXCEPT !.there = TRUE]]
  BY DEF NewAwareness
<1>4. QED
  BY <1>1, <1>2, <1>3 DEF Awarenesses

LEMMA AppliedTyped ==
    ASSUME NEW aw \in Awarenesses, NEW ms \in Seq(Messages), NEW n \in 0..Len(ms)
    PROVE  ApplyMessages(aw, SubSeq(ms, 1, n)) \in Awarenesses
<1> DEFINE P(k) == ApplyMessages(aw, SubSeq(ms, 1, k))
           T == {k \in 0..Len(ms) : P(k) \notin Awarenesses}
<1>1. SUFFICES ASSUME T # {} PROVE FALSE
  OBVIOUS
<1>2. Len(ms) \in Nat /\ \A i \in 1..Len(ms) : ms[i] \in Messages
  BY LenProperties, ElementOfSeq
<1>3. PICK k \in T : \A j \in T : k <= j
  <2>1. T \in SUBSET Nat
    BY <1>2
  <2> HIDE DEF T
  <2>2. QED
    BY <1>1, <2>1, LeastExists
<1>4. k \in 0..Len(ms) /\ P(k) \notin Awarenesses
  OBVIOUS
<1>5. CASE k = 0
  <2>1. SubSeq(ms, 1, 0) = <<>>
    BY SubSeqEmpty
  <2>2. P(0) = aw
    BY <2>1, Applying, EmptySeq
  <2> HIDE DEF P
  <2>3. QED
    BY <1>4, <1>5, <2>2
<1>6. CASE k # 0
  <2>1. k \in 1..Len(ms) /\ k - 1 \in 0..Len(ms) /\ k - 1 \notin T
    BY <1>2, <1>3, <1>4, <1>6
  <2>2. P(k - 1) \in Awarenesses
    BY <2>1
  <2>3. P(k) = ApplyMessage(P(k - 1), ms[k])
    BY ZenonT(30), <2>1, Applying
  <2> HIDE DEF P
  <2>4. QED
    BY <1>2, <1>4, <2>1, <2>2, <2>3, AwarenessTyped
<1>7. QED
  BY <1>5, <1>6

\* An observer, and one that takes each message by itself, take one message.
LEMMA OneMessage ==
    ASSUME NEW known \in Awarenesses, NEW direct \in Awarenesses,
           NEW m \in Messages, Told(m), NEW c \in Client
    PROVE  LET k == ApplyMessage(known, m)[c]
               d == ApplyMessage(direct, m)[c]
           IN  /\ direct[c].clock <= d.clock
               /\ d.clock = direct[c].clock /\ d.there => d = direct[c]
               /\ known[c] = direct[c] => k = d
               /\ known[c].clock <= direct[c].clock =>
                    k.clock <= d.clock /\ (direct[c].clock < d.clock => k = d)
<1> DEFINE k == ApplyMessage(known, m)[c]
           d == ApplyMessage(direct, m)[c]
<1>1. /\ c \in Peer /\ MaxClock \in Nat
      /\ known[c] \in [clock : 0..MaxClock, there : BOOLEAN]
      /\ direct[c] \in [clock : 0..MaxClock, there : BOOLEAN]
  BY MessagePathAssumption DEF Peer, Awarenesses
<1>2. CASE m.type # "awareness-update"
  <2>1. k = known[c] /\ d = direct[c]
    BY <1>2 DEF ApplyMessage
  <2> HIDE DEF k, d
  <2>2. QED
    BY <1>1, <2>1 DEF k, d
<1>3. CASE m.type = "awareness-update"
  <2>1. m \in Awareness
    BY <1>3 DEF Messages, Updates
  <2>2. PICK s \in States : s.client \in Client /\ m.payload = {s}
    BY <2>1 DEF Told
  <2>3. s.clock \in 0..MaxClock /\ s.gone \in BOOLEAN
    BY DEF States
  <2>4. k = ApplyAwareness(known, {s})[c] /\ d = ApplyAwareness(direct, {s})[c]
    BY <1>3, <2>2 DEF ApplyMessage
  <2> HIDE DEF k, d
  <2>5. /\ s.client = c /\ Supersedes(s, known[c])
             => k = [clock |-> s.clock, there |-> ~s.gone]
        /\ ~(s.client = c /\ Supersedes(s, known[c])) => k = known[c]
    BY <1>1, <2>4, Superseding
  <2>6. /\ s.client = c /\ Supersedes(s, direct[c])
             => d = [clock |-> s.clock, there |-> ~s.gone]
        /\ ~(s.client = c /\ Supersedes(s, direct[c])) => d = direct[c]
    BY <1>1, <2>4, Superseding
  <2> DEFINE k0 == known[c]
             d0 == direct[c]
             new == [clock |-> s.clock, there |-> ~s.gone]
  <2>7. new.clock = s.clock /\ (new.there <=> ~s.gone)
    OBVIOUS
  <2>8. k0.clock \in Int /\ d0.clock \in Int /\ s.clock \in Int
    BY <1>1, <2>3
  <2> HIDE DEF k0, d0, new
  <2>9. /\ s.client = c /\ Supersedes(s, k0) => k = new
        /\ ~(s.client = c /\ Supersedes(s, k0)) => k = k0
        /\ s.client = c /\ Supersedes(s, d0) => d = new
        /\ ~(s.client = c /\ Supersedes(s, d0)) => d = d0
    BY <2>5, <2>6 DEF k0, d0, new
  <2>10. CASE s.client # c
    <3>1. k = k0 /\ d = d0
      BY <2>9, <2>10
    <3>2. QED
      BY <2>8, <3>1 DEF k, d, k0, d0
  <2>11. CASE s.client = c /\ s.clock > d0.clock
    <3>1. d = new
      BY <2>9, <2>11 DEF Supersedes
    <3>2. k0.clock <= d0.clock \/ k0 = d0 => k = new
      BY <2>8, <2>9, <2>11 DEF Supersedes
    <3>3. QED
      BY <2>7, <2>8, <2>11, <3>1, <3>2 DEF k, d, k0, d0
  <2>12. CASE s.client = c /\ s.clock = d0.clock /\ s.gone /\ d0.there
    <3>1. d = new
      BY <2>9, <2>12 DEF Supersedes
    <3>2. k = k0 \/ k = new
      BY <2>9
    <3>3. k0 = d0 => k = new
      BY <2>9, <2>12 DEF Supersedes
    <3>4. QED
      BY <2>7, <2>8, <2>12, <3>1, <3>2, <3>3 DEF k, d, k0, d0
  <2>13. CASE s.client = c /\ ~Supersedes(s, d0)
    <3>1. d = d0 /\ (k = k0 \/ k = new) /\ (k0 = d0 => k = k0)
      BY <2>9, <2>13
    <3>2. s.clock <= d0.clock
      BY <2>8, <2>13 DEF Supersedes
    <3>3. QED
      BY <2>7, <2>8, <3>1, <3>2 DEF k, d, k0, d0
  <2>14. QED
    BY <2>10, <2>11, <2>12, <2>13 DEF Supersedes
<1>4. QED
  BY <1>2, <1>3

LEMMA OneMessageBehind ==
    ASSUME NEW known \in Awarenesses, NEW direct \in Awarenesses,
           NEW m \in Messages, Told(m), Behind(known, direct)
    PROVE  Behind(ApplyMessage(known, m), ApplyMessage(direct, m))
<1> SUFFICES ASSUME NEW c \in Client
             PROVE  LET k == ApplyMessage(known, m)[c]
                        d == ApplyMessage(direct, m)[c]
                    IN  k.clock <= d.clock /\ (d.there => k = d)
  BY DEF Behind
<1> DEFINE k == ApplyMessage(known, m)[c]
           d == ApplyMessage(direct, m)[c]
<1>1. /\ c \in Peer /\ MaxClock \in Nat
      /\ direct[c] \in [clock : 0..MaxClock, there : BOOLEAN]
      /\ d \in [clock : 0..MaxClock, there : BOOLEAN]
  BY AwarenessTyped, MessagePathAssumption DEF Peer, Awarenesses
<1>2. known[c].clock <= direct[c].clock /\ (direct[c].there => known[c] = direct[c])
  BY DEF Behind
<1>3. /\ direct[c].clock <= d.clock
      /\ d.clock = direct[c].clock /\ d.there => d = direct[c]
      /\ known[c] = direct[c] => k = d
      /\ k.clock <= d.clock /\ (direct[c].clock < d.clock => k = d)
  BY <1>2, OneMessage
<1> HIDE DEF k, d
<1>4. d.there => k = d
  BY <1>1, <1>2, <1>3
<1>5. QED
  BY <1>3, <1>4 DEF k, d

\* A batch, merged from nothing, against the same messages one by one: where
\* they have brought news of a client, the two agree.
LEMMA BatchAgrees ==
    ASSUME NEW ms \in Seq(Messages), \A i \in DOMAIN ms : Told(ms[i]),
           NEW r \in 0..Len(ms), NEW n \in 0..(Len(ms) - r)
    PROVE  LET before == ApplyMessages(Nobody, SubSeq(ms, 1, r))
               after == ApplyMessages(Nobody, SubSeq(ms, 1, r + n))
               merged == ApplyMessages(NewAwareness, SubSeq(ms, r + 1, r + n))
           IN  \A c \in Client :
                 /\ before[c].clock <= after[c].clock
                 /\ after[c].clock = before[c].clock /\ after[c].there
                      => after[c] = before[c]
                 /\ merged[c].clock <= after[c].clock
                 /\ before[c].clock < after[c].clock => merged[c] = after[c]
<1> DEFINE b == SubSeq(ms, r + 1, r + n)
           D(j) == ApplyMessages(Nobody, SubSeq(ms, 1, r + j))
           M(j) == ApplyMessages(NewAwareness, SubSeq(b, 1, j))
           Q(m, d, d0) ==
             /\ d0.clock <= d.clock
             /\ d.clock = d0.clock /\ d.there => d = d0
             /\ m.clock <= d.clock
             /\ d0.clock < d.clock => m = d
           T == {j \in 0..n : ~ \A c \in Client : Q(M(j)[c], D(j)[c], D(0)[c])}
<1>1. /\ Len(ms) \in Nat /\ r \in Nat /\ n \in Nat /\ r + n \in 0..Len(ms)
      /\ DOMAIN ms = 1..Len(ms)
      /\ \A i \in 1..Len(ms) : ms[i] \in Messages /\ Told(ms[i])
  <2>1. Len(ms) \in Nat /\ DOMAIN ms = 1..Len(ms)
    BY LenProperties
  <2>2. \A i \in 1..Len(ms) : ms[i] \in Messages
    BY ElementOfSeq
  <2>3. QED
    BY <2>1, <2>2
<1>2. b \in Seq(Messages) /\ Len(b) = n /\ \A j \in 1..n : b[j] = ms[r + j]
  <2>1. r + 1 \in Int /\ r + n \in Int /\ \A i \in (r + 1)..(r + n) : ms[i] \in Messages
    BY <1>1
  <2>2. /\ b \in Seq(Messages)
        /\ Len(b) = (IF r + 1 <= r + n THEN r + n - (r + 1) + 1 ELSE 0)
        /\ \A j \in 1..(r + n - (r + 1) + 1) : b[j] = ms[r + 1 + j - 1]
    BY <2>1, SubSeqProperties
  <2> HIDE DEF b
  <2>3. Len(b) = n /\ r + n - (r + 1) + 1 = n
    BY <1>1, <2>2
  <2>4. ASSUME NEW j \in 1..n PROVE b[j] = ms[r + j]
    <3>1. r + 1 + j - 1 = r + j
      BY <1>1
    <3>2. QED
      BY <2>2, <2>3, <3>1
  <2>5. QED
    BY <2>2, <2>3, <2>4
<1> HIDE DEF b
<1>3. \A j \in 0..n : M(j) \in Awarenesses /\ D(j) \in Awarenesses
  <2>1. \A j \in 0..n : r + j \in 0..Len(ms) /\ j \in 0..Len(b)
    BY <1>1, <1>2
  <2>2. QED
    BY <1>2, <2>1, AppliedTyped, BeginningsTyped
<1>4. \A j \in 0..n, c \in Client :
        M(j)[c].clock \in Nat /\ D(j)[c].clock \in Nat /\ D(j)[c].there \in BOOLEAN
  <2> HIDE DEF M, D
  <2>1. QED
    BY <1>3, MessagePathAssumption DEF Awarenesses, Peer
<1>5. T = {}
  <2>1. SUFFICES ASSUME T # {} PROVE FALSE
    OBVIOUS
  <2>2. PICK j \in T : \A i \in T : j <= i
    <3>1. T \in SUBSET Nat
      BY <1>1
    <3> HIDE DEF T
    <3>2. QED
      BY <2>1, <3>1, LeastExists
  <2>3. j \in 0..n /\ ~ \A c \in Client : Q(M(j)[c], D(j)[c], D(0)[c])
    OBVIOUS
  <2>4. CASE j = 0
    <3>1. M(0) = NewAwareness
      <4>1. SubSeq(b, 1, 0) = <<>>
        BY SubSeqEmpty
      <4>2. QED
        BY <4>1, Applying, EmptySeq
    <3>2. \A c \in Client : NewAwareness[c] = [clock |-> 0, there |-> FALSE]
      BY MessagePathAssumption DEF NewAwareness, Nobody, Peer
    <3>3. \A c \in Client : M(0)[c].clock = 0
      BY <3>1, <3>2
    <3>4. 0 \in 0..n
      BY <1>1
    <3> HIDE DEF M, D
    <3>5. \A c \in Client : Q(M(0)[c], D(0)[c], D(0)[c])
      BY <1>4, <3>3, <3>4
    <3> HIDE DEF Q
    <3>6. QED
      BY <2>3, <2>4, <3>5
  <2>5. CASE j # 0
    <3>1. j \in 1..n /\ j - 1 \in 0..n /\ 0 \in 0..n /\ r + j \in 1..Len(ms) /\ r + (j - 1) = r + j - 1
      BY <1>1, <2>3, <2>5
    <3>2. \A c \in Client : Q(M(j - 1)[c], D(j - 1)[c], D(0)[c])
      <4>1. j - 1 \notin T
        BY <1>1, <2>2, <3>1
      <4> HIDE DEF Q, M, D
      <4>2. QED
        BY <3>1, <4>1
    <3>3. D(j) = ApplyMessage(D(j - 1), ms[r + j])
      <4> DEFINE k == r + j
      <4>1. k \in 1..Len(ms) /\ r + (j - 1) = k - 1
        BY <3>1
      <4> HIDE DEF k
      <4>2. ApplyMessages(Nobody, SubSeq(ms, 1, k)) =
              ApplyMessage(ApplyMessages(Nobody, SubSeq(ms, 1, k - 1)), ms[k])
        BY <4>1, Applying
      <4>3. D(j - 1) = ApplyMessages(Nobody, SubSeq(ms, 1, k - 1))
        BY <4>1
      <4>4. D(j) = ApplyMessages(Nobody, SubSeq(ms, 1, k)) /\ ms[k] = ms[r + j]
        BY DEF k
      <4> HIDE DEF D
      <4>5. QED
        BY <4>2, <4>3, <4>4
    <3>4. M(j) = ApplyMessage(M(j - 1), ms[r + j])
      <4>1. j \in 1..Len(b) /\ b[j] = ms[r + j]
        BY <1>2, <3>1
      <4>2. M(j) = ApplyMessage(M(j - 1), b[j])
        BY <1>2, <4>1, Applying
      <4> HIDE DEF M
      <4>3. QED
        BY <4>1, <4>2
    <3> HIDE DEF M, D
    <3>5. \A c \in Client : Q(M(j)[c], D(j)[c], D(0)[c])
      <4> TAKE c \in Client
      <4> DEFINE m1 == M(j - 1)[c]
                 d1 == D(j - 1)[c]
                 m2 == M(j)[c]
                 d2 == D(j)[c]
                 d0 == D(0)[c]
      <4>1. M(j - 1) \in Awarenesses /\ D(j - 1) \in Awarenesses
        BY <1>3, <3>1
      <4>2. ms[r + j] \in Messages /\ Told(ms[r + j])
        BY <1>1, <3>1
      <4>3. /\ d1.clock <= d2.clock
            /\ d2.clock = d1.clock /\ d2.there => d2 = d1
            /\ m1 = d1 => m2 = d2
            /\ m1.clock <= d1.clock =>
                 m2.clock <= d2.clock /\ (d1.clock < d2.clock => m2 = d2)
        BY <3>3, <3>4, <4>1, <4>2, OneMessage
      <4>4. Q(m1, d1, d0)
        BY <3>2
      <4>5. /\ m1.clock \in Nat /\ d1.clock \in Nat /\ m2.clock \in Nat
            /\ d2.clock \in Nat /\ d0.clock \in Nat
        BY <1>4, <2>3, <3>1
      <4> HIDE DEF m1, m2, d1, d2, d0
      <4>6. Q(m2, d2, d0)
        BY <4>3, <4>4, <4>5
      <4> HIDE DEF Q
      <4>7. QED
        BY <4>6 DEF m2, d2, d0
    <3> HIDE DEF Q
    <3>6. QED
      BY <2>3, <3>5
  <2>6. QED
    BY <2>4, <2>5
<1>6. SubSeq(b, 1, n) = b
  BY <1>2, SubSeqFull
<1>7. \A c \in Client : Q(M(n)[c], D(n)[c], D(0)[c])
  <2>1. n \in 0..n
    BY <1>1
  <2> HIDE DEF Q, M, D
  <2>2. QED
    BY <1>5, <2>1
<1>8. M(n) = ApplyMessages(NewAwareness, b)
  BY <1>6
<1>9. D(0) = ApplyMessages(Nobody, SubSeq(ms, 1, r))
  <2>1. r + 0 = r
    BY <1>1
  <2>2. QED
    BY <2>1
<1>10. QED
  <2> HIDE DEF M
  <2>1. \A c \in Client : Q(ApplyMessages(NewAwareness, b)[c], D(n)[c],
                            ApplyMessages(Nobody, SubSeq(ms, 1, r))[c])
    BY <1>7, <1>8, <1>9
  <2>2. QED
    BY <2>1 DEF b

-----------------------------------------------------------------------------
(* Merging.                                                                *)

LEMMA InChanges ==
    ASSUME NEW ms, NEW u
    PROVE  u \in Changes(ms) <=> \E i \in DOMAIN ms : IsUpdate(ms[i]) /\ u \in ms[i].payload
  BY DEF Changes

LEMMA ChangesTyped ==
    ASSUME NEW ms \in Seq(Messages)
    PROVE  Changes(ms) \in SUBSET Change
<1> SUFFICES ASSUME NEW u \in Changes(ms) PROVE u \in Change
  OBVIOUS
<1>1. PICK i \in DOMAIN ms : IsUpdate(ms[i]) /\ u \in ms[i].payload
  BY InChanges
<1>2. ms[i] \in Messages
  BY LenProperties, ElementOfSeq
<1>3. ms[i] \in Updates
  BY <1>1, <1>2 DEF Messages, Awareness, IsUpdate
<1>4. QED
  BY <1>1, <1>3 DEF Updates

\* mergeMessages changes neither what updates carry nor, for one who applies
\* the result, the meaning of its awareness.
LEMMA Merging ==
    ASSUME NEW ms \in Seq(Messages), Len(ms) >= 2, NEW aw \in Awarenesses
    PROVE  /\ Changes(MergeMessages(ms)) = Changes(ms)
           /\ ApplyMessages(aw, MergeMessages(ms)) = ApplyAwareness(aw, MergedStates(ms))
<1> DEFINE states == MergedStates(ms)
           up == Message("sync-update", Changes(ms))
           pres == Message("awareness-update", states)
<1>1. /\ up \in Messages /\ IsUpdate(up) /\ up.payload = Changes(ms)
      /\ \A x : ApplyMessage(x, up) = x
  BY ChangesTyped DEF Messages, Updates, Message, IsUpdate, ApplyMessage
<1>2. states \in SUBSET States
  <2> DEFINE known == ApplyMessages(NewAwareness, ms)
  <2>1. Len(ms) \in 0..Len(ms) /\ SubSeq(ms, 1, Len(ms)) = ms
    BY LenProperties, SubSeqFull
  <2>2. known \in Awarenesses
    BY <2>1, AppliedTyped, BeginningsTyped
  <2> HIDE DEF known
  <2>3. \A p \in Peer : State(p, known[p].clock, FALSE) \in States
    BY <2>2 DEF Awarenesses, State, States
  <2>4. QED
    BY <2>3 DEF known, MergedStates, EncodeStates
<1>3. /\ pres \in Messages /\ ~IsUpdate(pres)
      /\ \A x : ApplyMessage(x, pres) = ApplyAwareness(x, states)
  BY <1>2 DEF Messages, Awareness, Message, IsUpdate, ApplyMessage
<1>4. ApplyAwareness(aw, {}) = aw
  BY DEF ApplyAwareness, Awarenesses
<1> DEFINE none == \A i \in DOMAIN ms : ~IsUpdate(ms[i])
           first == IF none THEN <<>> ELSE <<up>>
           last == IF states = {} THEN <<>> ELSE <<pres>>
<1>5. MergeMessages(ms) = first \o last
  <2>1. ~(Len(ms) < 2)
    BY LenProperties
  <2>2. QED
    BY <2>1 DEF MergeMessages
<1>6. none => Changes(ms) = {}
  BY InChanges
<1> HIDE DEF states, up, pres, none
<1>7. CASE none /\ states = {}
  <2>1. MergeMessages(ms) = <<>>
    BY <1>5, <1>7
  <2>2. \A u : u \notin Changes(<<>>)
    BY InChanges
  <2>3. Changes(MergeMessages(ms)) = Changes(ms)
    BY <1>6, <1>7, <2>1, <2>2
  <2>4. ApplyMessages(aw, <<>>) = aw
    BY <1>1, ApplyingFew
  <2>5. QED
    BY <1>4, <1>7, <2>1, <2>3, <2>4 DEF states
<1>8. CASE none /\ states # {}
  <2>1. MergeMessages(ms) = <<pres>>
    BY <1>5, <1>8
  <2>2. \A u : u \notin Changes(<<pres>>)
    BY <1>3, InChanges
  <2>3. Changes(MergeMessages(ms)) = Changes(ms)
    BY <1>6, <1>8, <2>1, <2>2
  <2>4. ApplyMessages(aw, <<pres>>) = ApplyMessage(aw, pres)
    BY <1>3, ApplyingFew
  <2>5. QED
    BY <1>3, <2>1, <2>3, <2>4 DEF states
<1>9. CASE ~none /\ states = {}
  <2>1. MergeMessages(ms) = <<up>>
    BY <1>5, <1>9
  <2>2. \A u : u \in Changes(<<up>>) <=> u \in Changes(ms)
    BY <1>1, InChanges
  <2>3. Changes(MergeMessages(ms)) = Changes(ms)
    BY <2>1, <2>2
  <2>4. ApplyMessages(aw, <<up>>) = ApplyMessage(aw, up)
    BY <1>1, ApplyingFew
  <2>5. ApplyAwareness(aw, states) = aw
    BY <1>4, <1>9
  <2>6. ApplyMessages(aw, MergeMessages(ms)) = aw
    BY <1>1, <2>1, <2>4
  <2>7. QED
    BY <2>3, <2>5, <2>6 DEF states
<1>10. CASE ~none /\ states # {}
  <2>1. MergeMessages(ms) = <<up, pres>>
    <3>1. MergeMessages(ms) = <<up>> \o <<pres>>
      BY <1>5, <1>10
    <3>2. <<up>> \o <<pres>> = <<up, pres>>
      <4> DEFINE both == <<up>> \o <<pres>>
                 pair == <<up, pres>>
      <4>1. /\ <<up>> \in Seq(Messages) /\ <<pres>> \in Seq(Messages)
            /\ pair \in Seq(Messages)
        BY <1>1, <1>3
      <4>2. /\ Len(<<up>>) = 1 /\ <<up>>[1] = up
            /\ Len(<<pres>>) = 1 /\ <<pres>>[1] = pres
            /\ Len(pair) = 2 /\ pair[1] = up /\ pair[2] = pres
        OBVIOUS
      <4>3. /\ both \in Seq(Messages)
            /\ Len(both) = Len(<<up>>) + Len(<<pres>>)
            /\ \A i \in 1..Len(<<up>>) + Len(<<pres>>) :
                 both[i] = IF i <= Len(<<up>>) THEN <<up>>[i] ELSE <<pres>>[i - Len(<<up>>)]
        BY <4>1, ConcatProperties
      <4> HIDE DEF both, pair
      <4>4. Len(both) = 2 /\ both[1] = up /\ both[2] = pres
        BY <4>2, <4>3
      <4>5. \A i \in 1..Len(both) : both[i] = pair[i]
        BY <4>2, <4>4
      <4>6. QED
        BY <4>1, <4>2, <4>3, <4>4, <4>5, SeqEqual DEF both, pair
    <3>3. QED
      BY <3>1, <3>2
  <2>2. \A u : u \in Changes(<<up, pres>>) <=> u \in Changes(ms)
    <3>1. DOMAIN <<up, pres>> = {1, 2} /\ <<up, pres>>[1] = up /\ <<up, pres>>[2] = pres
      OBVIOUS
    <3>2. QED
      BY <1>1, <1>3, <3>1, InChanges
  <2>3. Changes(MergeMessages(ms)) = Changes(ms)
    BY <2>1, <2>2
  <2>4. ApplyMessages(aw, <<up, pres>>) = ApplyMessage(ApplyMessage(aw, up), pres)
    BY <1>1, <1>3, ApplyingFew
  <2>5. QED
    BY <1>1, <1>3, <2>1, <2>3, <2>4 DEF states
<1>11. QED
  BY <1>7, <1>8, <1>9, <1>10

\* What an observer makes of a batch.
LEMMA Receiving ==
    ASSUME NEW ms \in Seq(Messages), \A i \in DOMAIN ms : Told(ms[i]),
           NEW r \in 0..Len(ms), NEW n \in 1..(Len(ms) - r), NEW known \in Awarenesses,
           Behind(known, ApplyMessages(Nobody, SubSeq(ms, 1, r)))
    PROVE  LET b == SubSeq(ms, r + 1, r + n)
               k == ApplyMessages(known, MergeMessages(b))
           IN  /\ Changes(MergeMessages(b)) = Changes(b)
               /\ k \in Awarenesses
               /\ Behind(k, ApplyMessages(Nobody, SubSeq(ms, 1, r + n)))
<1> DEFINE b == SubSeq(ms, r + 1, r + n)
           k == ApplyMessages(known, MergeMessages(b))
           before == ApplyMessages(Nobody, SubSeq(ms, 1, r))
           after == ApplyMessages(Nobody, SubSeq(ms, 1, r + n))
<1>1. /\ Len(ms) \in Nat /\ r \in Nat /\ n \in Nat \ {0}
      /\ r + 1 \in 1..Len(ms) /\ r + n \in 0..Len(ms) /\ DOMAIN ms = 1..Len(ms)
      /\ \A i \in 1..Len(ms) : ms[i] \in Messages
  <2>1. Len(ms) \in Nat /\ DOMAIN ms = 1..Len(ms)
    BY LenProperties
  <2>2. \A i \in 1..Len(ms) : ms[i] \in Messages
    BY ElementOfSeq
  <2>3. QED
    BY <2>1, <2>2
<1>2. b \in Seq(Messages) /\ Len(b) = n /\ b[1] = ms[r + 1]
  <2>1. r + 1 \in Int /\ r + n \in Int /\ \A i \in (r + 1)..(r + n) : ms[i] \in Messages
    BY <1>1
  <2>2. /\ b \in Seq(Messages)
        /\ Len(b) = (IF r + 1 <= r + n THEN r + n - (r + 1) + 1 ELSE 0)
        /\ \A j \in 1..(r + n - (r + 1) + 1) : b[j] = ms[r + 1 + j - 1]
    BY <2>1, SubSeqProperties
  <2> HIDE DEF b
  <2>3. 1 \in 1..(r + n - (r + 1) + 1) /\ r + 1 + 1 - 1 = r + 1
    BY <1>1
  <2>4. QED
    BY <1>1, <2>2, <2>3
<1>3. before \in Awarenesses /\ after \in Awarenesses
  BY <1>1, AppliedTyped, BeginningsTyped
<1>4. CASE n = 1
  <2>1. b = <<ms[r + 1]>>
    <3> HIDE DEF b
    <3>1. \A i \in 1..1 : b[i] = <<ms[r + 1]>>[i]
      BY <1>2
    <3>2. <<ms[r + 1]>> \in Seq(Messages) /\ Len(<<ms[r + 1]>>) = 1
      BY <1>1
    <3>3. QED
      BY <1>2, <1>4, <3>1, <3>2, SeqEqual
  <2>2. MergeMessages(b) = b
    <3> HIDE DEF b
    <3>1. QED
      BY <1>2, <1>4 DEF MergeMessages
  <2>3. k = ApplyMessage(known, ms[r + 1])
    <3>1. ApplyMessages(known, <<ms[r + 1]>>) = ApplyMessage(known, ms[r + 1])
      BY <1>1, ApplyingFew
    <3> HIDE DEF b
    <3>2. QED
      BY <2>1, <2>2, <3>1
  <2>4. after = ApplyMessage(before, ms[r + 1])
    <3> DEFINE j == r + 1
    <3>1. j \in 1..Len(ms) /\ j - 1 = r
      BY <1>1
    <3> HIDE DEF j
    <3>2. ApplyMessages(Nobody, SubSeq(ms, 1, j)) =
            ApplyMessage(ApplyMessages(Nobody, SubSeq(ms, 1, j - 1)), ms[j])
      BY <3>1, Applying
    <3>3. r + n = j /\ r + 1 = j
      BY <1>4 DEF j
    <3>4. QED
      BY <3>1, <3>2, <3>3
  <2>5. ms[r + 1] \in Messages /\ Told(ms[r + 1]) /\ Behind(known, before)
    BY <1>1
  <2> HIDE DEF k, before, after, b
  <2>6. k \in Awarenesses /\ Behind(k, after)
    BY <1>3, <2>3, <2>4, <2>5, OneMessageBehind, AwarenessTyped
  <2>7. QED
    BY <2>2, <2>6 DEF k, after, b
<1>5. CASE n # 1
  <2>1. /\ Changes(MergeMessages(b)) = Changes(b)
        /\ k = ApplyAwareness(known, MergedStates(b))
    <3>1. Len(b) >= 2
      BY <1>1, <1>2, <1>5
    <3> HIDE DEF b
    <3>2. QED
      BY <1>2, <3>1, Merging
  <2> DEFINE merged == ApplyMessages(NewAwareness, b)
             states == EncodeStates(merged)
  <2>2. \A c \in Client :
          /\ before[c].clock <= after[c].clock
          /\ after[c].clock = before[c].clock /\ after[c].there => after[c] = before[c]
          /\ merged[c].clock <= after[c].clock
          /\ before[c].clock < after[c].clock => merged[c] = after[c]
    <3>1. n \in 0..(Len(ms) - r)
      BY <1>1
    <3>2. QED
      BY <3>1, BatchAgrees
  <2>3. merged \in Awarenesses
    <3> HIDE DEF b
    <3>1. Len(b) \in 0..Len(b) /\ SubSeq(b, 1, Len(b)) = b
      BY <1>1, <1>2, SubSeqFull
    <3>2. QED
      BY <1>2, <3>1, AppliedTyped, BeginningsTyped
  <2>4. k = ApplyAwareness(known, states)
    BY <2>1 DEF MergedStates
  <2> HIDE DEF k, before, after, merged
  <2> DEFINE Shown(p) == [client |-> p, clock |-> merged[p].clock, gone |-> FALSE]
  <2>5. states = {Shown(p) : p \in {q \in Peer : merged[q].there}}
    BY DEF EncodeStates, State
  <2>6. \A p \in Peer : Shown(p) \in States
    BY <2>3 DEF Awarenesses, States
  <2>7. \A p : Shown(p).client = p /\ Shown(p).clock = merged[p].clock /\ ~Shown(p).gone
    OBVIOUS
  <2> HIDE DEF states, Shown
  <2>8. states \in SUBSET States
    BY <2>5, <2>6
  <2>9. \A s, t \in states : s.client = t.client => s = t
    BY <2>5, <2>7
  <2>10. \A c \in Client : \A s \in states : s.client = c =>
          merged[c].there /\ s.clock = merged[c].clock /\ ~s.gone
    BY <2>5, <2>7
  <2>11. \A c \in Client : merged[c].there =>
          \E s \in states : s.client = c /\ s.clock = merged[c].clock /\ ~s.gone
    BY <2>5, <2>7 DEF Peer
  <2>12. k \in Awarenesses
    <3> DEFINE m == Message("awareness-update", states)
    <3>1. m \in Messages /\ ApplyMessage(known, m) = k
      BY <2>4, <2>8 DEF Messages, Awareness, Message, ApplyMessage
    <3>2. QED
      BY <3>1, AwarenessTyped
  <2>13. Behind(k, after)
    <3> SUFFICES ASSUME NEW c \in Client
                 PROVE  k[c].clock <= after[c].clock /\ (after[c].there => k[c] = after[c])
      BY DEF Behind
    <3>1. /\ known[c].clock <= before[c].clock
          /\ before[c].there => known[c] = before[c]
      BY DEF Behind, before
    <3>2. /\ c \in Peer /\ MaxClock \in Nat
          /\ known[c] \in [clock : 0..MaxClock, there : BOOLEAN]
          /\ before[c] \in [clock : 0..MaxClock, there : BOOLEAN]
          /\ after[c] \in [clock : 0..MaxClock, there : BOOLEAN]
          /\ merged[c] \in [clock : 0..MaxClock, there : BOOLEAN]
      BY <1>3, <2>3, MessagePathAssumption DEF Peer, Awarenesses
    <3> HIDE DEF states
    <3>3. CASE merged[c].there /\ merged[c].clock > known[c].clock
      <4>1. PICK s \in states : s.client = c /\ s.clock = merged[c].clock /\ ~s.gone
        BY <2>11, <3>3
      <4>2. Supersedes(s, known[c])
        BY <3>3, <4>1 DEF Supersedes
      <4>3. k[c] = [clock |-> s.clock, there |-> ~s.gone]
        BY <2>4, <2>8, <2>9, <3>2, <4>1, <4>2, Superseding
      <4>4. k[c] = [clock |-> merged[c].clock, there |-> TRUE]
        BY <4>1, <4>3
      <4>5. k[c] = merged[c]
        BY <3>2, <3>3, <4>4
      <4>6. ASSUME after[c].there, ~(before[c].clock < after[c].clock) PROVE FALSE
        <5>1. after[c].clock = before[c].clock /\ after[c] = before[c]
          BY <2>2, <3>2, <4>6
        <5>2. known[c].clock = after[c].clock /\ merged[c].clock <= after[c].clock
          BY <2>2, <3>1, <4>6, <5>1
        <5>3. QED
          BY <3>2, <3>3, <5>2
      <4>7. QED
        BY <2>2, <4>5, <4>6
    <3>4. CASE ~(merged[c].there /\ merged[c].clock > known[c].clock)
      <4>1. \A s \in states : s.client = c => ~Supersedes(s, known[c])
        BY <2>10, <3>2, <3>4 DEF Supersedes
      <4>2. k[c] = known[c]
        BY <2>4, <2>8, <2>9, <3>2, <4>1, Superseding
      <4>3. k[c].clock <= after[c].clock
        BY <2>2, <3>1, <3>2, <4>2
      <4>4. after[c].there => k[c] = after[c]
        <5>1. SUFFICES ASSUME after[c].there PROVE known[c] = after[c]
          BY <4>2
        <5>2. ~(before[c].clock < after[c].clock)
          BY <2>2, <3>1, <3>2, <3>4, <5>1
        <5>3. after[c].clock = before[c].clock /\ after[c] = before[c]
          BY <2>2, <3>2, <5>1, <5>2
        <5>4. QED
          BY <3>1, <5>1, <5>3
      <4>5. QED
        BY <4>3, <4>4
    <3>5. QED
      BY <3>3, <3>4
  <2>14. QED
    BY <2>1, <2>12, <2>13 DEF k, after
<1>6. QED
  BY <1>4, <1>5

-----------------------------------------------------------------------------
(* The invariant.                                                          *)

LEMMA ChangesOfAppend ==
    ASSUME NEW ms \in Seq(Messages), NEW m \in Messages
    PROVE  Changes(Append(ms, m)) = Changes(ms) \cup (IF IsUpdate(m) THEN m.payload ELSE {})
<1> DEFINE longer == Append(ms, m)
           new == IF IsUpdate(m) THEN m.payload ELSE {}
<1>1. /\ Len(ms) \in Nat /\ DOMAIN ms = 1..Len(ms)
      /\ DOMAIN longer = 1..(Len(ms) + 1)
      /\ longer[Len(ms) + 1] = m
      /\ \A i \in 1..Len(ms) : longer[i] = ms[i]
  BY LenProperties, AppendProperties
<1> HIDE DEF longer
<1>2. ASSUME NEW u PROVE u \in Changes(longer) <=> u \in Changes(ms) \cup new
  <2>1. u \in Changes(longer) <=>
          \E i \in 1..(Len(ms) + 1) : IsUpdate(longer[i]) /\ u \in longer[i].payload
    BY <1>1, InChanges
  <2>2. u \in Changes(ms) <=> \E i \in 1..Len(ms) : IsUpdate(ms[i]) /\ u \in ms[i].payload
    BY <1>1, InChanges
  <2>3. \A i \in 1..(Len(ms) + 1) : i \in 1..Len(ms) \/ i = Len(ms) + 1
    BY <1>1
  <2>4. \A i \in 1..Len(ms) : i \in 1..(Len(ms) + 1)
    BY <1>1
  <2>5. Len(ms) + 1 \in 1..(Len(ms) + 1)
    BY <1>1
  <2>6. u \in new <=> IsUpdate(m) /\ u \in m.payload
    OBVIOUS
  <2> HIDE DEF new
  <2>7. QED
    BY <1>1, <2>1, <2>2, <2>3, <2>4, <2>5, <2>6
<1>3. QED
  BY <1>2 DEF longer

LEMMA ChangesOfParts ==
    ASSUME NEW ms \in Seq(Messages), NEW r \in 0..Len(ms), NEW n \in 0..(Len(ms) - r)
    PROVE  Changes(SubSeq(ms, 1, r + n)) =
             Changes(SubSeq(ms, 1, r)) \cup Changes(SubSeq(ms, r + 1, r + n))
<1>1. Len(ms) \in Nat /\ r \in Nat /\ n \in Nat /\ r + n \in 0..Len(ms)
  BY LenProperties
<1>2. \A i \in 1..Len(ms) : ms[i] \in Messages
  BY ElementOfSeq
<1> DEFINE a == SubSeq(ms, 1, r)
           b == SubSeq(ms, r + 1, r + n)
           ab == SubSeq(ms, 1, r + n)
           Has(i, u) == IsUpdate(ms[i]) /\ u \in ms[i].payload
<1>3. DOMAIN a = 1..r /\ \A i \in 1..r : a[i] = ms[i]
  <2>1. \A i \in 1..r : ms[i] \in Messages
    BY <1>1, <1>2
  <2>2. /\ a \in Seq(Messages) /\ Len(a) = (IF 1 <= r THEN r - 1 + 1 ELSE 0)
        /\ \A i \in 1..(r - 1 + 1) : a[i] = ms[1 + i - 1]
    BY <1>1, <2>1, SubSeqProperties
  <2>3. DOMAIN a = 1..Len(a)
    BY <2>2, LenProperties
  <2> HIDE DEF a
  <2>4. QED
    BY <1>1, <2>2, <2>3
<1>4. DOMAIN ab = 1..(r + n) /\ \A i \in 1..(r + n) : ab[i] = ms[i]
  <2>1. \A i \in 1..(r + n) : ms[i] \in Messages
    BY <1>1, <1>2
  <2>2. /\ ab \in Seq(Messages) /\ Len(ab) = (IF 1 <= r + n THEN r + n - 1 + 1 ELSE 0)
        /\ \A i \in 1..(r + n - 1 + 1) : ab[i] = ms[1 + i - 1]
    BY <1>1, <2>1, SubSeqProperties
  <2>3. DOMAIN ab = 1..Len(ab)
    BY <2>2, LenProperties
  <2> HIDE DEF ab
  <2>4. QED
    BY <1>1, <2>2, <2>3
<1>5. DOMAIN b = 1..n /\ \A i \in 1..n : b[i] = ms[r + i]
  <2>1. \A i \in (r + 1)..(r + n) : ms[i] \in Messages
    BY <1>1, <1>2
  <2>2. /\ b \in Seq(Messages)
        /\ Len(b) = (IF r + 1 <= r + n THEN r + n - (r + 1) + 1 ELSE 0)
        /\ \A i \in 1..(r + n - (r + 1) + 1) : b[i] = ms[r + 1 + i - 1]
    BY <1>1, <2>1, SubSeqProperties
  <2>3. DOMAIN b = 1..Len(b)
    BY <2>2, LenProperties
  <2>4. Len(b) = n /\ r + n - (r + 1) + 1 = n
    BY <1>1, <2>2
  <2> HIDE DEF b
  <2>5. ASSUME NEW i \in 1..n PROVE b[i] = ms[r + i]
    <3>1. r + 1 + i - 1 = r + i
      BY <1>1
    <3>2. QED
      BY <2>2, <2>4, <3>1
  <2>6. QED
    BY <2>3, <2>4, <2>5
<1> HIDE DEF a, b, ab
<1>6. ASSUME NEW u PROVE u \in Changes(ab) <=> u \in Changes(a) \/ u \in Changes(b)
  <2>1. u \in Changes(ab) <=> \E i \in 1..(r + n) : Has(i, u)
    BY <1>4, InChanges
  <2>2. u \in Changes(a) <=> \E i \in 1..r : Has(i, u)
    BY <1>3, InChanges
  <2>3. u \in Changes(b) <=> \E i \in 1..n : Has(r + i, u)
    BY <1>5, InChanges
  <2> HIDE DEF Has
  <2>4. ASSUME NEW i \in 1..(r + n) PROVE i \in 1..r \/ \E j \in 1..n : i = r + j
    <3>1. CASE i > r
      <4>1. i - r \in 1..n /\ i = r + (i - r)
        BY <1>1, <3>1
      <4>2. QED
        BY <4>1
    <3>2. QED
      BY <1>1, <3>1
  <2>5. \A i \in 1..r : i \in 1..(r + n)
    BY <1>1
  <2>6. \A i \in 1..n : r + i \in 1..(r + n)
    BY <1>1
  <2>7. QED
    BY <2>1, <2>2, <2>3, <2>4, <2>5, <2>6
<1>7. QED
  BY <1>6 DEF a, b, ab

LEMMA InitIInv == Init => IInv
<1> SUFFICES ASSUME Init PROVE IInv
  OBVIOUS
<1>1. Len(stream) = 0 /\ stream \in Seq(Messages) /\ DOMAIN stream = {}
  BY DEF Init
<1>2. TypeOK
  BY <1>1, BeginningsTyped, MessagePathAssumption
     DEF Init, TypeOK, Messages, Awarenesses
<1>3. SubSeq(stream, 1, read) = <<>> /\ stream = <<>>
  BY SubSeqEmpty DEF Init
<1>4. Changes(<<>>) = {}
  BY InChanges
<1>5. DirectUpTo(read) = Nobody
  BY <1>1, <1>3, Applying DEF DirectUpTo
<1>6. Behind(Nobody, Nobody)
  BY BeginningsTyped, MessagePathAssumption DEF Behind, Awarenesses, Peer
<1>7. ObserverAgrees
  BY <1>3, <1>4, <1>5, <1>6 DEF ObserverAgrees, Init
<1>8. QED
  BY <1>1, <1>2, <1>3, <1>4, <1>7 DEF IInv, Init

\* A message more in the stream, which nobody has read yet.
LEMMA Appending ==
    ASSUME IInv, NEW m \in Messages, Told(m),
           stream' = Append(stream, m),
           sent' = sent \cup (IF IsUpdate(m) THEN m.payload ELSE {}),
           clock' \in [Client -> 0..MaxClock],
           UNCHANGED <<read, doc, aware>>
    PROVE  IInv'
<1>1. /\ stream \in Seq(Messages) /\ read \in 0..Len(stream) /\ Len(stream) \in Nat
      /\ DOMAIN stream = 1..Len(stream)
  BY LenProperties DEF IInv, TypeOK, Messages
<1>2. /\ stream' \in Seq(Messages) /\ Len(stream') = Len(stream) + 1
      /\ stream'[Len(stream) + 1] = m
      /\ \A i \in 1..Len(stream) : stream'[i] = stream[i]
      /\ DOMAIN stream' = 1..(Len(stream) + 1)
  BY <1>1, AppendProperties
<1>3. SubSeq(stream', 1, read) = SubSeq(stream, 1, read)
  <2> DEFINE new == SubSeq(stream', 1, read)
             old == SubSeq(stream, 1, read)
  <2>1. read \in 0..Len(stream')
    BY <1>1, <1>2
  <2>2. /\ new \in Seq(Messages) /\ Len(new) = read /\ \A i \in 1..read : new[i] = stream'[i]
        /\ old \in Seq(Messages) /\ Len(old) = read /\ \A i \in 1..read : old[i] = stream[i]
    BY <1>1, <1>2, <2>1, SubSeqProperties
  <2>3. \A i \in 1..read : stream'[i] = stream[i]
    BY <1>1, <1>2
  <2> HIDE DEF new, old
  <2>4. new = old
    BY <2>2, <2>3, SeqEqual
  <2>5. QED
    BY <2>4 DEF new, old
<1>4. TypeOK'
  <2>1. sent' \in SUBSET Change
    <3>1. IsUpdate(m) => m.payload \in SUBSET Change
      BY DEF Messages, Updates, Awareness, IsUpdate
    <3>2. QED
      BY <3>1 DEF IInv, TypeOK
  <2>2. read' \in 0..Len(stream')
    BY <1>1, <1>2
  <2>3. QED
    BY <1>2, <2>1, <2>2 DEF IInv, TypeOK, Messages
<1>5. \A i \in DOMAIN stream' : Told(stream'[i])
  BY <1>1, <1>2 DEF IInv
<1>6. sent' = Changes(stream')
  BY <1>1, ChangesOfAppend DEF IInv
<1>7. ObserverAgrees'
  <2>1. Changes(SubSeq(stream', 1, read')) = Changes(SubSeq(stream, 1, read))
    BY <1>3
  <2>2. ApplyMessages(Nobody, SubSeq(stream', 1, read'))
          = ApplyMessages(Nobody, SubSeq(stream, 1, read))
    BY <1>3
  <2>3. QED
    BY <2>1, <2>2 DEF IInv, ObserverAgrees, DirectUpTo
<1>8. QED
  BY <1>4, <1>5, <1>6, <1>7 DEF IInv

LEMMA SendUpdateKeeps == IInv /\ SendUpdate => IInv'
<1> SUFFICES ASSUME IInv, SendUpdate PROVE IInv'
  OBVIOUS
<1>1. PICK type \in {"sync-step-2", "sync-update"}, S \in SUBSET Change :
        AddMessage(Message(type, S)) /\ sent' = sent \cup S
  BY DEF SendUpdate
<1> DEFINE m == Message("sync-update", S)
<1>2. m \in Messages /\ IsUpdate(m) /\ m.payload = S /\ m \notin Awareness
  BY DEF Message, Messages, Updates, Awareness, IsUpdate
<1>3. stream' = Append(stream, m)
  BY <1>1 DEF AddMessage, Message
<1>4. clock' \in [Client -> 0..MaxClock] /\ UNCHANGED <<read, doc, aware>>
  BY DEF SendUpdate, IInv, TypeOK
<1> HIDE DEF m
<1>5. Told(m)
  BY <1>2 DEF Told
<1>6. QED
  BY <1>1, <1>2, <1>3, <1>4, <1>5, Appending

\* What a client says about one client.
LEMMA SendAwarenessKeeps ==
    ASSUME IInv, NEW s \in States, s.client \in Client, SendAwareness({s}),
           clock' \in [Client -> 0..MaxClock]
    PROVE  IInv'
<1> DEFINE m == Message("awareness-update", {s})
<1>1. /\ m \in Awareness /\ m \in Messages /\ ~IsUpdate(m) /\ m.payload = {s}
      /\ m.type # "sync-step-2"
  BY DEF Message, Messages, Updates, Awareness, IsUpdate
<1>2. AddMessage(m) /\ UNCHANGED <<read, sent, doc, aware>>
  BY DEF SendAwareness
<1> HIDE DEF m
<1>3. stream' = Append(stream, m)
  BY <1>1, <1>2 DEF AddMessage
<1>4. Told(m)
  BY <1>1 DEF Told
<1>5. sent' = sent \cup (IF IsUpdate(m) THEN m.payload ELSE {})
  BY <1>1, <1>2
<1>6. UNCHANGED <<read, doc, aware>>
  BY <1>2
<1>7. QED
  BY <1>1, <1>3, <1>4, <1>5, <1>6, Appending

LEMMA AnnounceKeeps ==
    ASSUME IInv, NEW c \in Client, NEW gone \in BOOLEAN, Announce(c, gone)
    PROVE  IInv'
<1> DEFINE s == State(c, clock[c] + 1, gone)
<1>1. clock[c] \in 0..MaxClock /\ clock[c] + 1 \in 0..MaxClock
  BY MessagePathAssumption DEF IInv, TypeOK, Announce
<1>2. s \in States /\ s.client \in Client
  BY <1>1 DEF State, States, Peer
<1>3. SendAwareness({s}) /\ clock' \in [Client -> 0..MaxClock]
  BY <1>1 DEF Announce, IInv, TypeOK
<1> HIDE DEF s
<1>4. QED
  BY <1>2, <1>3, SendAwarenessKeeps

LEMMA PassOnKeeps == IInv /\ PassOn => IInv'
<1> SUFFICES ASSUME IInv, PassOn PROVE IInv'
  OBVIOUS
<1>1. PICK i \in DOMAIN stream :
        /\ stream[i].type = "awareness-update"
        /\ \E s \in stream[i].payload :
              SendAwareness({s}) \/ SendAwareness({[s EXCEPT !.gone = TRUE]})
  BY DEF PassOn
<1>2. PICK s \in stream[i].payload :
        SendAwareness({s}) \/ SendAwareness({[s EXCEPT !.gone = TRUE]})
  BY <1>1
<1>3. s \in States /\ s.client \in Client
  <2>1. stream[i] \in Messages
    BY LenProperties, ElementOfSeq DEF IInv, TypeOK, Messages
  <2>2. stream[i] \in Awareness
    BY <1>1, <2>1 DEF Messages, Updates
  <2>3. Told(stream[i])
    BY DEF IInv
  <2>4. QED
    BY <2>2, <2>3 DEF Told
<1>4. clock' \in [Client -> 0..MaxClock]
  BY DEF PassOn, IInv, TypeOK
<1>5. CASE SendAwareness({s})
  BY <1>3, <1>4, <1>5, SendAwarenessKeeps
<1>6. CASE SendAwareness({[s EXCEPT !.gone = TRUE]})
  <2> DEFINE t == [s EXCEPT !.gone = TRUE]
  <2>1. t \in States /\ t.client \in Client
    BY <1>3 DEF States
  <2>2. SendAwareness({t})
    BY <1>6
  <2> HIDE DEF t
  <2>3. QED
    BY <1>4, <2>1, <2>2, SendAwarenessKeeps
<1>7. QED
  BY <1>2, <1>5, <1>6

LEMMA ReceiveKeeps == IInv /\ Receive => IInv'
<1> SUFFICES ASSUME IInv, Receive PROVE IInv'
  OBVIOUS
<1> DEFINE n == IF Len(stream) - read < Count THEN Len(stream) - read ELSE Count
           b == SubSeq(stream, read + 1, read + n)
<1>1. /\ stream \in Seq(Messages) /\ read \in 0..Len(stream) /\ Len(stream) \in Nat
      /\ aware \in Awarenesses
  BY LenProperties DEF IInv, TypeOK, Messages, Awarenesses
<1>2. n \in 1..(Len(stream) - read) /\ read' = read + n
  BY <1>1, MessagePathAssumption DEF Receive
<1>3. /\ doc' = doc \cup Changes(MergeMessages(b))
      /\ aware' = ApplyMessages(aware, MergeMessages(b))
      /\ UNCHANGED <<stream, sent, clock>>
  BY DEF Receive, Emit
<1> HIDE DEF n
<1>4. /\ Changes(MergeMessages(b)) = Changes(b)
      /\ aware' \in Awarenesses
      /\ Behind(aware', ApplyMessages(Nobody, SubSeq(stream, 1, read + n)))
  <2>1. Behind(aware, ApplyMessages(Nobody, SubSeq(stream, 1, read)))
    BY DEF IInv, ObserverAgrees, DirectUpTo
  <2>2. \A i \in DOMAIN stream : Told(stream[i])
    BY DEF IInv
  <2>3. QED
    BY <1>1, <1>2, <1>3, <2>1, <2>2, Receiving
<1>5. doc' = Changes(SubSeq(stream, 1, read + n))
  <2>1. doc = Changes(SubSeq(stream, 1, read))
    BY DEF IInv, ObserverAgrees
  <2>2. n \in 0..(Len(stream) - read)
    BY <1>2
  <2>3. QED
    BY <1>1, <1>3, <1>4, <2>1, <2>2, ChangesOfParts
<1>6. ObserverAgrees'
  <2>1. read' = read + n /\ stream' = stream
    BY <1>2, <1>3
  <2>2. Behind(aware', ApplyMessages(Nobody, SubSeq(stream', 1, read')))
    BY <1>4, <2>1
  <2>3. doc' = Changes(SubSeq(stream', 1, read'))
    BY <1>5, <2>1
  <2>4. QED
    BY <2>2, <2>3 DEF ObserverAgrees, DirectUpTo
<1>7. TypeOK'
  <2>1. read + n \in 0..Len(stream)
    BY <1>1, <1>2
  <2>2. doc' \in SUBSET Change
    <3>1. Changes(SubSeq(stream, 1, read + n)) \subseteq Changes(stream)
      <4>1. n \in 0..(Len(stream) - read) /\ DOMAIN stream = 1..Len(stream)
        BY <1>1, <1>2
      <4>2. /\ Len(SubSeq(stream, 1, read + n)) = read + n
            /\ \A i \in 1..(read + n) : SubSeq(stream, 1, read + n)[i] = stream[i]
            /\ DOMAIN SubSeq(stream, 1, read + n) = 1..(read + n)
        BY <1>1, <2>1, SubSeqProperties, LenProperties
      <4>3. 1..(read + n) \subseteq 1..Len(stream)
        BY <1>1, <2>1
      <4> HIDE DEF b
      <4> QED
        BY <4>1, <4>2, <4>3, InChanges
    <3>2. QED
      BY <1>1, <1>5, <3>1, ChangesTyped
  <2>3. QED
    BY <1>2, <1>3, <1>4, <2>1, <2>2 DEF IInv, TypeOK, Awarenesses
<1>8. QED
  BY <1>3, <1>6, <1>7 DEF IInv

LEMMA NextIInv == IInv /\ [Next]_vars => IInv'
<1> SUFFICES ASSUME IInv, [Next]_vars PROVE IInv'
  OBVIOUS
<1>1. CASE SendUpdate
  BY <1>1, SendUpdateKeeps
<1>2. CASE \E c \in Client, gone \in BOOLEAN : Announce(c, gone)
  BY <1>2, AnnounceKeeps
<1>3. CASE PassOn
  BY <1>3, PassOnKeeps
<1>4. CASE Receive
  BY <1>4, ReceiveKeeps
<1>5. CASE UNCHANGED vars
  BY <1>5 DEF vars, IInv, TypeOK, ObserverAgrees, DirectUpTo, Direct
<1>6. QED
  BY <1>1, <1>2, <1>3, <1>4, <1>5 DEF Next

LEMMA Inductive == Spec => []IInv
  BY InitIInv, NextIInv, PTL DEF Spec

-----------------------------------------------------------------------------
(* The theorems.                                                           *)

\* The stream holds only what its readers know: updates and awareness, and
\* never a step 2 (protocol.js:76-89).
THEOREM MessageTypes == Spec => []TypeOK
<1>1. IInv => TypeOK
  BY DEF IInv
<1>2. QED
  BY <1>1, Inductive, PTL

\* Whichever way a change is sent, and however its message is merged with
\* others, whoever has read the whole stream has it, and nothing else
\* (protocol.js:32-89, y-socket-io.js:489-497).
THEOREM ChangesAreDelivered == Spec => []ChangesGetThrough
<1>1. IInv => ChangesGetThrough
  <2> SUFFICES ASSUME IInv, CaughtUp PROVE doc = sent
    BY DEF ChangesGetThrough
  <2>1. SubSeq(stream, 1, read) = stream
    BY SubSeqFull DEF IInv, TypeOK, CaughtUp
  <2>2. QED
    BY <2>1 DEF IInv, ObserverAgrees
<1>2. QED
  BY <1>1, Inductive, PTL

\* The state of a client that is there arrives as it would without merging,
\* repeated, late and batched as messages may be (protocol.js:26-27, 41-66).
THEOREM PresenceIsDelivered == Spec => []PresenceGetsThrough
<1>1. IInv => PresenceGetsThrough
  <2> SUFFICES ASSUME IInv, CaughtUp, NEW c \in Client, Direct[c].there
               PROVE  aware[c] = Direct[c]
    BY DEF PresenceGetsThrough
  <2>1. SubSeq(stream, 1, read) = stream
    BY SubSeqFull DEF IInv, TypeOK, CaughtUp
  <2>2. DirectUpTo(read) = Direct
    BY <2>1 DEF DirectUpTo, Direct
  <2>3. QED
    BY <2>2 DEF IInv, ObserverAgrees, Behind
<1>2. QED
  BY <1>1, Inductive, PTL
=============================================================================
