--------------------------- MODULE Provider_proofs ---------------------------
(***************************************************************************)
(* No provider forgets a change: proof of NothingForgotten for any number  *)
(* of providers and changes, any patience and any number of faults.        *)
(*                                                                         *)
(* What a provider hears from another is as good as what it has, so the    *)
(* invariant speaks of both.  It also says why a failed append of an       *)
(* awaited sync-update loses nothing (its call of onUpdateDoc still waits, *)
(* or the change is accepted already), and that only a provider that is    *)
(* connected takes itself for synchronized: one that gives up a change     *)
(* owes everything it has.                                                 *)
(***************************************************************************)
EXTENDS Provider, FiniteSetTheorems, TLAPS

Tab == [mode    : {"off", "connecting", "up", "gone"},
        synced  : BOOLEAN,
        doc     : SUBSET Change,
        waiting : SUBSET Change,
        retries : Nat,
        out     : SUBSET Message,
        acks    : SUBSET Change,
        bc      : BOOLEAN,
        heard   : SUBSET Change]

\* A provider among providers that have made mk, the server having accepted ac.
Sound(r, mk, ac) ==
    /\ r.synced => r.mode = "up"
    /\ r.mode = "gone" => ~ r.bc /\ r.heard = {}
    /\ r.acks \subseteq ac
    /\ r.waiting \subseteq mk
    /\ \A m \in r.out : m.kind = "awaited" =>
         /\ m.changes \subseteq mk /\ m.changes \subseteq r.waiting \cup ac
         /\ \A u \in m.changes : m = Awaited(u)

AllSound(t, mk, ac) == t \in [Client -> Tab] /\ \A d \in Client : Sound(t[d], mk, ac)

Known(t, u) ==
    \E d \in Client : u \in t[d].heard \/ (t[d].mode # "gone" /\ u \in t[d].doc)

Owed(t, u) == \E d \in Client : Owes(t[d], u)

Remembered ==
    \A u \in Change : Known(tab, u) => u \in accepted \/ u \in stray \/ Owed(tab, u)

IInv ==
    /\ made \in SUBSET Change /\ accepted \in SUBSET Change
    /\ AllSound(tab, made, accepted)
    /\ Remembered

-----------------------------------------------------------------------------
(* What the operators on the providers do.                                 *)

\* The same, but for the broadcast channel.
Alike(r, q) ==
    /\ q.mode = r.mode /\ q.synced = r.synced /\ q.doc = r.doc
    /\ q.waiting = r.waiting /\ q.retries = r.retries
    /\ q.out = r.out /\ q.acks = r.acks

\* Only those connected to the channel hear, and only what is in S.
LEMMA Publishing ==
    ASSUME NEW t \in [Client -> Tab], NEW c \in Client, NEW S \in SUBSET Change
    PROVE  /\ Publish(t, c, S) \in [Client -> Tab]
           /\ \A d \in Client :
                /\ Alike(t[d], Publish(t, c, S)[d])
                /\ Publish(t, c, S)[d].bc = t[d].bc
                /\ \A u \in Publish(t, c, S)[d].heard :
                     u \in t[d].heard \/ (t[d].bc /\ u \in S)
BY DEF Publish, Alike, Tab

\* Of c also bc changes; what is heard was in the document of one on the
\* channel, or of c.
LEMMA Joining ==
    ASSUME NEW t \in [Client -> Tab], NEW c \in Client
    PROVE  /\ ConnectBc(t, c) \in [Client -> Tab]
           /\ \A d \in Client :
                /\ Alike(t[d], ConnectBc(t, c)[d])
                /\ ConnectBc(t, c)[d].bc <=> t[d].bc \/ d = c
                /\ \A u \in ConnectBc(t, c)[d].heard :
                     \/ u \in t[d].heard
                     \/ /\ t[d].bc \/ d = c
                        /\ \E e \in Client : (t[e].bc \/ e = c) /\ u \in t[e].doc
<1> DEFINE told == UNION {t[d].doc : d \in {e \in Client \ {c} : t[e].bc}}
           t1 == [t EXCEPT ![c].bc = TRUE, ![c].heard = @ \cup (told \ t[c].doc)]
           r1 == [t[c] EXCEPT !.bc = TRUE, !.heard = @ \cup (told \ t[c].doc)]
<1>1. told \in SUBSET Change
  BY DEF Tab
<1>2. \A u \in told : \E e \in Client : t[e].bc /\ u \in t[e].doc
  OBVIOUS
<1>3. t1 = [t EXCEPT ![c] = r1]
  OBVIOUS
<1>4. ConnectBc(t, c) = Publish(t1, c, t[c].doc)
  BY DEF ConnectBc
<1> HIDE DEF told
<1>5. /\ r1 \in Tab
      /\ Alike(t[c], r1) /\ r1.bc
      /\ \A u \in r1.heard : u \in t[c].heard \/ u \in told
  BY <1>1 DEF Tab, Alike
<1> HIDE DEF t1, r1
<1>6. t1 \in [Client -> Tab] /\ t1[c] = r1 /\ \A d \in Client \ {c} : t1[d] = t[d]
  BY <1>3, <1>5
<1>7. t[c].doc \in SUBSET Change
  BY DEF Tab
<1>8. QED
  <2> DEFINE q == Publish(t1, c, t[c].doc)
  <2>1. /\ q \in [Client -> Tab]
        /\ \A d \in Client :
             /\ Alike(t1[d], q[d])
             /\ q[d].bc = t1[d].bc
             /\ \A u \in q[d].heard : u \in t1[d].heard \/ (t1[d].bc /\ u \in t[c].doc)
    BY <1>6, <1>7, Publishing
  <2> HIDE DEF q
  <2>2. \A d \in Client : t[d].bc \in BOOLEAN /\ r1.bc \in BOOLEAN /\ t1[d].bc \in BOOLEAN
    BY <1>5, <1>6 DEF Tab
  <2>3. \A d \in Client : Alike(t[d], q[d]) /\ (q[d].bc <=> t[d].bc \/ d = c)
    BY <1>5, <1>6, <2>1, <2>2 DEF Alike
  <2>4. \A d \in Client : \A u \in q[d].heard :
          \/ u \in t[d].heard
          \/ /\ t[d].bc \/ d = c
             /\ \E e \in Client : (t[e].bc \/ e = c) /\ u \in t[e].doc
    BY <1>2, <1>5, <1>6, <2>1
  <2>5. QED
    BY <1>4, <2>1, <2>3, <2>4 DEF q

\* A provider that is not gone and connects tells and learns nothing unknown.
LEMMA Connects ==
    ASSUME NEW t, NEW c \in Client, NEW mk, NEW ac,
           AllSound(t, mk, ac), t[c].mode # "gone"
    PROVE  /\ AllSound(Connecting(t, c), mk, ac)
           /\ \A u \in Change : Known(Connecting(t, c), u) => Known(t, u)
           /\ \A d \in Client, u \in Change : Owes(t[d], u) => Owes(Connecting(t, c)[d], u)
           /\ t[c].mode # "up" =>
                \A u \in t[c].doc : Owes(Connecting(t, c)[c], u)
<1>1. CASE t[c].mode = "up"
  BY <1>1 DEF Connecting
<1>2. CASE t[c].mode # "up"
  <2> DEFINE r1 == [t[c] EXCEPT !.mode = "connecting", !.synced = FALSE]
             t1 == [t EXCEPT ![c] = r1]
             q == ConnectBc(t1, c)
  <2>1. t \in [Client -> Tab]
    BY DEF AllSound
  <2>2. Connecting(t, c) = q
    BY <1>2, <2>1 DEF Connecting
  <2>3. /\ r1 \in Tab
        /\ r1.mode = "connecting" /\ ~ r1.synced
        /\ r1.doc = t[c].doc /\ r1.out = t[c].out /\ r1.waiting = t[c].waiting
        /\ r1.acks = t[c].acks /\ r1.heard = t[c].heard /\ r1.bc = t[c].bc
    BY <2>1 DEF Tab
  <2> HIDE DEF r1
  <2>4. t1 \in [Client -> Tab] /\ t1[c] = r1 /\ \A d \in Client \ {c} : t1[d] = t[d]
    BY <2>1, <2>3
  <2> HIDE DEF t1
  <2>5. /\ q \in [Client -> Tab]
        /\ \A d \in Client :
             /\ Alike(t1[d], q[d])
             /\ q[d].bc <=> t1[d].bc \/ d = c
             /\ \A u \in q[d].heard :
                  \/ u \in t1[d].heard
                  \/ /\ t1[d].bc \/ d = c
                     /\ \E e \in Client : (t1[e].bc \/ e = c) /\ u \in t1[e].doc
    BY <2>4, Joining
  <2> HIDE DEF q
  <2>6. q[c].mode = "connecting" /\ ~ q[c].synced
    BY <2>3, <2>4, <2>5 DEF Alike
  <2>7. \A d \in Client :
          /\ q[d].doc = t[d].doc /\ q[d].out = t[d].out
          /\ q[d].waiting = t[d].waiting /\ q[d].acks = t[d].acks
          /\ q[d].bc <=> t[d].bc \/ d = c
          /\ d # c => q[d].mode = t[d].mode /\ q[d].synced = t[d].synced
          /\ \A u \in q[d].heard :
                  \/ u \in t[d].heard
                  \/ /\ t[d].bc \/ d = c
                     /\ \E e \in Client : (t[e].bc \/ e = c) /\ u \in t[e].doc
    BY <2>3, <2>4, <2>5 DEF Alike
  <2>8. \A d \in Client : Sound(t[d], mk, ac)
    BY DEF AllSound
  <2>9. \A d \in Client : Sound(q[d], mk, ac)
    BY <2>6, <2>7, <2>8 DEF Sound
  <2>10. \A u \in Change : Known(q, u) => Known(t, u)
    BY <1>2, <2>6, <2>7, <2>8 DEF Known, Sound
  <2>11. \A d \in Client, u \in Change : Owes(t[d], u) => Owes(q[d], u)
    BY <2>6, <2>7 DEF Owes
  <2>12. \A u \in t[c].doc : Owes(q[c], u)
    BY <2>6, <2>7 DEF Owes
  <2>13. QED
    BY <2>2, <2>5, <2>9, <2>10, <2>11, <2>12 DEF AllSound
<1>3. QED
  BY <1>1, <1>2

\* disconnect leaves what is owed to the next handshake.
LEMMA Disconnects ==
    ASSUME NEW t, NEW c \in Client, NEW mk, NEW ac,
           AllSound(t, mk, ac), t[c].mode # "gone"
    PROVE  /\ AllSound(Disconnecting(t, c), mk, ac)
           /\ \A d \in Client \ {c} : Disconnecting(t, c)[d] = t[d]
           /\ Disconnecting(t, c)[c].mode \notin {"up", "gone"}
           /\ Disconnecting(t, c)[c].doc = t[c].doc
           /\ Disconnecting(t, c)[c].heard \subseteq t[c].heard
           /\ \A u \in t[c].doc : Owes(Disconnecting(t, c)[c], u)
<1> t \in [Client -> Tab]
  BY DEF AllSound
<1>1. CASE t[c].mode = "up"
  <2> DEFINE r1 == [Broken(t[c], "off") EXCEPT !.bc = FALSE, !.heard = {}]
  <2>1. Disconnecting(t, c) = [t EXCEPT ![c] = r1]
    BY <1>1 DEF Disconnecting
  <2>2. /\ r1 \in Tab
        /\ r1.mode = "off" /\ ~ r1.synced /\ r1.doc = t[c].doc
        /\ r1.waiting = t[c].waiting /\ r1.out = {} /\ r1.acks = {} /\ r1.heard = {}
    BY DEF Broken, Tab
  <2> HIDE DEF r1
  <2>3. Sound(r1, mk, ac) /\ \A u \in t[c].doc : Owes(r1, u)
    BY <2>2 DEF AllSound, Sound, Owes
  <2>4. QED
    BY <2>1, <2>2, <2>3 DEF AllSound
<1>2. CASE t[c].mode # "up"
  BY <1>2 DEF Disconnecting, AllSound, Sound, Owes
<1>3. QED
  BY <1>1, <1>2

\* A provider that gives up owes all it has, to the handshake that comes.
LEMMA GivesUp ==
    ASSUME NEW t, NEW c \in Client, NEW mk, NEW ac,
           AllSound(t, mk, ac), t[c].mode # "gone"
    PROVE  /\ AllSound(GiveUp(t, c), mk, ac)
           /\ \A u \in Change : Known(GiveUp(t, c), u) => Known(t, u)
           /\ \A d \in Client \ {c}, u \in Change : Owes(t[d], u) => Owes(GiveUp(t, c)[d], u)
           /\ \A u \in t[c].doc : Owes(GiveUp(t, c)[c], u)
<1> DEFINE t1 == [t EXCEPT ![c].retries = 0]
           t2 == Disconnecting(t1, c)
<1>1. t \in [Client -> Tab]
  BY DEF AllSound
<1>2. /\ t1 \in [Client -> Tab]
      /\ \A d \in Client : Sound(t1[d], mk, ac)
      /\ \A d \in Client : t1[d].mode = t[d].mode /\ t1[d].doc = t[d].doc /\ t1[d].heard = t[d].heard
      /\ \A d \in Client \ {c} : t1[d] = t[d]
  BY <1>1 DEF AllSound, Sound, Tab
<1>3. GiveUp(t, c) = Connecting(t2, c)
  BY DEF GiveUp
<1> HIDE DEF t1
<1>4. /\ AllSound(t2, mk, ac)
      /\ \A d \in Client \ {c} : t2[d] = t1[d]
      /\ t2[c].mode \notin {"up", "gone"}
      /\ t2[c].doc = t1[c].doc
      /\ t2[c].heard \subseteq t1[c].heard
  <2>1. AllSound(t1, mk, ac) /\ t1[c].mode # "gone"
    BY <1>2 DEF AllSound
  <2>2. QED
    BY <2>1, Disconnects
<1> HIDE DEF t2
<1>5. /\ AllSound(Connecting(t2, c), mk, ac)
      /\ \A u \in Change : Known(Connecting(t2, c), u) => Known(t2, u)
      /\ \A d \in Client, u \in Change : Owes(t2[d], u) => Owes(Connecting(t2, c)[d], u)
      /\ \A u \in t2[c].doc : Owes(Connecting(t2, c)[c], u)
  BY <1>4, Connects
<1>6. \A u \in Change : Known(t2, u) => Known(t, u)
  BY <1>2, <1>4 DEF Known
<1>7. QED
  BY <1>2, <1>3, <1>4, <1>5, <1>6

\* A change that is emitted is owed, and so is what was before.  It is not
\* under way already.
LEMMA Emits ==
    ASSUME NEW t, NEW c \in Client, NEW u \in Change, NEW mk, NEW ac,
           AllSound(t, mk, ac), t[c].mode # "gone", u \in mk,
           \A m \in t[c].out : m.kind = "awaited" => u \notin m.changes
    PROVE  /\ AllSound(Emitted(t, c, u), mk, ac)
           /\ \A v \in Change : Known(Emitted(t, c, u), v) => Known(t, v)
           /\ \A d \in Client, v \in Change : Owes(t[d], v) => Owes(Emitted(t, c, u)[d], v)
           /\ u \in t[c].doc => Owes(Emitted(t, c, u)[c], u)
<1>0. t \in [Client -> Tab]
  BY DEF AllSound
<1>1. CASE t[c].retries > Patience
  <2> DEFINE r1 == [t[c] EXCEPT !.waiting = @ \ {u}]
             t1 == [t EXCEPT ![c] = r1]
  <2>1. Emitted(t, c, u) = GiveUp(t1, c)
    BY <1>0, <1>1 DEF Emitted
  <2>2. /\ r1 \in Tab /\ Sound(r1, mk, ac)
        /\ r1.mode = t[c].mode /\ r1.doc = t[c].doc /\ r1.heard = t[c].heard
    BY <1>0 DEF AllSound, Sound, Tab
  <2> HIDE DEF r1
  <2>3. AllSound(t1, mk, ac) /\ t1[c] = r1 /\ \A d \in Client \ {c} : t1[d] = t[d]
    BY <1>0, <2>2 DEF AllSound
  <2> HIDE DEF t1
  <2>4. /\ AllSound(GiveUp(t1, c), mk, ac)
        /\ \A v \in Change : Known(GiveUp(t1, c), v) => Known(t1, v)
        /\ \A d \in Client \ {c}, v \in Change : Owes(t1[d], v) => Owes(GiveUp(t1, c)[d], v)
        /\ \A v \in t1[c].doc : Owes(GiveUp(t1, c)[c], v)
    BY <2>2, <2>3, GivesUp
  <2>5. \A v \in Change : Known(t1, v) => Known(t, v)
    BY <2>2, <2>3 DEF Known
  <2>6. \A v \in Change : Owes(t[c], v) => v \in t1[c].doc
    BY <2>2, <2>3 DEF Owes
  <2>7. QED
    BY <2>1, <2>2, <2>3, <2>4, <2>5, <2>6
<1>2. CASE ~ (t[c].retries > Patience)
  <2> DEFINE r1 == [t[c] EXCEPT !.waiting = @ \cup {u}, !.out = @ \cup {Awaited(u)}]
             t1 == [t EXCEPT ![c] = r1]
  <2>1. Emitted(t, c, u) = t1
    BY <1>0, <1>2 DEF Emitted
  <2>2. Awaited(u) \in Message /\ Awaited(u).changes = {u} /\ \A v : v = u => Awaited(v) = Awaited(u)
    BY DEF Awaited, Message
  <2>3. /\ r1 \in Tab
        /\ r1.mode = t[c].mode /\ r1.doc = t[c].doc /\ r1.heard = t[c].heard
        /\ r1.synced = t[c].synced /\ r1.acks = t[c].acks /\ r1.bc = t[c].bc
        /\ r1.waiting = t[c].waiting \cup {u} /\ r1.out = t[c].out \cup {Awaited(u)}
    BY <1>0, <2>2 DEF Tab
  <2> HIDE DEF r1
  <2>4. Sound(t[c], mk, ac) => Sound(r1, mk, ac)
    BY <2>2, <2>3 DEF Sound
  <2>5. AllSound(t1, mk, ac) /\ t1[c] = r1 /\ \A d \in Client \ {c} : t1[d] = t[d]
    BY <1>0, <2>3, <2>4 DEF AllSound
  <2> HIDE DEF t1
  <2>6. \A v \in Change : Known(t1, v) => Known(t, v)
    BY <2>3, <2>5 DEF Known
  <2>7. \A v \in Change : Owes(t[c], v) => Owes(t1[c], v)
    BY <2>3, <2>5 DEF Owes
  <2>8. u \in t[c].doc => Owes(t1[c], u)
    BY <2>3, <2>5 DEF Owes
  <2>9. QED
    BY <2>1, <2>5, <2>6, <2>7, <2>8
<1>3. QED
  BY <1>1, <1>2

\* What is applied is known, or accepted; all that was owed still is.
LEMMA Applies ==
    ASSUME NEW t, NEW c \in Client, NEW S \in SUBSET Change, NEW mk, NEW ac,
           AllSound(t, mk, ac), t[c].mode # "gone"
    PROVE  /\ AllSound(Applied(t, c, S), mk, ac)
           /\ \A v \in Change : Known(Applied(t, c, S), v) => Known(t, v) \/ v \in S
           /\ \A d \in Client, v \in Change : Owes(t[d], v) => Owes(Applied(t, c, S)[d], v)
<1> DEFINE r1 == [t[c] EXCEPT !.doc = @ \cup S, !.heard = @ \ S]
           t1 == [t EXCEPT ![c] = r1]
<1>0. t \in [Client -> Tab]
  BY DEF AllSound
<1>1. t1 = [t EXCEPT ![c].doc = @ \cup S, ![c].heard = @ \ S]
  BY <1>0
<1>2. /\ r1 \in Tab
      /\ r1.mode = t[c].mode /\ r1.doc = t[c].doc \cup S /\ r1.heard = t[c].heard \ S
      /\ r1.synced = t[c].synced /\ r1.acks = t[c].acks /\ r1.bc = t[c].bc
      /\ r1.waiting = t[c].waiting /\ r1.out = t[c].out
  BY <1>0 DEF Tab
<1>3. Applied(t, c, S) \in {t1, GiveUp(t1, c)}
  BY <1>1 DEF Applied
<1> HIDE DEF r1
<1>4. Sound(t[c], mk, ac) => Sound(r1, mk, ac)
  BY <1>2 DEF Sound
<1>5. AllSound(t1, mk, ac) /\ t1[c] = r1 /\ \A d \in Client \ {c} : t1[d] = t[d]
  BY <1>0, <1>2, <1>4 DEF AllSound
<1> HIDE DEF t1
<1>6. \A v \in Change : Known(t1, v) => Known(t, v) \/ v \in S
  BY <1>2, <1>5 DEF Known
<1>7. \A v \in Change : Owes(t[c], v) => Owes(t1[c], v) /\ v \in t1[c].doc
  BY <1>2, <1>5 DEF Owes
<1>8. /\ AllSound(GiveUp(t1, c), mk, ac)
      /\ \A v \in Change : Known(GiveUp(t1, c), v) => Known(t1, v)
      /\ \A d \in Client \ {c}, v \in Change : Owes(t1[d], v) => Owes(GiveUp(t1, c)[d], v)
      /\ \A v \in t1[c].doc : Owes(GiveUp(t1, c)[c], v)
  BY <1>2, <1>5, GivesUp
<1>9. QED
  BY <1>3, <1>5, <1>6, <1>7, <1>8

-----------------------------------------------------------------------------
(* The invariant.                                                          *)

LEMMA Monotone ==
    ASSUME NEW r, NEW mk, NEW ac, NEW mk2, NEW ac2,
           Sound(r, mk, ac), mk \subseteq mk2, ac \subseteq ac2
    PROVE  Sound(r, mk2, ac2)
BY DEF Sound

\* What a step has to do: nothing becomes known that is neither accepted nor
\* owed, and what is no longer owed is accepted or goes astray.
LEMMA Kept ==
    ASSUME IInv, NEW t, NEW lost, Becomes(t, lost),
           made' \in SUBSET Change, accepted' \in SUBSET Change, accepted \subseteq accepted',
           AllSound(t, made', accepted'),
           \A u \in Change : Known(t, u) => Known(tab, u) \/ u \in accepted' \/ Owed(t, u),
           \A u \in Change : Owed(tab, u) => Owed(t, u) \/ u \in accepted' \/ u \in lost
    PROVE  IInv'
<1>1. tab' = t
  BY DEF Becomes
<1>2. AllSound(tab, made, accepted)'
  BY <1>1 DEF AllSound, Sound
<1>3. \A u \in Change : Known(tab, u)' => Known(t, u)
  BY <1>1 DEF Known
<1>4. \A u \in Change : Owed(t, u) => Owed(tab, u)'
  BY <1>1 DEF Owed, Owes
<1>5. \A u : u \in stray \/ u \in lost => u \in stray' \/ Owed(t, u)
  BY DEF Becomes, Owed
<1>6. Remembered'
  <2> SUFFICES ASSUME NEW u \in Change, Known(tab, u)'
               PROVE  u \in accepted' \/ u \in stray' \/ Owed(tab, u)'
    BY DEF Remembered
  <2>1. Known(tab, u) => u \in accepted \/ u \in stray \/ Owed(tab, u)
    BY DEF IInv, Remembered
  <2>2. QED
    BY <2>1, <1>3, <1>4, <1>5
<1>7. QED
  BY <1>2, <1>6 DEF IInv

\* The same, when one provider becomes r and learns nothing.
LEMMA KeptByOne ==
    ASSUME IInv, NEW c \in Client, NEW r \in Tab, NEW lost,
           Becomes([tab EXCEPT ![c] = r], lost),
           made' = made, accepted' \in SUBSET Change, accepted \subseteq accepted',
           Sound(r, made, accepted'),
           r.doc = tab[c].doc, r.heard \subseteq tab[c].heard,
           tab[c].mode = "gone" => r.mode = "gone",
           \A u \in Change : Owes(tab[c], u) => Owes(r, u) \/ u \in accepted' \/ u \in lost
    PROVE  IInv'
<1> DEFINE t == [tab EXCEPT ![c] = r]
<1>1. tab \in [Client -> Tab] /\ \A d \in Client : Sound(tab[d], made, accepted)
  BY DEF IInv, AllSound
<1>2. t \in [Client -> Tab] /\ t[c] = r /\ \A d \in Client \ {c} : t[d] = tab[d]
  BY <1>1
<1>3. Becomes(t, lost) /\ made' \in SUBSET Change
  BY DEF IInv
<1> HIDE DEF t
<1>4. \A d \in Client : Sound(t[d], made', accepted')
  BY <1>1, <1>2, Monotone
<1>5. AllSound(t, made', accepted')
  BY <1>2, <1>4 DEF AllSound
<1>6. \A u \in Change : Known(t, u) => Known(tab, u)
  BY <1>2 DEF Known
<1>7. \A u \in Change : Owed(tab, u) => Owed(t, u) \/ u \in accepted' \/ u \in lost
  BY <1>2 DEF Owed
<1>8. QED
  BY <1>3, <1>5, <1>6, <1>7, Kept

LEMMA InitIInv == Init => IInv
BY DEF Init, IInv, AllSound, Tab, Sound, Remembered, Known

LEMMA NextIInv == IInv /\ [Next]_vars => IInv'
<1> SUFFICES ASSUME IInv, [Next]_vars PROVE IInv'
  OBVIOUS
<1>0. /\ tab \in [Client -> Tab] /\ \A d \in Client : Sound(tab[d], made, accepted)
      /\ made \in SUBSET Change /\ accepted \in SUBSET Change
      /\ AllSound(tab, made, accepted)
  BY DEF IInv, AllSound
<1>1. ASSUME NEW c \in Client, NEW u \in Change, Edit(c, u) PROVE IInv'
  <2> DEFINE r1 == [tab[c] EXCEPT !.doc = @ \cup {u}]
             t1 == [tab EXCEPT ![c] = r1]
             mk == made \cup {u}
             t2 == Emitted(t1, c, u)
  <2>1. /\ tab[c].mode # "gone" /\ u \notin made
        /\ made' = mk /\ accepted' = accepted
        /\ Becomes(t2, {})
    BY <1>0, <1>1 DEF Edit
  <2>2. /\ r1 \in Tab /\ Sound(r1, mk, accepted)
        /\ r1.mode = tab[c].mode /\ r1.doc = tab[c].doc \cup {u} /\ r1.heard = tab[c].heard
        /\ r1.out = tab[c].out
        /\ \A v \in Change : Owes(tab[c], v) => Owes(r1, v)
    BY <1>0 DEF Tab, Sound, Owes
  <2> HIDE DEF r1
  <2>3. t1 \in [Client -> Tab] /\ t1[c] = r1 /\ \A d \in Client \ {c} : t1[d] = tab[d]
    BY <1>0, <2>2
  <2> HIDE DEF t1
  <2>4. AllSound(t1, mk, accepted)
    BY <1>0, <2>2, <2>3, Monotone DEF AllSound
  <2>5. \A m \in t1[c].out : m.kind = "awaited" => u \notin m.changes
    BY <1>0, <2>1, <2>2, <2>3 DEF Sound
  <2>6. /\ AllSound(t2, mk, accepted)
        /\ \A v \in Change : Known(t2, v) => Known(t1, v)
        /\ \A d \in Client, v \in Change : Owes(t1[d], v) => Owes(t2[d], v)
        /\ Owes(t2[c], u)
    BY <2>1, <2>2, <2>3, <2>4, <2>5, Emits
  <2> HIDE DEF t2
  <2>7. \A v \in Change : Known(t1, v) => Known(tab, v) \/ v = u
    BY <2>2, <2>3 DEF Known
  <2>8. \A v \in Change : Owed(tab, v) => Owed(t2, v)
    BY <2>2, <2>3, <2>6 DEF Owed
  <2>9. Owed(t2, u)
    BY <2>6 DEF Owed
  <2>10. QED
    BY <1>0, <2>1, <2>6, <2>7, <2>8, <2>9, Kept
<1>2. ASSUME NEW c \in Client, Connect(c) PROVE IInv'
  <2> DEFINE t2 == Connecting(tab, c)
  <2>1. tab[c].mode # "gone" /\ Becomes(t2, {}) /\ made' = made /\ accepted' = accepted
    BY <1>2 DEF Connect
  <2>2. /\ AllSound(t2, made, accepted)
        /\ \A u \in Change : Known(t2, u) => Known(tab, u)
        /\ \A d \in Client, u \in Change : Owes(tab[d], u) => Owes(t2[d], u)
    BY <1>0, <2>1, Connects
  <2>3. \A u \in Change : Owed(tab, u) => Owed(t2, u)
    BY <2>2 DEF Owed
  <2>4. QED
    BY <1>0, <2>1, <2>2, <2>3, Kept
<1>3. ASSUME NEW c \in Client, Disconnect(c) PROVE IInv'
  <2> DEFINE t2 == Disconnecting(tab, c)
  <2>1. tab[c].mode = "up" /\ Becomes(t2, {}) /\ made' = made /\ accepted' = accepted
    BY <1>3 DEF Disconnect
  <2>2. /\ AllSound(t2, made, accepted)
        /\ \A d \in Client \ {c} : t2[d] = tab[d]
        /\ t2[c].doc = tab[c].doc
        /\ t2[c].heard \subseteq tab[c].heard
        /\ \A u \in tab[c].doc : Owes(t2[c], u)
    BY <1>0, <2>1, Disconnects
  <2>3. \A u \in Change : Owed(tab, u) => Owed(t2, u)
    BY <2>2 DEF Owed, Owes
  <2>4. \A u \in Change : Known(t2, u) => Known(tab, u)
    BY <2>1, <2>2 DEF Known
  <2>5. QED
    BY <1>0, <2>1, <2>2, <2>3, <2>4, Kept
<1>4. ASSUME NEW c \in Client, Destroy(c) PROVE IInv'
  <2> DEFINE r == [Broken(tab[c], "gone") EXCEPT !.waiting = {}, !.bc = FALSE, !.heard = {}]
             lost == tab[c].doc \ accepted
  <2>1. Becomes([tab EXCEPT ![c] = r], lost) /\ made' = made /\ accepted' = accepted
    BY <1>4 DEF Destroy
  <2>2. /\ r \in Tab /\ r.doc = tab[c].doc /\ r.heard = {} /\ r.mode = "gone"
        /\ Sound(r, made, accepted)
    BY ZenonT(30), <1>0 DEF Broken, Tab, Sound
  <2>3. \A u \in Change : Owes(tab[c], u) => u \in accepted \/ u \in lost
    BY DEF Owes
  <2> HIDE DEF r, lost
  <2>4. QED
    BY <1>0, <2>1, <2>2, <2>3, KeptByOne
<1>5. ASSUME NEW c \in Client, Open(c) PROVE IInv'
  <2> DEFINE r == [tab[c] EXCEPT !.mode = "up"]
  <2>1. tab[c].mode = "connecting" /\ Becomes([tab EXCEPT ![c] = r], {}) /\ made' = made /\ accepted' = accepted
    BY <1>0, <1>5 DEF Open
  <2>2. /\ r \in Tab /\ r.doc = tab[c].doc /\ r.heard = tab[c].heard
        /\ Sound(r, made, accepted)
        /\ \A u \in Change : Owes(tab[c], u) => Owes(r, u)
    BY <1>0 DEF Tab, Sound, Owes
  <2> HIDE DEF r
  <2>3. QED
    BY <1>0, <2>1, <2>2, KeptByOne
<1>6. ASSUME NEW c \in Client, Break(c) PROVE IInv'
  <2> DEFINE r == Broken(tab[c], "connecting")
  <2>1. tab[c].mode = "up" /\ Becomes([tab EXCEPT ![c] = r], {}) /\ made' = made /\ accepted' = accepted
    BY <1>0, <1>6 DEF Break
  <2>2. /\ r \in Tab /\ r.doc = tab[c].doc /\ r.heard = tab[c].heard
        /\ Sound(r, made, accepted)
        /\ \A u \in Change : Owes(tab[c], u) => Owes(r, u)
    BY ZenonT(30), <1>0 DEF Broken, Tab, Sound, Owes
  <2> HIDE DEF r
  <2>3. QED
    BY <1>0, <2>1, <2>2, KeptByOne
<1>7. ASSUME NEW c \in Client, Answer(c) PROVE IInv'
  <2> DEFINE missing == tab[c].doc \ accepted
             m == [kind |-> "step2", changes |-> missing]
             r == [tab[c] EXCEPT !.synced = TRUE, !.out = @ \cup {m}]
  <2>1. tab[c].mode = "up" /\ Becomes([tab EXCEPT ![c] = r], {}) /\ made' = made /\ accepted' = accepted
    BY <1>0, <1>7 DEF Answer
  <2>2. tab[c].doc \in SUBSET Change /\ m \in Message
    BY <1>0 DEF Tab, Message
  <2>3. /\ r \in Tab /\ r.doc = tab[c].doc /\ r.heard = tab[c].heard
        /\ r.mode = "up" /\ r.out = tab[c].out \cup {m} /\ r.waiting = tab[c].waiting
        /\ r.acks = tab[c].acks
    BY <1>0, <2>1, <2>2 DEF Tab
  <2>4. Sound(r, made, accepted)
    BY <1>0, <2>3 DEF Sound
  <2>5. \A u \in Change : Owes(tab[c], u) => Owes(r, u) \/ u \in accepted
    BY <2>3 DEF Owes
  <2> HIDE DEF r
  <2>6. QED
    BY <1>0, <2>1, <2>3, <2>4, <2>5, KeptByOne
<1>8. ASSUME NEW c \in Client, Append(c) PROVE IInv'
  <2>1. PICK m \in tab[c].out :
          /\ accepted' = accepted \cup m.changes
          /\ Becomes([tab EXCEPT ![c].out = @ \ {m},
                                 ![c].acks = IF m.kind = "awaited" THEN @ \cup m.changes ELSE @], {})
    BY <1>8 DEF Append
  <2> DEFINE r == [tab[c] EXCEPT !.out = @ \ {m},
                                 !.acks = IF m.kind = "awaited" THEN @ \cup m.changes ELSE @]
  <2>2. /\ tab[c].mode = "up" /\ made' = made
        /\ Becomes([tab EXCEPT ![c] = r], {})
    BY <1>0, <1>8, <2>1 DEF Append
  <2>3. m.changes \in SUBSET Change
    BY <1>0 DEF Tab, Message
  <2>4. /\ r \in Tab /\ r.doc = tab[c].doc /\ r.heard = tab[c].heard
        /\ r.mode = "up" /\ r.out = tab[c].out \ {m} /\ r.waiting = tab[c].waiting
        /\ r.acks \subseteq tab[c].acks \cup m.changes /\ r.synced = tab[c].synced
    BY <1>0, <2>2, <2>3 DEF Tab
  <2> HIDE DEF r
  <2>5. Sound(r, made, accepted')
    BY <1>0, <2>1, <2>2, <2>4 DEF Sound
  <2>6. \A u \in Change : Owes(tab[c], u) => Owes(r, u) \/ u \in accepted'
    BY <2>1, <2>4 DEF Owes
  <2>7. accepted' \in SUBSET Change /\ accepted \subseteq accepted'
    BY <1>0, <2>1, <2>3
  <2>8. QED
    BY <2>2, <2>4, <2>5, <2>6, <2>7, KeptByOne
<1>9. ASSUME NEW c \in Client, AppendFails(c) PROVE IInv'
  <2>1. PICK m \in tab[c].out :
          Becomes([tab EXCEPT ![c].out = @ \ {m}],
                  IF m.kind = "awaited" THEN {} ELSE m.changes \ accepted)
    BY <1>9 DEF AppendFails
  <2> DEFINE r == [tab[c] EXCEPT !.out = @ \ {m}]
             lost == IF m.kind = "awaited" THEN {} ELSE m.changes \ accepted
  <2>2. /\ tab[c].mode = "up" /\ made' = made /\ accepted' = accepted
        /\ Becomes([tab EXCEPT ![c] = r], lost)
    BY <1>0, <1>9, <2>1 DEF AppendFails
  <2>3. /\ r \in Tab /\ r.doc = tab[c].doc /\ r.heard = tab[c].heard
        /\ r.mode = "up" /\ r.out = tab[c].out \ {m} /\ r.waiting = tab[c].waiting
        /\ r.acks = tab[c].acks /\ r.synced = tab[c].synced
    BY <1>0, <2>2 DEF Tab
  <2> HIDE DEF r
  <2>4. Sound(r, made, accepted)
    BY <1>0, <2>2, <2>3 DEF Sound
  <2>5. m.kind = "awaited" => m.changes \subseteq tab[c].waiting \cup accepted
    BY <1>0 DEF Sound
  <2>6. \A u \in Change : Owes(tab[c], u) => Owes(r, u) \/ u \in accepted \/ u \in lost
    BY <2>3, <2>5 DEF Owes
  <2> HIDE DEF lost
  <2>7. QED
    BY <1>0, <2>2, <2>3, <2>4, <2>6, KeptByOne
<1>10. ASSUME NEW c \in Client, Learn(c) PROVE IInv'
  <2> DEFINE t2 == Applied(tab, c, accepted)
  <2>1. tab[c].mode # "gone" /\ Becomes(t2, {}) /\ made' = made /\ accepted' = accepted
    BY <1>10 DEF Learn
  <2>2. /\ AllSound(t2, made, accepted)
        /\ \A v \in Change : Known(t2, v) => Known(tab, v) \/ v \in accepted
        /\ \A d \in Client, v \in Change : Owes(tab[d], v) => Owes(t2[d], v)
    BY <1>0, <2>1, Applies
  <2>3. \A u \in Change : Owed(tab, u) => Owed(t2, u)
    BY <2>2 DEF Owed
  <2>4. QED
    BY <1>0, <2>1, <2>2, <2>3, Kept
<1>11. ASSUME NEW c \in Client, Hear(c) PROVE IInv'
  <2> DEFINE S == tab[c].heard
             t2 == Applied(tab, c, S)
  <2>1. tab[c].mode # "gone" /\ Becomes(t2, {}) /\ made' = made /\ accepted' = accepted
    BY <1>0, <1>11 DEF Hear, Sound
  <2>2. S \in SUBSET Change /\ \A v \in S : Known(tab, v)
    BY <1>0 DEF Tab, Known
  <2>3. /\ AllSound(t2, made, accepted)
        /\ \A v \in Change : Known(t2, v) => Known(tab, v) \/ v \in S
        /\ \A d \in Client, v \in Change : Owes(tab[d], v) => Owes(t2[d], v)
    BY <1>0, <2>1, <2>2, Applies
  <2>4. \A u \in Change : Owed(tab, u) => Owed(t2, u)
    BY <2>3 DEF Owed
  <2>5. QED
    BY <1>0, <2>1, <2>2, <2>3, <2>4, Kept
<1>12. ASSUME NEW c \in Client, Acked(c) PROVE IInv'
  <2>1. PICK u \in tab[c].acks :
          LET t == [tab EXCEPT ![c].acks = @ \ {u}, ![c].waiting = @ \ {u}, ![c].retries = 0]
          IN  /\ Becomes(IF t[c].bc THEN Publish(t, c, {u}) ELSE t, {})
              /\ UNCHANGED <<made, accepted, faults>>
    BY <1>12 DEF Acked
  <2> DEFINE r1 == [tab[c] EXCEPT !.acks = @ \ {u}, !.waiting = @ \ {u}, !.retries = 0]
             t1 == [tab EXCEPT ![c] = r1]
             t2 == IF t1[c].bc THEN Publish(t1, c, {u}) ELSE t1
  <2>2. u \in Change /\ u \in accepted
    BY <1>0 DEF Sound
  <2>3. made' = made /\ accepted' = accepted /\ Becomes(t2, {})
    <3>1. t1 = [tab EXCEPT ![c].acks = @ \ {u}, ![c].waiting = @ \ {u}, ![c].retries = 0]
      BY <1>0
    <3>2. QED
      BY <2>1, <3>1
  <2>4. /\ r1 \in Tab /\ r1.doc = tab[c].doc /\ r1.heard = tab[c].heard
        /\ r1.mode = tab[c].mode /\ r1.out = tab[c].out /\ r1.waiting = tab[c].waiting \ {u}
        /\ r1.acks = tab[c].acks \ {u} /\ r1.synced = tab[c].synced /\ r1.bc = tab[c].bc
    BY <1>0 DEF Tab
  <2> HIDE DEF r1
  <2>5. Sound(r1, made, accepted)
    BY <1>0, <2>2, <2>4 DEF Sound
  <2>6. t1 \in [Client -> Tab] /\ t1[c] = r1 /\ \A d \in Client \ {c} : t1[d] = tab[d]
    BY <1>0, <2>4
  <2> HIDE DEF t1
  <2>7. /\ t2 \in [Client -> Tab]
        /\ \A d \in Client :
             /\ Alike(t1[d], t2[d])
             /\ t2[d].bc = t1[d].bc
             /\ \A v \in t2[d].heard : v \in t1[d].heard \/ (t1[d].bc /\ v = u)
    <3>1. CASE t1[c].bc
      BY <2>2, <2>6, <3>1, Publishing
    <3>2. CASE ~ t1[c].bc
      BY <2>6, <3>2 DEF Alike
    <3>3. QED
      BY <3>1, <3>2
  <2> HIDE DEF t2
  <2>8. \A d \in Client : Sound(t1[d], made, accepted)
    BY <1>0, <2>5, <2>6
  <2>9. \A d \in Client : Sound(t2[d], made, accepted)
    BY <2>7, <2>8 DEF Alike, Sound
  <2>10. AllSound(t2, made', accepted')
    BY <2>3, <2>7, <2>9 DEF AllSound
  <2>11. \A v \in Change : Known(t2, v) => Known(tab, v) \/ v \in accepted
    BY <2>2, <2>4, <2>6, <2>7 DEF Known, Alike
  <2>12. \A d \in Client, v \in Change : Owes(tab[d], v) => Owes(t1[d], v) \/ v \in accepted
    BY <2>2, <2>4, <2>6 DEF Owes
  <2>13. \A d \in Client, v \in Change : Owes(t1[d], v) => Owes(t2[d], v)
    BY <2>7 DEF Alike, Owes
  <2>14. \A v \in Change : Owed(tab, v) => Owed(t2, v) \/ v \in accepted
    BY <2>12, <2>13 DEF Owed
  <2>15. QED
    BY <1>0, <2>3, <2>10, <2>11, <2>14, Kept
<1>13. ASSUME NEW c \in Client, Timeout(c) PROVE IInv'
  <2>1. PICK u \in tab[c].waiting :
          /\ UNCHANGED <<made, accepted>>
          /\ LET t == [tab EXCEPT
                         ![c].acks = @ \ {u},
                         ![c].out = IF Awaited(u) \in @ THEN (@ \ {Awaited(u)}) \cup {Late(u)} ELSE @]
             IN  Becomes(Expires(t, c, u), {})
    BY <1>13 DEF Timeout
  <2> DEFINE r0 == [tab[c] EXCEPT
                      !.acks = @ \ {u},
                      !.out = IF Awaited(u) \in @ THEN (@ \ {Awaited(u)}) \cup {Late(u)} ELSE @]
             t0 == [tab EXCEPT ![c] = r0]
             r1 == [r0 EXCEPT !.retries = @ + 1]
             t1 == [tab EXCEPT ![c] = r1]
             r2 == [r1 EXCEPT !.waiting = @ \ {u}]
             t2 == [tab EXCEPT ![c] = r2]
             q == IF r0.mode = "up" THEN Emitted(t1, c, u) ELSE t2
  <2>2. u \in Change /\ u \in made
    BY <1>0 DEF Sound, Tab
  <2>3. Awaited(u) \in Message /\ Late(u) \in Message
        /\ Awaited(u).kind = "awaited" /\ Late(u).kind # "awaited"
        /\ Awaited(u).changes = {u} /\ Late(u).changes = {u}
    BY <2>2 DEF Awaited, Late, Message
  <2>4. /\ r0 \in Tab /\ r0.doc = tab[c].doc /\ r0.heard = tab[c].heard
        /\ r0.mode = tab[c].mode /\ r0.waiting = tab[c].waiting
        /\ r0.acks = tab[c].acks \ {u} /\ r0.synced = tab[c].synced /\ r0.bc = tab[c].bc
        /\ r0.out = IF Awaited(u) \in tab[c].out
                    THEN (tab[c].out \ {Awaited(u)}) \cup {Late(u)} ELSE tab[c].out
    BY <1>0, <2>3 DEF Tab
  <2>5. made' = made /\ accepted' = accepted /\ Becomes(q, {})
    <3>1. t0 = [tab EXCEPT
                  ![c].acks = @ \ {u},
                  ![c].out = IF Awaited(u) \in @ THEN (@ \ {Awaited(u)}) \cup {Late(u)} ELSE @]
      BY <1>0
    <3>2. Becomes(Expires(t0, c, u), {})
      BY <2>1, <3>1
    <3> HIDE DEF r0
    <3>3. /\ t0[c] = r0
          /\ [t0 EXCEPT ![c].retries = @ + 1] = t1
          /\ [t1 EXCEPT ![c].waiting = @ \ {u}] = t2
      BY <1>0, <2>4
    <3> HIDE DEF t0, t1, t2
    <3>4. QED
      BY <2>1, <3>2, <3>3 DEF Expires
  <2> HIDE DEF r0
  <2>6. /\ r1 \in Tab /\ r1.doc = tab[c].doc /\ r1.heard = tab[c].heard
        /\ r1.mode = tab[c].mode /\ r1.waiting = tab[c].waiting /\ r1.out = r0.out
        /\ r1.acks = tab[c].acks \ {u} /\ r1.synced = tab[c].synced /\ r1.bc = tab[c].bc
    BY <2>4 DEF Tab
  <2> HIDE DEF r1
  <2>7. /\ r2 \in Tab /\ r2.doc = tab[c].doc /\ r2.heard = tab[c].heard
        /\ r2.mode = tab[c].mode /\ r2.waiting = tab[c].waiting \ {u} /\ r2.out = r0.out
        /\ r2.acks = tab[c].acks \ {u} /\ r2.synced = tab[c].synced /\ r2.bc = tab[c].bc
    BY <2>6 DEF Tab
  <2> HIDE DEF r2
  <2>8. \A m \in r0.out : m.kind = "awaited" => m \in tab[c].out /\ u \notin m.changes
    <3> SUFFICES ASSUME NEW m \in r0.out, m.kind = "awaited"
                 PROVE  m \in tab[c].out /\ u \notin m.changes
      OBVIOUS
    <3>1. m \in tab[c].out /\ m # Awaited(u)
      BY <2>3, <2>4
    <3>2. u \in m.changes => m = Awaited(u)
      BY <1>0, <3>1 DEF Sound
    <3>3. QED
      BY <3>1, <3>2
  <2>9. Sound(r1, made, accepted) /\ Sound(r2, made, accepted)
    <3> HIDE DEF Awaited
    <3>1. QED
      BY <1>0, <2>6, <2>7, <2>8 DEF Sound
  <2>10. \A v \in Change : Owes(tab[c], v) => Owes(r1, v)
    BY <2>3, <2>4, <2>6 DEF Owes
  <2>11. CASE r0.mode = "up"
    <3>1. t1 \in [Client -> Tab] /\ t1[c] = r1 /\ \A d \in Client \ {c} : t1[d] = tab[d]
      BY <1>0, <2>6
    <3> HIDE DEF t1
    <3>2. AllSound(t1, made, accepted)
      BY <1>0, <2>9, <3>1 DEF AllSound
    <3> DEFINE e == Emitted(t1, c, u)
    <3>3. /\ AllSound(e, made, accepted)
          /\ \A v \in Change : Known(e, v) => Known(t1, v)
          /\ \A d \in Client, v \in Change : Owes(t1[d], v) => Owes(e[d], v)
      <4>1. t1[c].mode # "gone" /\ \A m \in t1[c].out : m.kind = "awaited" => u \notin m.changes
        BY <2>4, <2>6, <2>8, <2>11, <3>1
      <4>2. QED
        BY <2>2, <3>2, <4>1, Emits
    <3>4. Becomes(e, {})
      BY <2>5, <2>11
    <3> HIDE DEF e
    <3>5. \A v \in Change : Known(t1, v) => Known(tab, v)
      BY <2>6, <3>1 DEF Known
    <3>6. \A v \in Change : Owed(tab, v) => Owed(e, v)
      BY <2>10, <3>1, <3>3 DEF Owed
    <3>7. QED
      BY <1>0, <2>5, <3>3, <3>4, <3>5, <3>6, Kept
  <2>12. CASE r0.mode # "up"
    <3>1. Becomes([tab EXCEPT ![c] = r2], {})
      BY <2>5, <2>12
    <3>2. ~ tab[c].synced
      BY <1>0, <2>4, <2>12 DEF Sound
    <3>3. \A v \in Change : Owes(tab[c], v) => Owes(r2, v)
      BY <2>7, <3>2 DEF Owes
    <3>4. made' = made /\ accepted' = accepted /\ Sound(r2, made, accepted')
      BY <2>5, <2>9
    <3> HIDE DEF q, t0, t1, t2
    <3>5. QED
      BY ZenonT(30), <1>0, <2>7, <3>1, <3>3, <3>4, KeptByOne
  <2>13. QED
    BY <2>11, <2>12
<1>14. CASE UNCHANGED vars
  BY <1>14 DEF vars, IInv, AllSound, Sound, Remembered, Known, Owed, Owes
<1>15. QED
  BY <1>1, <1>2, <1>3, <1>4, <1>5, <1>6, <1>7, <1>8, <1>9, <1>10, <1>11, <1>12, <1>13, <1>14
     DEF Next, Progress

-----------------------------------------------------------------------------
(* Types: nobody has a change that was not made, and the retries end.  A    *)
(* call of onUpdateDoc that finds too many retries gives up, and sets them  *)
(* to 0, or ends for want of a connection; so they exceed the patience by   *)
(* no more than the calls that have ended.                                  *)

Within(r, mk) ==
    r.doc \subseteq mk /\ r.heard \subseteq mk /\ \A m \in r.out : m.changes \subseteq mk

Bounded(r) ==
    \/ r.retries <= Patience
    \/ r.retries + Cardinality(r.waiting) <= Patience + Cardinality(Change)

AllModest(t, mk) == \A d \in Client : Within(t[d], mk) /\ Bounded(t[d])

TypeInv ==
    /\ IInv
    /\ AllModest(tab, made)
    /\ accepted \subseteq made /\ stray \subseteq made
    /\ faults \in 0 .. MaxFaults

\* A call fewer, and one retry more.
LEMMA CountingCalls ==
    ASSUME NEW W \in SUBSET Change
    PROVE  /\ Cardinality(W) \in Nat /\ Cardinality(Change) \in Nat
           /\ Cardinality(W) <= Cardinality(Change)
           /\ \A u \in W : Cardinality(W \ {u}) = Cardinality(W) - 1
           /\ \A u \in Change : Cardinality(W \ {u}) <= Cardinality(W)
<1>1. IsFiniteSet(Change) /\ IsFiniteSet(W) /\ \A u : IsFiniteSet(W \ {u})
  BY ProviderAssumption, FS_Subset
<1>2. \A u : Cardinality(W \ {u}) = IF u \in W THEN Cardinality(W) - 1 ELSE Cardinality(W)
  BY <1>1, FS_RemoveElement
<1>3. Cardinality(W) \in Nat /\ Cardinality(Change) \in Nat
  BY <1>1, FS_CardinalityType
<1>4. Cardinality(W) <= Cardinality(Change)
  BY <1>1, FS_Subset
<1>5. QED
  BY <1>2, <1>3, <1>4

LEMMA ConnectsModestly ==
    ASSUME NEW t \in [Client -> Tab], NEW c \in Client, NEW mk, AllModest(t, mk)
    PROVE  Connecting(t, c) \in [Client -> Tab] /\ AllModest(Connecting(t, c), mk)
<1>1. CASE t[c].mode = "up"
  BY <1>1 DEF Connecting
<1>2. CASE t[c].mode # "up"
  <2> DEFINE r1 == [t[c] EXCEPT !.mode = "connecting", !.synced = FALSE]
             t1 == [t EXCEPT ![c] = r1]
             q == ConnectBc(t1, c)
  <2>1. Connecting(t, c) = q
    BY <1>2 DEF Connecting
  <2>2. /\ r1 \in Tab
        /\ r1.doc = t[c].doc /\ r1.out = t[c].out /\ r1.waiting = t[c].waiting
        /\ r1.heard = t[c].heard /\ r1.retries = t[c].retries
    BY DEF Tab
  <2> HIDE DEF r1
  <2>3. t1 \in [Client -> Tab] /\ t1[c] = r1 /\ \A d \in Client \ {c} : t1[d] = t[d]
    BY <2>2
  <2>4. AllModest(t1, mk)
    BY <2>2, <2>3 DEF AllModest, Within, Bounded
  <2> HIDE DEF t1
  <2>5. /\ q \in [Client -> Tab]
        /\ \A d \in Client :
             /\ Alike(t1[d], q[d])
             /\ \A u \in q[d].heard :
                  u \in t1[d].heard \/ \E e \in Client : u \in t1[e].doc
    BY <2>3, Joining
  <2> HIDE DEF q
  <2>6. \A d \in Client : q[d].heard \subseteq mk
    BY <2>4, <2>5 DEF AllModest, Within
  <2>7. AllModest(q, mk)
    BY <2>4, <2>5, <2>6 DEF AllModest, Within, Bounded, Alike
  <2>8. QED
    BY <2>1, <2>5, <2>7
<1>3. QED
  BY <1>1, <1>2

LEMMA DisconnectsModestly ==
    ASSUME NEW t \in [Client -> Tab], NEW c \in Client, NEW mk, AllModest(t, mk)
    PROVE  Disconnecting(t, c) \in [Client -> Tab] /\ AllModest(Disconnecting(t, c), mk)
<1>1. CASE t[c].mode = "up"
  <2> DEFINE r1 == [Broken(t[c], "off") EXCEPT !.bc = FALSE, !.heard = {}]
  <2>1. Disconnecting(t, c) = [t EXCEPT ![c] = r1]
    BY <1>1 DEF Disconnecting
  <2>2. /\ r1 \in Tab
        /\ r1.doc = t[c].doc /\ r1.waiting = t[c].waiting /\ r1.out = {}
        /\ r1.heard = {} /\ r1.retries = t[c].retries
    BY DEF Broken, Tab
  <2> HIDE DEF r1
  <2>3. Within(r1, mk) /\ Bounded(r1)
    BY <2>2 DEF AllModest, Within, Bounded
  <2>4. QED
    BY <2>1, <2>2, <2>3 DEF AllModest
<1>2. CASE t[c].mode # "up"
  BY <1>2 DEF Disconnecting
<1>3. QED
  BY <1>1, <1>2

\* Whoever gives up is patient again.
LEMMA GivesUpModestly ==
    ASSUME NEW t \in [Client -> Tab], NEW c \in Client, NEW mk,
           \A d \in Client : Within(t[d], mk), \A d \in Client \ {c} : Bounded(t[d])
    PROVE  GiveUp(t, c) \in [Client -> Tab] /\ AllModest(GiveUp(t, c), mk)
<1> DEFINE r1 == [t[c] EXCEPT !.retries = 0]
           t1 == [t EXCEPT ![c] = r1]
<1>1. /\ r1 \in Tab /\ r1.retries = 0
      /\ r1.doc = t[c].doc /\ r1.out = t[c].out /\ r1.heard = t[c].heard
  BY DEF Tab
<1>2. GiveUp(t, c) = Connecting(Disconnecting(t1, c), c)
  BY DEF GiveUp
<1> HIDE DEF r1
<1>3. t1 \in [Client -> Tab] /\ t1[c] = r1 /\ \A d \in Client \ {c} : t1[d] = t[d]
  BY <1>1
<1> HIDE DEF t1
<1>4. AllModest(t1, mk)
  BY <1>1, <1>3, ProviderAssumption DEF AllModest, Within, Bounded
<1>5. QED
  BY <1>2, <1>3, <1>4, DisconnectsModestly, ConnectsModestly

\* Whoever emits has patience, or gives up.
LEMMA EmitsModestly ==
    ASSUME NEW t \in [Client -> Tab], NEW c \in Client, NEW u \in Change, NEW mk, u \in mk,
           \A d \in Client : Within(t[d], mk), \A d \in Client \ {c} : Bounded(t[d])
    PROVE  AllModest(Emitted(t, c, u), mk)
<1>1. CASE t[c].retries > Patience
  <2> DEFINE r1 == [t[c] EXCEPT !.waiting = @ \ {u}]
             t1 == [t EXCEPT ![c] = r1]
  <2>1. Emitted(t, c, u) = GiveUp(t1, c)
    BY <1>1 DEF Emitted
  <2>2. /\ r1 \in Tab
        /\ r1.doc = t[c].doc /\ r1.out = t[c].out /\ r1.heard = t[c].heard
    BY DEF Tab
  <2> HIDE DEF r1
  <2>3. t1 \in [Client -> Tab] /\ t1[c] = r1 /\ \A d \in Client \ {c} : t1[d] = t[d]
    BY <2>2
  <2> HIDE DEF t1
  <2>4. \A d \in Client : Within(t1[d], mk)
    BY <2>2, <2>3 DEF Within
  <2>5. QED
    BY <2>1, <2>3, <2>4, GivesUpModestly
<1>2. CASE ~ (t[c].retries > Patience)
  <2> DEFINE r1 == [t[c] EXCEPT !.waiting = @ \cup {u}, !.out = @ \cup {Awaited(u)}]
  <2>1. Emitted(t, c, u) = [t EXCEPT ![c] = r1]
    BY <1>2 DEF Emitted
  <2>2. Awaited(u) \in Message /\ Awaited(u).changes = {u}
    BY DEF Awaited, Message
  <2>3. /\ r1.doc = t[c].doc /\ r1.out = t[c].out \cup {Awaited(u)} /\ r1.heard = t[c].heard
        /\ r1.retries = t[c].retries /\ r1.retries \in Nat
    BY DEF Tab
  <2> HIDE DEF r1
  <2>4. Within(r1, mk)
    BY <2>2, <2>3 DEF Within
  <2>5. Bounded(r1)
    BY <1>2, <2>3, ProviderAssumption DEF Bounded
  <2>6. QED
    BY <2>1, <2>4, <2>5 DEF AllModest
<1>3. QED
  BY <1>1, <1>2

LEMMA AppliesModestly ==
    ASSUME NEW t \in [Client -> Tab], NEW c \in Client, NEW mk, AllModest(t, mk),
           NEW S \in SUBSET Change, S \subseteq mk
    PROVE  AllModest(Applied(t, c, S), mk)
<1> DEFINE r1 == [t[c] EXCEPT !.doc = @ \cup S, !.heard = @ \ S]
           t1 == [t EXCEPT ![c] = r1]
<1>1. t1 = [t EXCEPT ![c].doc = @ \cup S, ![c].heard = @ \ S]
  OBVIOUS
<1>2. /\ r1 \in Tab
      /\ r1.doc = t[c].doc \cup S /\ r1.heard = t[c].heard \ S
      /\ r1.waiting = t[c].waiting /\ r1.out = t[c].out /\ r1.retries = t[c].retries
  BY DEF Tab
<1>3. Applied(t, c, S) \in {t1, GiveUp(t1, c)}
  BY <1>1 DEF Applied
<1> HIDE DEF r1
<1>4. t1 \in [Client -> Tab] /\ t1[c] = r1 /\ \A d \in Client \ {c} : t1[d] = t[d]
  BY <1>2
<1> HIDE DEF t1
<1>5. AllModest(t1, mk)
  BY <1>2, <1>4 DEF AllModest, Within, Bounded
<1>6. AllModest(GiveUp(t1, c), mk)
  BY <1>4, <1>5, GivesUpModestly DEF AllModest
<1>7. QED
  BY <1>3, <1>5, <1>6

\* What a step has to do.
LEMMA KeptModest ==
    ASSUME TypeInv, IInv', NEW t, NEW lost, Becomes(t, lost), AllModest(t, made'),
           made \subseteq made', accepted' \subseteq made', lost \subseteq made',
           Fault \/ faults' = faults
    PROVE  TypeInv'
<1>1. AllModest(tab, made)'
  BY DEF Becomes, AllModest, Within, Bounded
<1>2. stray' \subseteq made'
  BY DEF Becomes, TypeInv
<1>3. faults' \in 0 .. MaxFaults
  BY ProviderAssumption DEF Fault, TypeInv
<1>4. QED
  BY <1>1, <1>2, <1>3 DEF TypeInv

LEMMA KeptModestByOne ==
    ASSUME TypeInv, IInv', NEW c \in Client, NEW r, NEW lost,
           Becomes([tab EXCEPT ![c] = r], lost), Within(r, made), Bounded(r),
           made' = made, accepted' \subseteq made, lost \subseteq made,
           Fault \/ faults' = faults
    PROVE  TypeInv'
<1> DEFINE t == [tab EXCEPT ![c] = r]
<1>1. t[c] = r /\ \A d \in Client \ {c} : t[d] = tab[d]
  BY DEF TypeInv, IInv, AllSound
<1>2. Becomes(t, lost)
  OBVIOUS
<1> HIDE DEF t
<1>3. AllModest(t, made')
  BY <1>1 DEF TypeInv, AllModest
<1>4. QED
  BY <1>2, <1>3, KeptModest

\* The same, when nothing goes astray.
LEMMA KeptModestByOneOnly ==
    ASSUME TypeInv, IInv', NEW c \in Client, NEW r,
           Becomes([tab EXCEPT ![c] = r], {}), Within(r, made), Bounded(r),
           made' = made, accepted' \subseteq made, Fault \/ faults' = faults
    PROVE  TypeInv'
<1>1. {} \subseteq made
  OBVIOUS
<1>2. QED
  BY <1>1, KeptModestByOne

LEMMA TimeoutTypes ==
    ASSUME TypeInv, IInv', NEW c \in Client, Timeout(c)
    PROVE  TypeInv'
<1>0. /\ tab \in [Client -> Tab] /\ Within(tab[c], made) /\ Bounded(tab[c])
      /\ \A d \in Client : Within(tab[d], made) /\ Bounded(tab[d])
  BY DEF TypeInv, IInv, AllSound, AllModest
<1>1. PICK u \in tab[c].waiting :
        /\ UNCHANGED <<made, accepted>>
        /\ Fault \/ faults' = faults
        /\ LET t == [tab EXCEPT
                       ![c].acks = @ \ {u},
                       ![c].out = IF Awaited(u) \in @ THEN (@ \ {Awaited(u)}) \cup {Late(u)} ELSE @]
           IN  Becomes(Expires(t, c, u), {})
  BY DEF Timeout
<1> DEFINE r0 == [tab[c] EXCEPT
                    !.acks = @ \ {u},
                    !.out = IF Awaited(u) \in @ THEN (@ \ {Awaited(u)}) \cup {Late(u)} ELSE @]
           t0 == [tab EXCEPT ![c] = r0]
           r1 == [r0 EXCEPT !.retries = @ + 1]
           t1 == [tab EXCEPT ![c] = r1]
           r2 == [r1 EXCEPT !.waiting = @ \ {u}]
           t2 == [tab EXCEPT ![c] = r2]
           q == IF r0.mode = "up" THEN Emitted(t1, c, u) ELSE t2
<1>2. u \in Change /\ u \in made
  BY <1>0 DEF TypeInv, IInv, AllSound, Sound, Tab
<1>3. Late(u) \in Message /\ Late(u).changes = {u}
  BY <1>2 DEF Late, Message
<1>4. /\ r0 \in Tab /\ r0.doc = tab[c].doc /\ r0.heard = tab[c].heard
      /\ r0.waiting = tab[c].waiting /\ r0.retries = tab[c].retries
      /\ r0.out \subseteq tab[c].out \cup {Late(u)}
  BY <1>0, <1>3 DEF Tab
<1>5. Becomes(q, {})
  <2>1. t0 = [tab EXCEPT
                ![c].acks = @ \ {u},
                ![c].out = IF Awaited(u) \in @ THEN (@ \ {Awaited(u)}) \cup {Late(u)} ELSE @]
    BY <1>0
  <2>2. Becomes(Expires(t0, c, u), {})
    BY <1>1, <2>1
  <2> HIDE DEF r0
  <2>3. /\ t0[c] = r0
        /\ [t0 EXCEPT ![c].retries = @ + 1] = t1
        /\ [t1 EXCEPT ![c].waiting = @ \ {u}] = t2
    BY <1>0, <1>4
  <2> HIDE DEF t0, t1, t2
  <2>4. QED
    BY <2>2, <2>3 DEF Expires
<1> HIDE DEF r0
<1>6. /\ r1 \in Tab /\ r1.doc = tab[c].doc /\ r1.heard = tab[c].heard
      /\ r1.waiting = tab[c].waiting /\ r1.retries = tab[c].retries + 1 /\ r1.out = r0.out
  BY <1>4 DEF Tab
<1> HIDE DEF r1
<1>7. /\ r2.doc = tab[c].doc /\ r2.heard = tab[c].heard /\ r2.out = r0.out
      /\ r2.waiting = tab[c].waiting \ {u} /\ r2.retries = tab[c].retries + 1
  BY <1>6 DEF Tab
<1> HIDE DEF r2
<1>8. Within(r1, made) /\ Within(r2, made)
  BY <1>0, <1>2, <1>3, <1>4, <1>6, <1>7 DEF Within
<1>9. CASE r0.mode = "up"
  <2>1. t1 \in [Client -> Tab] /\ t1[c] = r1 /\ \A d \in Client \ {c} : t1[d] = tab[d]
    BY <1>0, <1>6
  <2> HIDE DEF t1
  <2>2. AllModest(Emitted(t1, c, u), made)
    BY <1>0, <1>2, <1>8, <2>1, EmitsModestly
  <2>3. Becomes(Emitted(t1, c, u), {})
    BY <1>5, <1>9
  <2>4. accepted' \subseteq made' /\ made' = made
    BY <1>1 DEF TypeInv
  <2>5. QED
    BY <1>1, <2>2, <2>3, <2>4, KeptModest
<1>10. CASE r0.mode # "up"
  <2>1. Becomes([tab EXCEPT ![c] = r2], {})
    BY <1>5, <1>10
  <2>2. Bounded(r2)
    <3> DEFINE w == Cardinality(tab[c].waiting)
               n == Cardinality(Change)
               v == Cardinality(tab[c].waiting \ {u})
    <3>1. tab[c].waiting \in SUBSET Change
      BY <1>0 DEF Tab
    <3>2. w \in Nat /\ n \in Nat /\ w <= n /\ v = w - 1
      BY <1>1, <3>1, CountingCalls
    <3>3. tab[c].retries \in Nat /\ Patience \in Nat
      BY <1>0, ProviderAssumption DEF Tab
    <3>4. tab[c].retries <= Patience \/ tab[c].retries + w <= Patience + n
      BY <1>0 DEF Bounded
    <3> HIDE DEF w, n, v
    <3>5. tab[c].retries + 1 + v <= Patience + n
      BY <3>2, <3>3, <3>4
    <3>6. QED
      BY <1>7, <3>5 DEF Bounded, v, n
  <2>3. accepted' \subseteq made /\ made' = made
    BY <1>1 DEF TypeInv
  <2>4. QED
    BY <1>1, <1>8, <2>1, <2>2, <2>3, KeptModestByOneOnly
<1>11. QED
  BY <1>9, <1>10

LEMMA NextTypeInv == TypeInv /\ [Next]_vars => TypeInv'
<1> SUFFICES ASSUME TypeInv, [Next]_vars PROVE TypeInv'
  OBVIOUS
<1>0. /\ IInv' /\ tab \in [Client -> Tab] /\ AllModest(tab, made)
      /\ accepted \subseteq made /\ made \in SUBSET Change
      /\ \A d \in Client : Within(tab[d], made) /\ Bounded(tab[d])
  BY NextIInv DEF TypeInv, IInv, AllSound, AllModest
<1>1. ASSUME NEW c \in Client, NEW u \in Change, Edit(c, u) PROVE TypeInv'
  <2> DEFINE r1 == [tab[c] EXCEPT !.doc = @ \cup {u}]
             t1 == [tab EXCEPT ![c] = r1]
             mk == made \cup {u}
  <2>1. /\ made' = mk /\ accepted' = accepted /\ faults' = faults
        /\ Becomes(Emitted(t1, c, u), {})
    BY <1>0, <1>1 DEF Edit
  <2>2. /\ r1 \in Tab /\ r1.doc = tab[c].doc \cup {u}
        /\ r1.heard = tab[c].heard /\ r1.out = tab[c].out
    BY <1>0 DEF Tab
  <2> HIDE DEF r1
  <2>3. t1 \in [Client -> Tab] /\ t1[c] = r1 /\ \A d \in Client \ {c} : t1[d] = tab[d]
    BY <1>0, <2>2
  <2> HIDE DEF t1
  <2>4. \A d \in Client : Within(t1[d], mk)
    BY <1>0, <2>2, <2>3 DEF Within
  <2>5. AllModest(Emitted(t1, c, u), mk)
    <3>1. u \in mk
      OBVIOUS
    <3> HIDE DEF mk
    <3>2. QED
      BY <1>0, <2>3, <2>4, <3>1, EmitsModestly
  <2>6. QED
    BY <1>0, <2>1, <2>5, KeptModest
<1>2. ASSUME NEW c \in Client, Connect(c) PROVE TypeInv'
  <2>1. Becomes(Connecting(tab, c), {}) /\ UNCHANGED <<made, accepted, faults>>
    BY <1>2 DEF Connect
  <2>2. AllModest(Connecting(tab, c), made)
    BY <1>0, ConnectsModestly
  <2>3. QED
    BY <1>0, <2>1, <2>2, KeptModest
<1>3. ASSUME NEW c \in Client, Disconnect(c) PROVE TypeInv'
  <2>1. Becomes(Disconnecting(tab, c), {}) /\ UNCHANGED <<made, accepted, faults>>
    BY <1>3 DEF Disconnect
  <2>2. AllModest(Disconnecting(tab, c), made)
    BY <1>0, DisconnectsModestly
  <2>3. QED
    BY <1>0, <2>1, <2>2, KeptModest
<1>4. ASSUME NEW c \in Client, Destroy(c) PROVE TypeInv'
  <2> DEFINE r == [Broken(tab[c], "gone") EXCEPT !.waiting = {}, !.bc = FALSE, !.heard = {}]
             lost == tab[c].doc \ accepted
  <2>1. Becomes([tab EXCEPT ![c] = r], lost) /\ UNCHANGED <<made, accepted, faults>>
    BY <1>4 DEF Destroy
  <2>2. /\ r.doc = tab[c].doc /\ r.heard = {} /\ r.out = {} /\ r.waiting = {}
        /\ r.retries = tab[c].retries /\ tab[c].waiting \in SUBSET Change
        /\ tab[c].retries \in Nat
    BY <1>0 DEF Broken, Tab
  <2>3. Within(r, made) /\ lost \subseteq made
    BY <1>0, <2>2 DEF Within
  <2> HIDE DEF r
  <2>4. Bounded(r)
    <3>1. Cardinality({}) <= Cardinality(tab[c].waiting) /\ Cardinality({}) \in Nat
      BY <2>2, CountingCalls, FS_EmptySet
    <3>2. /\ Cardinality(tab[c].waiting) \in Nat /\ Cardinality(Change) \in Nat
          /\ Patience \in Nat
      BY <2>2, CountingCalls, ProviderAssumption
    <3>3. QED
      BY <1>0, <2>2, <3>1, <3>2 DEF Bounded
  <2>5. QED
    BY <1>0, <2>1, <2>3, <2>4, KeptModestByOne
<1>5. ASSUME NEW c \in Client, Open(c) PROVE TypeInv'
  <2> DEFINE r == [tab[c] EXCEPT !.mode = "up"]
  <2>1. Becomes([tab EXCEPT ![c] = r], {}) /\ UNCHANGED <<made, accepted, faults>>
    BY <1>0, <1>5 DEF Open
  <2>2. Within(r, made) /\ Bounded(r)
    BY <1>0 DEF Tab, Within, Bounded
  <2> HIDE DEF r
  <2>3. QED
    BY <1>0, <2>1, <2>2, KeptModestByOneOnly
<1>6. ASSUME NEW c \in Client, Break(c) PROVE TypeInv'
  <2> DEFINE r == Broken(tab[c], "connecting")
  <2>1. Becomes([tab EXCEPT ![c] = r], {}) /\ UNCHANGED <<made, accepted>> /\ Fault
    BY <1>0, <1>6 DEF Break
  <2>2. Within(r, made) /\ Bounded(r)
    BY <1>0 DEF Broken, Tab, Within, Bounded
  <2> HIDE DEF r
  <2>3. QED
    BY <1>0, <2>1, <2>2, KeptModestByOneOnly
<1>7. ASSUME NEW c \in Client, Answer(c) PROVE TypeInv'
  <2> DEFINE missing == tab[c].doc \ accepted
             m == [kind |-> "step2", changes |-> missing]
             r == [tab[c] EXCEPT !.synced = TRUE, !.out = @ \cup {m}]
  <2>1. Becomes([tab EXCEPT ![c] = r], {}) /\ UNCHANGED <<made, accepted, faults>>
    BY <1>0, <1>7 DEF Answer
  <2>2. m.changes \subseteq tab[c].doc
    OBVIOUS
  <2> HIDE DEF m
  <2>3. /\ r.doc = tab[c].doc /\ r.heard = tab[c].heard /\ r.out = tab[c].out \cup {m}
        /\ r.waiting = tab[c].waiting /\ r.retries = tab[c].retries
    BY <1>0 DEF Tab
  <2> HIDE DEF r
  <2>4. Within(r, made) /\ Bounded(r)
    BY <1>0, <2>2, <2>3 DEF Within, Bounded
  <2>5. QED
    BY <1>0, <2>1, <2>4, KeptModestByOneOnly
<1>8. ASSUME NEW c \in Client, Append(c) PROVE TypeInv'
  <2>1. PICK m \in tab[c].out :
          /\ accepted' = accepted \cup m.changes
          /\ Becomes([tab EXCEPT ![c].out = @ \ {m},
                                 ![c].acks = IF m.kind = "awaited" THEN @ \cup m.changes ELSE @], {})
    BY <1>8 DEF Append
  <2> DEFINE r == [tab[c] EXCEPT !.out = @ \ {m},
                                 !.acks = IF m.kind = "awaited" THEN @ \cup m.changes ELSE @]
  <2>2. Becomes([tab EXCEPT ![c] = r], {}) /\ UNCHANGED <<made, faults>>
    BY <1>0, <1>8, <2>1 DEF Append
  <2>3. accepted' \subseteq made
    BY <1>0, <2>1 DEF Within
  <2>4. /\ r.doc = tab[c].doc /\ r.heard = tab[c].heard /\ r.out = tab[c].out \ {m}
        /\ r.waiting = tab[c].waiting /\ r.retries = tab[c].retries
    BY <1>0 DEF Tab
  <2> HIDE DEF r
  <2>5. Within(r, made) /\ Bounded(r)
    BY <1>0, <2>4 DEF Within, Bounded
  <2>6. QED
    BY <1>0, <2>2, <2>3, <2>5, KeptModestByOneOnly
<1>9. ASSUME NEW c \in Client, AppendFails(c) PROVE TypeInv'
  <2>1. PICK m \in tab[c].out :
          Becomes([tab EXCEPT ![c].out = @ \ {m}],
                  IF m.kind = "awaited" THEN {} ELSE m.changes \ accepted)
    BY <1>9 DEF AppendFails
  <2> DEFINE r == [tab[c] EXCEPT !.out = @ \ {m}]
             lost == IF m.kind = "awaited" THEN {} ELSE m.changes \ accepted
  <2>2. Becomes([tab EXCEPT ![c] = r], lost) /\ UNCHANGED <<made, accepted>> /\ Fault
    BY <1>0, <1>9, <2>1 DEF AppendFails
  <2>3. lost \subseteq made
    BY <1>0, <2>1 DEF Within
  <2>4. /\ r.doc = tab[c].doc /\ r.heard = tab[c].heard /\ r.out = tab[c].out \ {m}
        /\ r.waiting = tab[c].waiting /\ r.retries = tab[c].retries
    BY <1>0 DEF Tab
  <2> HIDE DEF r, lost
  <2>5. Within(r, made) /\ Bounded(r)
    BY <1>0, <2>4 DEF Within, Bounded
  <2>6. QED
    BY <1>0, <2>2, <2>3, <2>5, KeptModestByOne
<1>10. ASSUME NEW c \in Client, Learn(c) PROVE TypeInv'
  <2>1. Becomes(Applied(tab, c, accepted), {}) /\ UNCHANGED <<made, accepted, faults>>
    BY <1>10 DEF Learn
  <2>2. AllModest(Applied(tab, c, accepted), made)
    BY <1>0, AppliesModestly
  <2>3. QED
    BY <1>0, <2>1, <2>2, KeptModest
<1>11. ASSUME NEW c \in Client, Hear(c) PROVE TypeInv'
  <2>1. Becomes(Applied(tab, c, tab[c].heard), {}) /\ UNCHANGED <<made, accepted, faults>>
    BY <1>11 DEF Hear
  <2>2. AllModest(Applied(tab, c, tab[c].heard), made)
    BY <1>0, AppliesModestly DEF Within
  <2>3. QED
    BY <1>0, <2>1, <2>2, KeptModest
<1>12. ASSUME NEW c \in Client, Acked(c) PROVE TypeInv'
  <2>1. PICK u \in tab[c].acks :
          LET t == [tab EXCEPT ![c].acks = @ \ {u}, ![c].waiting = @ \ {u}, ![c].retries = 0]
          IN  /\ Becomes(IF t[c].bc THEN Publish(t, c, {u}) ELSE t, {})
              /\ UNCHANGED <<made, accepted, faults>>
    BY <1>12 DEF Acked
  <2> DEFINE r1 == [tab[c] EXCEPT !.acks = @ \ {u}, !.waiting = @ \ {u}, !.retries = 0]
             t1 == [tab EXCEPT ![c] = r1]
             t2 == IF t1[c].bc THEN Publish(t1, c, {u}) ELSE t1
  <2>2. u \in Change /\ u \in made
    BY <1>0 DEF TypeInv, IInv, AllSound, Sound, Tab
  <2>3. UNCHANGED <<made, accepted, faults>> /\ Becomes(t2, {})
    <3>1. t1 = [tab EXCEPT ![c].acks = @ \ {u}, ![c].waiting = @ \ {u}, ![c].retries = 0]
      BY <1>0
    <3>2. QED
      BY <2>1, <3>1
  <2>4. /\ r1 \in Tab /\ r1.doc = tab[c].doc /\ r1.heard = tab[c].heard
        /\ r1.out = tab[c].out /\ r1.retries = 0
    BY <1>0 DEF Tab
  <2> HIDE DEF r1
  <2>5. t1 \in [Client -> Tab] /\ t1[c] = r1 /\ \A d \in Client \ {c} : t1[d] = tab[d]
    BY <1>0, <2>4
  <2> HIDE DEF t1
  <2>6. AllModest(t1, made)
    BY <1>0, <2>4, <2>5, ProviderAssumption DEF AllModest, Within, Bounded
  <2>7. \A d \in Client :
          Alike(t1[d], t2[d]) /\ \A v \in t2[d].heard : v \in t1[d].heard \/ v = u
    <3>1. CASE t1[c].bc
      BY <2>2, <2>5, <3>1, Publishing
    <3>2. CASE ~ t1[c].bc
      BY <3>2 DEF Alike
    <3>3. QED
      BY <3>1, <3>2
  <2> HIDE DEF t2
  <2>8. AllModest(t2, made)
    BY <2>2, <2>6, <2>7 DEF AllModest, Within, Bounded, Alike
  <2>9. QED
    BY <1>0, <2>3, <2>8, KeptModest
<1>13. ASSUME NEW c \in Client, Timeout(c) PROVE TypeInv'
  BY <1>0, <1>13, TimeoutTypes
<1>14. CASE UNCHANGED vars
  BY <1>0, <1>14 DEF vars, TypeInv, AllModest, Within, Bounded
<1>15. QED
  BY <1>1, <1>2, <1>3, <1>4, <1>5, <1>6, <1>7, <1>8, <1>9, <1>10, <1>11, <1>12, <1>13, <1>14
     DEF Next, Progress

\* What a provider has, has heard or has emitted was made by a user, what the
\* server has accepted too, and _updateRetries stays bounded although nothing in
\* onUpdateDoc (client.js:434-457) caps it while there is no connection.
THEOREM ProviderTypes == Spec => []TypeOK
<1>1. Init => TypeInv
  BY InitIInv, ProviderAssumption DEF Init, TypeInv, AllModest, Within, Bounded
<1>2. TypeInv => TypeOK
  <2> SUFFICES ASSUME TypeInv PROVE TypeOK
    OBVIOUS
  <2>1. tab \in [Client -> Tab] /\ AllModest(tab, made)
    BY DEF TypeInv, IInv, AllSound
  <2>2. ASSUME NEW c \in Client
        PROVE  tab[c].retries \in 0 .. Patience + Cardinality(Change)
    <3>1. tab[c].retries \in Nat /\ tab[c].waiting \in SUBSET Change
      BY <2>1 DEF Tab
    <3>2. /\ Cardinality(tab[c].waiting) \in Nat /\ Cardinality(Change) \in Nat
          /\ Patience \in Nat
      BY <3>1, CountingCalls, ProviderAssumption
    <3>3. Bounded(tab[c])
      BY <2>1 DEF AllModest
    <3>4. QED
      BY <3>1, <3>2, <3>3 DEF Bounded
  <2>3. \A c \in Client : tab[c].doc \in SUBSET made /\ tab[c].heard \in SUBSET made
    BY <2>1 DEF AllModest, Within
  <2>4. tab \in [Client ->
         [mode    : {"off", "connecting", "up", "gone"},
          synced  : BOOLEAN,
          doc     : SUBSET made,
          waiting : SUBSET Change,
          retries : 0 .. Patience + Cardinality(Change),
          out     : SUBSET Message,
          acks    : SUBSET Change,
          bc      : BOOLEAN,
          heard   : SUBSET made]]
    BY <2>1, <2>2, <2>3 DEF Tab
  <2>5. QED
    BY <2>4 DEF TypeInv, IInv, TypeOK
<1>3. QED
  BY <1>1, <1>2, NextTypeInv, PTL DEF Spec

-----------------------------------------------------------------------------
(* Nothing is forgotten.                                                   *)

\* Whatever a provider has and the server has not, a provider is about to send,
\* or it has gone astray in one of the two ways (client.js:434-457): for any
\* number of providers and changes, however often connections break, appends
\* fail and answers are late.
THEOREM NothingIsForgotten == Spec => []NothingForgotten
<1>1. IInv => NothingForgotten
  <2> SUFFICES ASSUME IInv
               PROVE  \A u \in Held : u \in accepted \/ u \in stray
                        \/ u \in {v \in Change : \E c \in Client : Owes(tab[c], v)}
    BY DEF NothingForgotten
  <2> TAKE u \in Held
  <2>1. u \in Change /\ Known(tab, u)
    BY DEF IInv, AllSound, Tab, Held, Known
  <2>2. u \in accepted \/ u \in stray \/ Owed(tab, u)
    BY <2>1 DEF IInv, Remembered
  <2>3. QED
    BY <2>1, <2>2 DEF Owed
<1>2. QED
  BY <1>1, InitIInv, NextIInv, PTL DEF Spec
=============================================================================
