------------------------ MODULE PersistentLeader_proofs ------------------------
(***************************************************************************)
(* Proofs about PersistentLeader: for any servers, any number of           *)
(* acquisitions and of broken connections, scripts and replies in any      *)
(* order.  The first part follows what a server may believe and what it    *)
(* may give back; the second, who accounts for the key.                    *)
(***************************************************************************)
EXTENDS PersistentLeader, TLAPS

USE FlagAssumption, BoundsAssumption, NoTokenAssumption

-----------------------------------------------------------------------------
(* The invariant.                                                          *)

\* A request is under way in a script whose reply is awaited, or in the reply.
Asks(s, c) == c \in scripts /\ c.op = "acquire" /\ c.heard /\ c.s = s
Answers(s, r) == r \in replies /\ r.op = "acquire" /\ r.s = s

\* Tokens stay with their server and are numbered as they are made.
Made(s, t) == t \in Token /\ t[1] = s /\ t[2] <= issued

TokensAreMade ==
    /\ \A s \in Server : mine[s] # None => Made(s, mine[s])
    /\ \A s \in Server : pending[s] # None => Made(s, pending[s])
    /\ \A c \in scripts :
         /\ c.prev # None => Made(c.s, c.prev)
         /\ c.op = "acquire" => Made(c.s, c.new)
         /\ c.op # "acquire" => c.prev # None
    /\ \A r \in replies :
         /\ Made(r.s, r.token)
         /\ r.op = "acquire" /\ r.result \in Token => Made(r.s, r.result)

\* A request is in one place only.
RequestsAreUnique ==
    \A s \in Server :
        /\ \A c, d \in scripts : Asks(s, c) /\ Asks(s, d) /\ c.new = d.new => c = d
        /\ \A q, r \in replies :
             Answers(s, q) /\ Answers(s, r) /\ q.token = r.token => q = r
        /\ \A c \in scripts, r \in replies :
             Asks(s, c) /\ Answers(s, r) => c.new # r.token

\* The server has been given t, although it may not know yet.
Granted(s, t) ==
    \/ mine[s] = t
    \/ \E r \in replies : Answers(s, r) /\ r.token = pending[s] /\ r.result = t

\* It believes in t, or may come to.
MayBelieve(s, t) ==
    \/ Granted(s, t)
    \/ \E c \in scripts : Asks(s, c) /\ c.new = pending[s] /\ t \in {c.prev, c.new}

\* It has given up the request that may bring t.
MayGiveBack(s, t) ==
    \/ \E r \in replies : Answers(s, r) /\ r.token # pending[s] /\ r.result = t
    \/ \E c \in scripts : Asks(s, c) /\ c.new # pending[s] /\ t \in {c.prev, c.new}

\* A token is given back for good.
GivenUpForGood ==
    /\ \A s \in Server, t \in Token : ~ (MayBelieve(s, t) /\ MayGiveBack(s, t))
    /\ \A c \in scripts : c.op = "release" => ~ MayBelieve(c.s, c.prev)

\* A token that was granted has not been lost but by expiry.
GrantsAreTrue ==
    \A s \in Server, t \in Token : Granted(s, t) => key = t \/ t \in expired

Tracked ==
    /\ \A s \in Server : pending[s] # None => active[s]
    /\ TokensAreMade /\ RequestsAreUnique /\ GivenUpForGood /\ GrantsAreTrue

Inv == WorkerDisabled => Tracked

-----------------------------------------------------------------------------
(* Types.                                                                  *)

LEMMA ScriptTypes ==
    /\ \A s \in Server, p \in Token \cup {None}, n \in Token, h \in BOOLEAN :
         Acquire(s, p, n, h) \in Script
    /\ \A s \in Server, t \in Token, h \in BOOLEAN : Renew(s, t, h) \in Script
    /\ \A s \in Server, t \in Token : Release(s, t) \in Script
  BY DEF Acquire, Renew, Release, Script

LEMMA NewTokenType ==
    ASSUME TypeOK, NEW s \in Server
    PROVE  /\ NewToken(s) \in Token /\ NewToken(s)[1] = s /\ NewToken(s)[2] = issued + 1
           /\ ~ Made(s, NewToken(s))
  BY DEF NewToken, Token, TypeOK, Made

\* Renew and release scripts name the token they are about.
NamesToken(c) ==
    /\ c.op = "acquire" => c.new \in Token
    /\ c.op # "acquire" => c.prev \in Token
    /\ c.op = "release" => ~ c.heard
ScriptsNameTokens == \A c \in scripts : NamesToken(c)

LEMMA ReplyType ==
    ASSUME TypeOK, NEW c \in scripts, NamesToken(c), c.heard,
           NEW result \in Token \cup {None, Failed}
    PROVE  ReplyTo(c, result) \in Reply
  BY DEF TypeOK, Script, NamesToken, ReplyTo, Reply

LEMMA TypeStep ==
    ASSUME TypeOK, ScriptsNameTokens, [Next]_vars
    PROVE  TypeOK' /\ ScriptsNameTokens'
  <1> USE DEF TypeOK, ScriptsNameTokens, serverVars
  <1>1. CASE UNCHANGED vars  BY <1>1 DEF vars
  <1>2. ASSUME NEW c \in scripts, Execute(c) PROVE TypeOK' /\ ScriptsNameTokens'
    <2>1. c \in Script /\ NamesToken(c)
      OBVIOUS
    <2>2. key' \in Token \cup {None}
      BY <1>2, <2>1 DEF Execute, KeyAfter, Script, NamesToken
    <2>3. ResultOf(c) \in Token \cup {None, Failed}
      BY <2>1 DEF ResultOf, Script, NamesToken
    <2>4. replies' \in SUBSET Reply
      BY <1>2, <2>1, <2>3, ReplyType DEF Execute
    <2> QED BY <1>2, <2>2, <2>4 DEF Execute
  <1>3. ASSUME NEW c \in scripts, Disconnect(c) PROVE TypeOK' /\ ScriptsNameTokens'
    <2> DEFINE d == [c EXCEPT !.heard = FALSE]
    <2>1. d \in Script /\ NamesToken(d)
      BY DEF Script, NamesToken
    <2>2. replies' \in SUBSET Reply
      BY <1>3, ReplyType DEF Disconnect
    <2>3. scripts' = (scripts \ {c}) \cup {d}
      BY <1>3 DEF Disconnect
    <2>4. breaks' \in 0..MaxBreaks
      BY <1>3 DEF Disconnect
    <2> HIDE DEF d
    <2> QED BY <1>3, <2>1, <2>2, <2>3, <2>4 DEF Disconnect
  <1>4. ASSUME NEW c \in scripts, Discard(c) PROVE TypeOK' /\ ScriptsNameTokens'
    BY <1>4 DEF Discard
  <1>5. CASE Expire  BY <1>5 DEF Expire
  <1>6. ASSUME NEW s \in Server, Activate(s) PROVE TypeOK' /\ ScriptsNameTokens'
    BY <1>6 DEF Activate
  <1>7. ASSUME NEW s \in Server, TryAcquire(s) PROVE TypeOK' /\ ScriptsNameTokens'
    <2> DEFINE c == Acquire(s, mine[s], NewToken(s), TRUE)
    <2>1. c \in Script /\ NamesToken(c)
      BY ScriptTypes, NewTokenType DEF Acquire, NamesToken
    <2>2. /\ scripts' = scripts \cup {c}
          /\ NewToken(s) \in Token /\ pending' = [pending EXCEPT ![s] = NewToken(s)]
          /\ issued' \in Nat
          /\ UNCHANGED <<key, expired, alive, active, mine, beating, replies, breaks>>
      BY <1>7, NewTokenType DEF TryAcquire
    <2> HIDE DEF c
    <2>3. scripts' \in SUBSET Script /\ ScriptsNameTokens'
      BY <2>1, <2>2
    <2> QED BY <2>2, <2>3
  <1>8. ASSUME NEW s \in Server, NEW r \in replies, AcquireReply(s, r)
        PROVE  TypeOK' /\ ScriptsNameTokens'
    <2>1. r.result \in Token \cup {None, Failed}
      BY DEF Reply
    <2>2. r.result \in Token => Release(s, r.result) \in Script /\ NamesToken(Release(s, r.result))
      BY ScriptTypes DEF Release, NamesToken
    <2>3. scripts' \in SUBSET Script /\ ScriptsNameTokens'
      BY <1>8, <2>1, <2>2 DEF AcquireReply
    <2> QED BY <1>8, <2>1, <2>3 DEF AcquireReply
  <1>9. ASSUME NEW s \in Server, NEW r \in replies, RenewReply(s, r)
        PROVE  TypeOK' /\ ScriptsNameTokens'
    BY <1>9 DEF RenewReply
  <1>10. ASSUME NEW s \in Server, Heartbeat(s) PROVE TypeOK' /\ ScriptsNameTokens'
    <2>1. mine[s] \in Token
      BY <1>10 DEF Heartbeat
    <2>2. /\ Renew(s, mine[s], TRUE) \in Script /\ NamesToken(Renew(s, mine[s], TRUE))
          /\ Release(s, mine[s]) \in Script /\ NamesToken(Release(s, mine[s]))
      BY <2>1, ScriptTypes DEF Renew, Release, NamesToken
    <2> QED BY <1>10, <2>2 DEF Heartbeat
  <1>11. ASSUME NEW s \in Server, Cleanup(s) PROVE TypeOK' /\ ScriptsNameTokens'
    <2>1. mine[s] # None =>
            Release(s, mine[s]) \in Script /\ NamesToken(Release(s, mine[s]))
      BY ScriptTypes DEF Release, NamesToken
    <2> QED BY <1>11, <2>1 DEF Cleanup
  <1>12. ASSUME NEW s \in Server, Stop(s) PROVE TypeOK' /\ ScriptsNameTokens'
    BY <1>12 DEF Stop
  <1> QED BY <1>1, <1>2, <1>3, <1>4, <1>5, <1>6, <1>7, <1>8, <1>9, <1>10, <1>11,
             <1>12 DEF Next

-----------------------------------------------------------------------------
(* Scripts.                                                                *)

\* What a script may do to the key, and when it answers with a token.
LEMMA KeyAndResult ==
    ASSUME NEW c \in Script
    PROVE  /\ c.op = "renew" => KeyAfter(c) = key
           /\ c.op = "acquire" => KeyAfter(c) = IF key = None THEN c.new ELSE key
           /\ c.op = "release" => KeyAfter(c) = IF key = c.prev THEN None ELSE key
           /\ c.op = "acquire" /\ ResultOf(c) \notin {None, Failed} =>
                 /\ ResultOf(c) \in {c.prev, c.new}
                 /\ KeyAfter(c) = ResultOf(c)
  <1>1. /\ c.op = "renew" => KeyAfter(c) = key
        /\ c.op = "acquire" => KeyAfter(c) = IF key = None THEN c.new ELSE key
        /\ c.op = "release" => KeyAfter(c) = IF key = c.prev THEN None ELSE key
    BY Zenon DEF KeyAfter
  <1>2. CASE key = c.prev /\ key # None
    <2>1. ResultOf(c) = c.prev
      BY <1>2, Zenon DEF ResultOf
    <2> QED BY <1>1, <1>2, <2>1
  <1>3. CASE c.op = "acquire" /\ key = None
    <2>1. ResultOf(c) = c.new
      BY <1>3, Zenon DEF ResultOf
    <2> QED BY <1>1, <1>3, <2>1
  <1>4. CASE c.op = "acquire" /\ key # None /\ key # c.prev
    <2>1. ResultOf(c) = None
      BY <1>4, Zenon DEF ResultOf
    <2> QED BY <1>1, <2>1
  <1> QED BY <1>1, <1>2, <1>3, <1>4

\* A script that runs, breaks off or is lost moves its request on at most.
Moves(c) ==
    /\ UNCHANGED serverVars
    /\ \A d \in scripts' :
         \/ d \in scripts \ {c}
         \/ /\ ~ d.heard
            /\ d.op = c.op /\ d.s = c.s /\ d.prev = c.prev /\ d.new = c.new
    /\ \A r \in replies' :
         \/ r \in replies
         \/ /\ c.heard
            /\ r.op = c.op /\ r.s = c.s
            /\ r.token = IF c.op = "acquire" THEN c.new ELSE c.prev
            /\ c.op = "acquire" => r.result \in {None, Failed, c.prev, c.new}
    /\ \A q, r \in replies' : q \in replies \/ r \in replies \/ q = r

LEMMA ScriptMoves ==
    ASSUME TypeOK, NEW c \in scripts, Execute(c) \/ Disconnect(c) \/ Discard(c)
    PROVE  Moves(c)
  <1>0. c \in Script
    BY DEF TypeOK
  <1>1. CASE Execute(c)
    <2>1. /\ UNCHANGED serverVars /\ scripts' = scripts \ {c}
          /\ \/ replies' = replies
             \/ c.heard /\ replies' = replies \cup {ReplyTo(c, ResultOf(c))}
      BY <1>1 DEF Execute
    <2>2. c.op = "acquire" => ResultOf(c) \in {None, Failed, c.prev, c.new}
      BY <1>0, KeyAndResult
    <2> QED BY <2>1, <2>2 DEF Moves, ReplyTo
  <1>2. CASE Disconnect(c)
    <2>1. /\ UNCHANGED serverVars /\ c.heard
          /\ scripts' = (scripts \ {c}) \cup {[c EXCEPT !.heard = FALSE]}
          /\ replies' = replies \cup {ReplyTo(c, Failed)}
      BY <1>2 DEF Disconnect
    <2> DEFINE unheard == [c EXCEPT !.heard = FALSE]
               answer == ReplyTo(c, Failed)
    <2>2. /\ ~ unheard.heard /\ unheard.op = c.op /\ unheard.s = c.s
          /\ unheard.prev = c.prev /\ unheard.new = c.new
      BY <1>0 DEF Script
    <2>3. /\ answer.op = c.op /\ answer.s = c.s /\ answer.result = Failed
          /\ answer.token = IF c.op = "acquire" THEN c.new ELSE c.prev
      BY DEF ReplyTo
    <2>4. scripts' = (scripts \ {c}) \cup {unheard} /\ replies' = replies \cup {answer}
      BY <2>1
    <2> HIDE DEF unheard, answer
    <2> QED BY <2>1, <2>2, <2>3, <2>4 DEF Moves
  <1>3. CASE Discard(c)
    BY <1>3 DEF Discard, Moves
  <1> QED BY <1>1, <1>2, <1>3

\* Nobody comes to believe or give back anything else by it.
LEMMA MovesTrack ==
    ASSUME TypeOK, ScriptsNameTokens, Tracked, NEW c \in scripts, Moves(c)
    PROVE  /\ \A s \in Server : pending'[s] # None => active'[s]
           /\ TokensAreMade' /\ RequestsAreUnique' /\ GivenUpForGood'
  <1> USE DEF Tracked
  <1>0. c.s \in Server /\ UNCHANGED <<active, issued, mine, pending>>
    BY DEF TypeOK, Script, Moves, serverVars
  <1>1. \A s, t : Made(s, t)' <=> Made(s, t)
    BY <1>0 DEF Made
  <1>2. TokensAreMade'
    <2>1. \A d \in scripts' :
             /\ d.prev # None => Made(d.s, d.prev)
             /\ d.op = "acquire" => Made(d.s, d.new)
             /\ d.op # "acquire" => d.prev # None
      BY DEF Moves, TokensAreMade
    <2>2. ASSUME NEW r \in replies'
          PROVE  /\ Made(r.s, r.token)
                 /\ r.op = "acquire" /\ r.result \in Token => Made(r.s, r.result)
      <3>1. CASE r \in replies  BY <3>1 DEF TokensAreMade
      <3>2. CASE r \notin replies
        BY <3>2 DEF Moves, TokensAreMade
      <3> QED BY <3>1, <3>2
    <2> QED BY <1>0, <1>1, <2>1, <2>2 DEF TokensAreMade
  <1>3. \A s \in Server, d \in scripts' : Asks(s, d)' => Asks(s, d) /\ d # c
    BY DEF Asks, Moves
  <1>4. \A s \in Server, r \in replies' : Answers(s, r)' =>
           \/ Answers(s, r)
           \/ /\ Asks(s, c) /\ r.token = c.new /\ r \notin replies
              /\ r.result \in {None, Failed, c.prev, c.new}
    BY DEF Asks, Answers, Moves
  <1>5. RequestsAreUnique'
    <2> SUFFICES ASSUME NEW s \in Server
                 PROVE /\ \A d, e \in scripts' :
                            Asks(s, d)' /\ Asks(s, e)' /\ d.new = e.new => d = e
                       /\ \A q, r \in replies' :
                            Answers(s, q)' /\ Answers(s, r)' /\ q.token = r.token => q = r
                       /\ \A d \in scripts', r \in replies' :
                            Asks(s, d)' /\ Answers(s, r)' => d.new # r.token
      BY DEF RequestsAreUnique
    <2>1. \A d, e \in scripts' : Asks(s, d)' /\ Asks(s, e)' /\ d.new = e.new => d = e
      BY <1>3 DEF RequestsAreUnique, Asks
    <2>2. ASSUME NEW q \in replies', NEW r \in replies',
                 Answers(s, q)', Answers(s, r)', q.token = r.token
          PROVE  q = r
      <3>1. CASE q \notin replies /\ r \notin replies
        BY <3>1 DEF Moves
      <3>2. CASE q \in replies /\ r \in replies
        BY <2>2, <3>2 DEF RequestsAreUnique, Answers
      <3>3. CASE q \in replies /\ r \notin replies
        BY <1>4, <2>2, <3>3 DEF RequestsAreUnique, Answers
      <3>4. CASE q \notin replies /\ r \in replies
        BY <1>4, <2>2, <3>4 DEF RequestsAreUnique, Answers
      <3> QED BY <3>1, <3>2, <3>3, <3>4
    <2>3. ASSUME NEW d \in scripts', NEW r \in replies', Asks(s, d)', Answers(s, r)'
          PROVE  d.new # r.token
      BY <1>3, <1>4, <2>3 DEF RequestsAreUnique, Asks, Answers
    <2> QED BY <2>1, <2>2, <2>3
  <1>6. ASSUME NEW s \in Server, NEW t \in Token
        PROVE  /\ MayBelieve(s, t)' => MayBelieve(s, t)
               /\ MayGiveBack(s, t)' => MayGiveBack(s, t)
    <2>1. ASSUME NEW r \in replies', Answers(s, r)', r.result = t
          PROVE  \/ Answers(s, r)
                 \/ Asks(s, c) /\ c.new = r.token /\ t \in {c.prev, c.new}
      BY <1>4, <2>1
    <2>2. MayBelieve(s, t)' => MayBelieve(s, t)
      BY <1>0, <1>3, <2>1 DEF MayBelieve, Granted, Asks, Answers
    <2>3. MayGiveBack(s, t)' => MayGiveBack(s, t)
      BY <1>0, <1>3, <2>1 DEF MayGiveBack, Asks, Answers
    <2> QED BY <2>2, <2>3
  <1>7. GivenUpForGood'
    <2>1. ASSUME NEW d \in scripts', d.op = "release"
          PROVE  ~ MayBelieve(d.s, d.prev)'
      <3>1. PICK e \in scripts : e.op = "release" /\ e.s = d.s /\ e.prev = d.prev
        BY <2>1 DEF Moves
      <3>2. d.s \in Server /\ d.prev \in Token
        BY <3>1 DEF TypeOK, Script, ScriptsNameTokens, NamesToken
      <3>3. ~ MayBelieve(d.s, d.prev)
        BY <3>1 DEF GivenUpForGood
      <3> QED BY <1>6, <3>2, <3>3
    <2> QED BY <1>6, <2>1 DEF GivenUpForGood
  <1> QED BY <1>0, <1>2, <1>5, <1>7

\* The key moves to or from a granted token only by expiry.
LEMMA ExecuteGrants ==
    ASSUME TypeOK, ScriptsNameTokens, Tracked, NEW c \in scripts, Execute(c)
    PROVE  GrantsAreTrue'
  <1> SUFFICES ASSUME NEW s \in Server, NEW t \in Token, Granted(s, t)'
               PROVE  key' = t \/ t \in expired'
    BY DEF GrantsAreTrue
  <1>0. c \in Script /\ c.s \in Server /\ NamesToken(c)
    BY DEF TypeOK, Script, ScriptsNameTokens
  <1>1. /\ key' = KeyAfter(c)
        /\ UNCHANGED <<expired, mine, pending>>
        /\ \A r \in replies' : r \in replies \/ (c.heard /\ r = ReplyTo(c, ResultOf(c)))
    BY DEF Execute, serverVars
  <1>2. CASE Granted(s, t)
    <2>1. key = t \/ t \in expired
      BY <1>2 DEF Tracked, GrantsAreTrue
    <2>2. MayBelieve(s, t) /\ t # None
      BY <1>2 DEF MayBelieve
    <2>3. key = t => key' = t
      <3>1. CASE c.op = "release"
        <4>1. c.prev = t => c.s = s
          <5>1. \A x : MayBelieve(s, x) /\ x \in Token => Made(s, x)
            BY DEF MayBelieve, Granted, Asks, Answers, Tracked, TokensAreMade
          <5>2. c.prev \in Token => Made(c.s, c.prev)
            BY DEF Tracked, TokensAreMade
          <5> QED BY <2>2, <5>1, <5>2 DEF Made
        <4>2. c.prev # t
          BY <2>2, <3>1, <4>1 DEF Tracked, GivenUpForGood
        <4> QED BY <1>0, <1>1, <3>1, <4>2, KeyAndResult
      <3>2. CASE c.op # "release"
        BY <1>0, <1>1, <2>2, <3>2, KeyAndResult DEF Script
      <3> QED BY <3>1, <3>2
    <2> QED BY <1>1, <2>1, <2>3
  <1>3. CASE ~ Granted(s, t)
    <2>1. PICK r \in replies' : r \notin replies /\ Answers(s, r)' /\ r.result = t
      BY <1>1, <1>3 DEF Granted, Answers
    <2>2. r = ReplyTo(c, ResultOf(c)) /\ c.op = "acquire"
      BY <1>1, <2>1 DEF Answers, ReplyTo
    <2>3. ResultOf(c) = t /\ t \notin {None, Failed}
      BY <2>1, <2>2 DEF ReplyTo
    <2> QED BY <1>0, <1>1, <2>2, <2>3, KeyAndResult
  <1> QED BY <1>2, <1>3

LEMMA DisconnectGrants ==
    ASSUME TypeOK, Tracked, NEW c \in scripts, Disconnect(c) \/ Discard(c)
    PROVE  GrantsAreTrue'
  <1>1. /\ UNCHANGED <<key, expired, mine, pending>>
        /\ \A r \in replies' : r \in replies \/ r.result = Failed
    BY DEF Disconnect, Discard, ReplyTo, serverVars
  <1>2. \A s \in Server, t \in Token : Granted(s, t)' => Granted(s, t)
    BY <1>1 DEF Granted, Answers
  <1> QED BY <1>1, <1>2 DEF Tracked, GrantsAreTrue

-----------------------------------------------------------------------------
(* Servers.                                                                *)

\* A step that adds no request and no reply, lets s believe in nothing else
\* than before, and gives back only what s can no longer come to believe in.
Narrows(s) ==
    /\ UNCHANGED <<key, expired, issued>>
    /\ \A z \in Server \ {s} : UNCHANGED <<mine[z], pending[z], active[z]>>
    /\ replies' \subseteq replies
    /\ \A c \in scripts' :
         \/ c \in scripts
         \/ /\ c.op # "acquire" /\ c.s = s /\ Made(s, c.prev)
            /\ c.op = "release" => ~ MayBelieve(s, c.prev)'
    /\ \A c \in scripts : c.op = "acquire" => c \in scripts'
    /\ \A t \in Token :
         /\ Granted(s, t)' => Granted(s, t)
         /\ MayBelieve(s, t)' => MayBelieve(s, t) /\ ~ MayGiveBack(s, t)'
    /\ mine'[s] # None => Made(s, mine'[s])
    /\ pending'[s] \in {None, pending[s]}
    /\ pending'[s] # None => active'[s]
    /\ \A r \in replies : r.s # s => r \in replies'

LEMMA NarrowsTrack ==
    ASSUME TypeOK, ScriptsNameTokens, Tracked, NEW s \in Server, Narrows(s)
    PROVE  Tracked'
  <1> USE DEF Tracked
  <1>1. \A z, t : Made(z, t)' <=> Made(z, t)
    BY DEF Narrows, Made
  <1>2. \A z \in Server :
          /\ \A c \in scripts' : Asks(z, c)' => c \in scripts /\ Asks(z, c)
          /\ \A r \in replies' : Answers(z, r)' => r \in replies /\ Answers(z, r)
    BY DEF Narrows, Asks, Answers
  <1>3. \A z \in Server \ {s} :
          /\ \A c : Asks(z, c)' <=> Asks(z, c)
          /\ \A r : Answers(z, r)' <=> Answers(z, r)
          /\ mine'[z] = mine[z] /\ pending'[z] = pending[z] /\ active'[z] = active[z]
    BY DEF Narrows, Asks, Answers
  <1>4. \A z \in Server : pending'[z] # None => active'[z]
    BY <1>3 DEF Narrows
  <1>5. TokensAreMade'
    <2>1. \A z \in Server : mine'[z] # None => Made(z, mine'[z])
      BY <1>3 DEF Narrows, TokensAreMade
    <2>2. \A z \in Server : pending'[z] # None => Made(z, pending'[z])
      BY <1>3 DEF Narrows, TokensAreMade
    <2>3. \A c \in scripts' :
             /\ c.prev # None => Made(c.s, c.prev)
             /\ c.op = "acquire" => Made(c.s, c.new)
             /\ c.op # "acquire" => c.prev # None
      BY DEF Narrows, TokensAreMade, Made
    <2>4. \A r \in replies' :
             /\ Made(r.s, r.token)
             /\ r.op = "acquire" /\ r.result \in Token => Made(r.s, r.result)
      BY DEF Narrows, TokensAreMade
    <2> QED BY <1>1, <2>1, <2>2, <2>3, <2>4 DEF TokensAreMade
  <1>6. RequestsAreUnique'
    BY <1>2 DEF RequestsAreUnique
  <1>7. \A z \in Server \ {s}, t \in Token :
          /\ Granted(z, t)' <=> Granted(z, t)
          /\ MayBelieve(z, t)' <=> MayBelieve(z, t)
          /\ MayGiveBack(z, t)' <=> MayGiveBack(z, t)
    BY <1>3 DEF Granted, MayBelieve, MayGiveBack, Asks, Answers
  <1>8. GivenUpForGood'
    <2>1. \A z \in Server, t \in Token : ~ (MayBelieve(z, t)' /\ MayGiveBack(z, t)')
      BY <1>7 DEF Narrows, GivenUpForGood
    <2>2. ASSUME NEW c \in scripts', c.op = "release"
          PROVE  ~ MayBelieve(c.s, c.prev)'
      <3>1. CASE c \in scripts
        <4>1. c.s \in Server /\ c.prev \in Token
          BY <2>2, <3>1 DEF TypeOK, Script, ScriptsNameTokens, NamesToken
        <4>2. ~ MayBelieve(c.s, c.prev)
          BY <2>2, <3>1 DEF GivenUpForGood
        <4> QED BY <1>7, <4>1, <4>2 DEF Narrows
      <3>2. CASE c \notin scripts
        BY <2>2, <3>2 DEF Narrows
      <3> QED BY <3>1, <3>2
    <2> QED BY <2>1, <2>2 DEF GivenUpForGood
  <1>9. GrantsAreTrue'
    <2>1. \A z \in Server, t \in Token : Granted(z, t)' => Granted(z, t)
      BY <1>7 DEF Narrows
    <2> QED BY <2>1 DEF Narrows, GrantsAreTrue
  <1> QED BY <1>4, <1>5, <1>6, <1>8, <1>9

\* A server that believes in nothing and asks for nothing has no claims.
LEMMA NoClaims ==
    ASSUME TypeOK, TokensAreMade, NEW s \in Server, issued' = issued,
           \A c \in scripts' : Asks(s, c)' => c \in scripts,
           replies' \subseteq replies,
           pending'[s] = None
    PROVE  \A t \in Token : MayBelieve(s, t)' <=> mine'[s] = t
  <1>1. \A c \in scripts' : Asks(s, c)' => c.new # None
    BY DEF TokensAreMade, Made, Asks
  <1>2. \A r \in replies' : r.token # None
    BY DEF TokensAreMade, Made
  <1> QED BY <1>1, <1>2 DEF MayBelieve, Granted, Asks, Answers

\* A server that lets go of its belief and its request narrows.
LEMMA DropsNarrow ==
    ASSUME TypeOK, Tracked, NEW s \in Server,
           mine'[s] = None, pending'[s] = None,
           \A z \in Server \ {s} : UNCHANGED <<mine[z], pending[z], active[z]>>,
           UNCHANGED <<key, expired, issued, replies>>,
           \/ scripts' = scripts
           \/ mine[s] # None /\ scripts' = scripts \cup {Release(s, mine[s])}
    PROVE  Narrows(s)
  <1>1. \A c \in scripts' \ scripts : c = Release(s, mine[s]) /\ mine[s] # None
    OBVIOUS
  <1>2. \A t \in Token : ~ MayBelieve(s, t)' /\ ~ Granted(s, t)'
    <2>1. \A c \in scripts' : Asks(s, c)' => c \in scripts
      BY <1>1 DEF Asks, Release
    <2>2. \A t \in Token : MayBelieve(s, t)' <=> mine'[s] = t
      BY <2>1, NoClaims DEF Tracked
    <2> QED BY <2>2 DEF MayBelieve
  <1>3. mine[s] # None => Made(s, mine[s]) /\ mine[s] \in Token
    BY DEF Tracked, TokensAreMade, Made
  <1>4. ASSUME NEW c \in scripts', c \notin scripts
        PROVE  /\ c.op # "acquire" /\ c.s = s /\ Made(s, c.prev)
               /\ ~ MayBelieve(s, c.prev)'
    BY <1>1, <1>2, <1>3, <1>4 DEF Release
  <1> QED BY <1>2, <1>4 DEF Narrows

\* Every step of a server narrows, but a new request.
LEMMA ServerNarrows ==
    ASSUME TypeOK, ScriptsNameTokens, Tracked, NEW s \in Server,
           \/ Activate(s) \/ Heartbeat(s) \/ Cleanup(s) \/ Stop(s)
           \/ \E r \in replies : AcquireReply(s, r) \/ RenewReply(s, r)
    PROVE  Narrows(s)
  <1> USE DEF Tracked, TypeOK
  <1>1. CASE Activate(s)
    BY <1>1 DEF Activate, Narrows, Granted, MayBelieve, MayGiveBack, Asks, Answers,
       TokensAreMade, GivenUpForGood
  <1>2. CASE Heartbeat(s)
    <2>1. CASE active[s]
      BY <1>2, <2>1 DEF Heartbeat, Narrows, Granted, MayBelieve, MayGiveBack, Asks,
         Answers, TokensAreMade, GivenUpForGood, Renew
    <2>2. CASE ~ active[s]
      <3>1. pending[s] = None
        BY <2>2
      <3>2. /\ mine'[s] = None /\ pending'[s] = None
            /\ \A z \in Server \ {s} : UNCHANGED <<mine[z], pending[z], active[z]>>
            /\ UNCHANGED <<key, expired, issued, replies>>
            /\ mine[s] # None /\ scripts' = scripts \cup {Release(s, mine[s])}
        BY <1>2, <2>2, <3>1 DEF Heartbeat
      <3> QED BY <3>2, DropsNarrow
    <2> QED BY <2>1, <2>2
  <1>3. CASE Cleanup(s)
    <2>1. /\ mine'[s] = None /\ pending'[s] = None
          /\ \A z \in Server \ {s} : UNCHANGED <<mine[z], pending[z], active[z]>>
          /\ UNCHANGED <<key, expired, issued, replies>>
          /\ \/ scripts' = scripts
             \/ mine[s] # None /\ scripts' = scripts \cup {Release(s, mine[s])}
      BY <1>3 DEF Cleanup
    <2> QED BY <2>1, DropsNarrow
  <1>4. CASE Stop(s)
    <2>1. /\ mine'[s] = None /\ pending'[s] = None
          /\ \A z \in Server \ {s} : UNCHANGED <<mine[z], pending[z], active[z]>>
          /\ UNCHANGED <<key, expired, issued, replies, scripts>>
      BY <1>4 DEF Stop
    <2> QED BY <2>1, DropsNarrow
  <1>5. ASSUME NEW r \in replies, AcquireReply(s, r) PROVE Narrows(s)
    <2>0. /\ Answers(s, r) /\ replies' = replies \ {r}
          /\ UNCHANGED <<key, expired, active, issued>>
          /\ \A z \in Server \ {s} : UNCHANGED <<mine[z], pending[z]>>
      BY <1>5 DEF AcquireReply, Answers
    <2>1. CASE pending[s] = r.token
      <3>1. /\ pending'[s] = None /\ scripts' = scripts
            /\ mine'[s] \in {mine[s], r.result} \ {Failed}
        BY <1>5, <2>1 DEF AcquireReply
      <3>2. \A c \in scripts' : Asks(s, c)' => c \in scripts /\ Asks(s, c)
        BY <3>1 DEF Asks
      <3>3. \A t \in Token : MayBelieve(s, t)' <=> mine'[s] = t
        BY <2>0, <3>1, <3>2, NoClaims
      <3>4. \A t \in Token : mine'[s] = t => Granted(s, t) /\ MayBelieve(s, t)
        BY <2>0, <2>1, <3>1 DEF Granted, MayBelieve
      <3>5. \A q \in replies' : Answers(s, q)' =>
               Answers(s, q) /\ q \in replies /\ q.token # pending[s]
        BY <2>0, <2>1 DEF Answers, RequestsAreUnique
      <3>6. \A c \in scripts' : Asks(s, c)' => c.new # pending[s]
        BY <2>0, <2>1, <3>2 DEF RequestsAreUnique, Asks
      <3>7. \A t \in Token : MayGiveBack(s, t)' => MayGiveBack(s, t)
        BY <3>2, <3>5, <3>6 DEF MayGiveBack, Asks, Answers
      <3>8. ASSUME NEW t \in Token
            PROVE  /\ Granted(s, t)' => Granted(s, t)
                   /\ MayBelieve(s, t)' => MayBelieve(s, t) /\ ~ MayGiveBack(s, t)'
        <4>1. Granted(s, t)' => MayBelieve(s, t)'
          BY DEF MayBelieve
        <4>2. ~ (MayBelieve(s, t) /\ MayGiveBack(s, t))
          BY DEF GivenUpForGood
        <4> QED BY <3>3, <3>4, <3>7, <4>1, <4>2
      <3>9. mine'[s] # None => Made(s, mine'[s])
        <4>1. r.result \in Token \cup {None, Failed}
          BY DEF Reply
        <4> QED BY <2>0, <3>1, <4>1 DEF TokensAreMade, Answers
      <3> QED BY <2>0, <3>1, <3>8, <3>9 DEF Narrows, Answers
    <2>2. CASE pending[s] # r.token
      <3>1. /\ UNCHANGED <<mine, pending>>
            /\ \/ scripts' = scripts
               \/ /\ r.result \notin {None, Failed}
                  /\ scripts' = scripts \cup {Release(s, r.result)}
        BY <1>5, <2>2 DEF AcquireReply
      <3>2. /\ \A c : Asks(s, c)' <=> Asks(s, c)
            /\ \A q : Answers(s, q)' => Answers(s, q)
        BY <2>0, <3>1 DEF Asks, Answers, Release
      <3>3. \A t \in Token : /\ Granted(s, t)' => Granted(s, t)
                             /\ MayBelieve(s, t)' => MayBelieve(s, t)
                             /\ MayGiveBack(s, t)' => MayGiveBack(s, t)
        BY <3>1, <3>2 DEF Granted, MayBelieve, MayGiveBack, Asks, Answers
      <3>4. r.result \in Token => Made(s, r.result) /\ ~ MayBelieve(s, r.result)
        BY <2>0, <2>2 DEF MayGiveBack, GivenUpForGood, TokensAreMade, Answers
      <3>5. r.result \in Token \cup {None, Failed}
        BY DEF Reply
      <3>6. \A c \in scripts' \ scripts :
               c.op # "acquire" /\ c.s = s /\ Made(s, c.prev) /\ ~ MayBelieve(s, c.prev)'
        BY <3>1, <3>3, <3>4, <3>5 DEF Release
      <3>7. /\ \A t \in Token : /\ Granted(s, t)' => Granted(s, t)
                                /\ MayBelieve(s, t)' =>
                                     MayBelieve(s, t) /\ ~ MayGiveBack(s, t)'
            /\ mine'[s] # None => Made(s, mine'[s])
            /\ pending'[s] # None => active'[s]
            /\ pending'[s] = pending[s]
            /\ \A c \in scripts : c \in scripts'
        BY <2>0, <3>1, <3>3 DEF GivenUpForGood, TokensAreMade
      <3> QED BY <2>0, <3>1, <3>6, <3>7 DEF Narrows, Answers
    <2> QED BY <2>1, <2>2
  <1>6. ASSUME NEW r \in replies, RenewReply(s, r) PROVE Narrows(s)
    <2>1. /\ UNCHANGED <<key, expired, active, issued, pending, scripts>>
          /\ replies' = replies \ {r} /\ r.op = "renew" /\ r.s = s
          /\ mine'[s] \in {mine[s], None}
          /\ \A z \in Server \ {s} : mine'[z] = mine[z]
      BY <1>6 DEF RenewReply
    <2>2. /\ \A c : Asks(s, c)' <=> Asks(s, c)
          /\ \A q : Answers(s, q)' <=> Answers(s, q)
      BY <2>1 DEF Asks, Answers
    <2>3. \A t \in Token : /\ Granted(s, t)' => Granted(s, t)
                           /\ MayBelieve(s, t)' => MayBelieve(s, t)
                           /\ MayGiveBack(s, t)' <=> MayGiveBack(s, t)
      BY <2>1, <2>2 DEF Granted, MayBelieve, MayGiveBack, Asks, Answers
    <2>4. \A t \in Token : MayBelieve(s, t)' => MayBelieve(s, t) /\ ~ MayGiveBack(s, t)'
      BY <2>3 DEF GivenUpForGood
    <2>5. mine'[s] # None => Made(s, mine'[s])
      BY <2>1 DEF TokensAreMade
    <2> QED BY <2>1, <2>3, <2>4, <2>5 DEF Narrows
  <1> QED BY <1>1, <1>2, <1>3, <1>4, <1>5, <1>6

\* A new request asks for a token that is nowhere yet.
LEMMA RequestTracks ==
    ASSUME TypeOK, ScriptsNameTokens, Tracked, WorkerDisabled,
           NEW s \in Server, TryAcquire(s)
    PROVE  Tracked'
  <1> USE DEF Tracked, TypeOK
  <1>0. PICK new \in Token : new = NewToken(s)
    BY NewTokenType
  <1> DEFINE c == Acquire(s, mine[s], new, TRUE)
  <1>1. /\ pending[s] = None /\ active[s] /\ issued' = issued + 1
        /\ pending' = [pending EXCEPT ![s] = new]
        /\ scripts' = scripts \cup {c}
        /\ UNCHANGED <<key, expired, active, mine, replies>>
    BY <1>0 DEF TryAcquire
  <1>2. /\ c.op = "acquire" /\ c.s = s /\ c.heard /\ c.prev = mine[s] /\ c.new = new
    BY DEF Acquire
  <1>3. /\ new \in Token /\ new # None /\ ~ Made(s, new) /\ Made(s, new)'
    BY <1>0, <1>1, NewTokenType DEF Made
  <1> HIDE DEF c
  <1>4. \A z, t : Made(z, t) => Made(z, t)'
    BY <1>1 DEF Made, Token
  <1>5. /\ \A z, d : Asks(z, d)' <=> Asks(z, d) \/ (z = s /\ d = c)
        /\ \A z, r : Answers(z, r)' <=> Answers(z, r)
    BY <1>1, <1>2 DEF Asks, Answers
  <1>6. /\ \A d : Asks(s, d) => d.new # new /\ d.prev # new
        /\ \A r : Answers(s, r) => r.token # new /\ r.result # new
    BY <1>3 DEF Asks, Answers, TokensAreMade
  <1>7. TokensAreMade'
    <2>1. \A z \in Server : mine'[z] # None => Made(z, mine[z])'
      BY <1>1, <1>4 DEF TokensAreMade
    <2>2. \A z \in Server : pending'[z] # None => Made(z, pending[z])'
      BY <1>1, <1>3, <1>4 DEF TokensAreMade
    <2>3. \A d \in scripts' :
             /\ d.prev # None => Made(d.s, d.prev)'
             /\ d.op = "acquire" => Made(d.s, d.new)'
             /\ d.op # "acquire" => d.prev # None
      BY <1>1, <1>2, <1>3, <1>4 DEF TokensAreMade
    <2>4. \A r \in replies' :
             /\ Made(r.s, r.token)'
             /\ r.op = "acquire" /\ r.result \in Token => Made(r.s, r.result)'
      BY <1>1, <1>4 DEF TokensAreMade
    <2> QED BY <2>1, <2>2, <2>3, <2>4 DEF TokensAreMade
  <1>8. RequestsAreUnique'
    <2>1. ASSUME NEW z \in Server, NEW d, NEW e, Asks(z, d)', Asks(z, e)', d.new = e.new
          PROVE  d = e
      <3>1. (Asks(z, d) \/ (z = s /\ d = c)) /\ (Asks(z, e) \/ (z = s /\ e = c))
        BY <1>5, <2>1
      <3>2. Asks(z, d) /\ Asks(z, e) => d = e
        BY <2>1 DEF RequestsAreUnique, Asks
      <3>3. Asks(s, d) /\ z = s => d.new # c.new
        BY <1>2, <1>6
      <3>4. Asks(s, e) /\ z = s => e.new # c.new
        BY <1>2, <1>6
      <3> QED BY <2>1, <3>1, <3>2, <3>3, <3>4
    <2>2. \A z \in Server : \A q, r : Answers(z, q)' /\ Answers(z, r)'
             /\ q.token = r.token => q = r
      BY <1>5 DEF RequestsAreUnique, Answers
    <2>3. \A z \in Server : \A d, r : Asks(z, d)' /\ Answers(z, r)' => d.new # r.token
      <3>1. \A z \in Server : \A d, r : Asks(z, d) /\ Answers(z, r) => d.new # r.token
        BY DEF RequestsAreUnique, Asks, Answers
      <3> QED BY <1>2, <1>5, <1>6, <3>1
    <2> QED BY <2>1, <2>2, <2>3 DEF RequestsAreUnique
  <1>9. \A z \in Server \ {s}, t \in Token :
          /\ Granted(z, t)' => Granted(z, t)
          /\ MayBelieve(z, t)' => MayBelieve(z, t)
          /\ MayGiveBack(z, t)' => MayGiveBack(z, t)
    BY <1>1, <1>5 DEF Granted, MayBelieve, MayGiveBack, Asks, Answers
  <1>10. \A t \in Token :
          /\ Granted(s, t)' => mine[s] = t
          /\ MayBelieve(s, t)' => mine[s] = t \/ t = new
          /\ MayGiveBack(s, t)' => MayGiveBack(s, t) /\ t # new
    <2>1. pending'[s] = new
      BY <1>1
    <2>2. \A t : Granted(s, t)' => mine[s] = t
      BY <1>1, <1>5, <1>6, <2>1 DEF Granted, Answers
    <2>3. \A t : MayBelieve(s, t)' => mine[s] = t \/ t = new
      BY <1>2, <1>5, <1>6, <2>1, <2>2 DEF MayBelieve, Asks
    <2>4. \A r \in replies : Answers(s, r) => r.token # pending[s]
      BY <1>1 DEF TokensAreMade, Made, Answers
    <2>5. \A d \in scripts : Asks(s, d) => d.new # pending[s]
      BY <1>1 DEF TokensAreMade, Made, Asks
    <2>6. ASSUME NEW t \in Token, MayGiveBack(s, t)' PROVE MayGiveBack(s, t) /\ t # new
      <3>1. \/ \E r \in replies : Answers(s, r) /\ r.result = t
            \/ \E d \in scripts : Asks(s, d) /\ t \in {d.prev, d.new}
        BY <1>1, <1>2, <1>5, <2>1, <2>6 DEF MayGiveBack, Asks, Answers
      <3> QED BY <1>6, <2>4, <2>5, <3>1 DEF MayGiveBack
    <2> QED BY <2>2, <2>3, <2>6
  <1>11. GivenUpForGood'
    <2>1. ASSUME NEW z \in Server, NEW t \in Token
          PROVE  ~ (MayBelieve(z, t)' /\ MayGiveBack(z, t)')
      BY <1>9, <1>10 DEF GivenUpForGood, MayBelieve, Granted
    <2>2. ASSUME NEW d \in scripts', d.op = "release" PROVE ~ MayBelieve(d.s, d.prev)'
      <3>1. d \in scripts /\ d.s \in Server /\ d.prev \in Token /\ Made(d.s, d.prev)
        BY <1>1, <1>2, <2>2 DEF Script, ScriptsNameTokens, NamesToken, TokensAreMade
      <3>2. ~ MayBelieve(d.s, d.prev)
        BY <2>2, <3>1 DEF GivenUpForGood
      <3> QED BY <1>3, <1>9, <1>10, <3>1, <3>2 DEF MayBelieve, Granted
    <2> QED BY <2>1, <2>2 DEF GivenUpForGood
  <1>12. GrantsAreTrue'
    BY <1>1, <1>9, <1>10 DEF GrantsAreTrue, Granted
  <1>13. \A z \in Server : pending'[z] # None => active'[z]
    BY <1>1
  <1> QED BY <1>7, <1>8, <1>11, <1>12, <1>13

-----------------------------------------------------------------------------
(* The theorems.                                                           *)

LEMMA ExpireTracks ==
    ASSUME TypeOK, Tracked, Expire
    PROVE  Tracked'
  <1>1. /\ key' = None /\ expired' = expired \cup {key}
        /\ UNCHANGED <<issued, active, mine, pending, scripts, replies>>
    BY DEF Expire, serverVars
  <1> QED BY <1>1 DEF Tracked, TokensAreMade, RequestsAreUnique, GivenUpForGood,
             GrantsAreTrue, Made, Asks, Answers, Granted, MayBelieve, MayGiveBack

LEMMA InitInv == Init => TypeOK /\ ScriptsNameTokens /\ Inv
  <1> SUFFICES ASSUME Init PROVE TypeOK /\ ScriptsNameTokens /\ Inv
    OBVIOUS
  <1>1. TypeOK /\ ScriptsNameTokens
    BY DEF Init, TypeOK, ScriptsNameTokens
  <1>2. /\ \A s \in Server : mine[s] = None /\ pending[s] = None
        /\ scripts = {} /\ replies = {}
    BY DEF Init
  <1>3. \A s \in Server, t \in Token : ~ MayBelieve(s, t) /\ ~ Granted(s, t)
    BY <1>2 DEF MayBelieve, Granted, Asks, Answers
  <1>4. Tracked
    BY <1>2, <1>3 DEF Tracked, TokensAreMade, RequestsAreUnique, GivenUpForGood,
       GrantsAreTrue
  <1> QED BY <1>1, <1>4 DEF Inv

LEMMA InvStep ==
    ASSUME TypeOK, ScriptsNameTokens, Inv, [Next]_vars
    PROVE  Inv'
  <1> SUFFICES ASSUME WorkerDisabled PROVE Tracked'
    BY DEF Inv
  <1>0. Tracked
    BY DEF Inv
  <1>1. CASE UNCHANGED vars
    BY <1>0, <1>1 DEF vars, serverVars, Tracked, TokensAreMade, RequestsAreUnique,
       GivenUpForGood, GrantsAreTrue, Made, Asks, Answers, Granted, MayBelieve,
       MayGiveBack
  <1>2. ASSUME NEW c \in scripts, Execute(c) \/ Disconnect(c) \/ Discard(c)
        PROVE  Tracked'
    <2>1. Moves(c)
      BY <1>2, ScriptMoves
    <2>2. GrantsAreTrue'
      BY <1>0, <1>2, ExecuteGrants, DisconnectGrants
    <2> QED BY <1>0, <2>1, <2>2, MovesTrack DEF Tracked
  <1>3. CASE Expire
    BY <1>0, <1>3, ExpireTracks
  <1>4. ASSUME NEW s \in Server, TryAcquire(s) PROVE Tracked'
    BY <1>0, <1>4, RequestTracks
  <1>5. ASSUME NEW s \in Server,
               \/ Activate(s) \/ Heartbeat(s) \/ Cleanup(s) \/ Stop(s)
               \/ \E r \in replies : AcquireReply(s, r) \/ RenewReply(s, r)
        PROVE  Tracked'
    BY <1>0, <1>5, ServerNarrows, NarrowsTrack
  <1> QED BY <1>1, <1>2, <1>3, <1>4, <1>5 DEF Next

\* The types and the invariant of what each server may believe and give back
\* hold, for any servers and in any order of scripts, replies and expiry.
THEOREM LeaseInvariance == Spec => [](TypeOK /\ Inv)
  <1>1. Init => TypeOK /\ ScriptsNameTokens /\ Inv
    BY InitInv
  <1>2. TypeOK /\ ScriptsNameTokens /\ Inv /\ [Next]_vars =>
           (TypeOK /\ ScriptsNameTokens /\ Inv)'
    BY TypeStep, InvStep
  <1> QED BY <1>1, <1>2, PTL DEF Spec

\* A server believes it holds the lease only while it does, or after the lease
\* ran out: no late script or reply of any acquisition takes it away
\* (y-socket-io.js 968-969).
THEOREM BeliefsAreTrue == Spec => []BeliefIsTrue
  <1>1. TypeOK /\ Inv => BeliefIsTrue
    BY DEF TypeOK, Inv, Tracked, GrantsAreTrue, Granted, BeliefIsTrue
  <1> QED BY <1>1, LeaseInvariance, PTL

-----------------------------------------------------------------------------
(* Accounts, as long as no connection breaks.                              *)

\* A token that has been granted, answered or refused is not asked for again.
Used(t) ==
    \/ key = t
    \/ \E s \in Server : mine[s] = t
    \/ \E c \in scripts : c.prev = t
    \/ \E r \in replies : t \in {r.token, r.result}

NoneIsAskedAgain ==
    \A c \in scripts : c.op = "acquire" =>
        /\ c.heard /\ c.new[1] = c.s /\ c.new[2] <= issued
        /\ ~ Used(c.new)
        /\ \A d \in scripts : d.op = "acquire" /\ d.new = c.new => c = d

UsedAreOld == \A t \in Token : Used(t) => t[2] <= issued

\* A request is sent with what the server believes in, and until it is
\* answered the server learns of nothing else.
RequestsKeepBelief ==
    \A c \in scripts : c.op = "acquire" /\ c.new = pending[c.s] =>
        mine[c.s] \in {None, c.prev}

\* What an answer denies the key does not become again.
DenialsStay ==
    \A r \in replies :
        /\ r.op = "renew" /\ r.result = None => key # r.token
        /\ /\ r.op = "acquire" /\ r.token = pending[r.s]
           /\ mine[r.s] # None /\ r.result # mine[r.s]
           => key # mine[r.s]

Accounts ==
    /\ NoneIsAskedAgain /\ UsedAreOld /\ RequestsKeepBelief
    /\ DenialsStay /\ LeaseIsAccountedFor

Calm == breaks = 0 => Accounts

\* A step that uses no other tokens and asks for nothing.
AsksNothing ==
    /\ issued' = issued
    /\ \A t \in Token : Used(t)' => Used(t)
    /\ \A c \in scripts' : c.op = "acquire" => c \in scripts

LEMMA AsksNothingStep ==
    ASSUME TypeOK, ScriptsNameTokens, NoneIsAskedAgain, UsedAreOld, AsksNothing
    PROVE  NoneIsAskedAgain' /\ UsedAreOld'
  BY DEF NoneIsAskedAgain, UsedAreOld, AsksNothing, ScriptsNameTokens, NamesToken

LEMMA ExecuteAccounts ==
    ASSUME TypeOK, ScriptsNameTokens, Accounts, NEW c \in scripts, Execute(c)
    PROVE  Accounts'
  <1> USE DEF Accounts
  <1>0. /\ c \in Script /\ NamesToken(c)
        /\ key' = KeyAfter(c) /\ scripts' = scripts \ {c}
        /\ replies' = IF c.heard THEN replies \cup {ReplyTo(c, ResultOf(c))} ELSE replies
        /\ UNCHANGED <<alive, issued, mine, pending>>
    BY DEF TypeOK, ScriptsNameTokens, Execute, serverVars
  <1>1. /\ ReplyTo(c, ResultOf(c)).op = c.op /\ ReplyTo(c, ResultOf(c)).s = c.s
        /\ ReplyTo(c, ResultOf(c)).result = ResultOf(c)
        /\ ReplyTo(c, ResultOf(c)).token = IF c.op = "acquire" THEN c.new ELSE c.prev
    BY DEF ReplyTo
  <1> DEFINE answer == ReplyTo(c, ResultOf(c))
  <1> HIDE DEF answer
  <1>2. /\ answer.op = c.op /\ answer.s = c.s /\ answer.result = ResultOf(c)
        /\ answer.token = IF c.op = "acquire" THEN c.new ELSE c.prev
        /\ replies' = IF c.heard THEN replies \cup {answer} ELSE replies
    BY <1>0, <1>1 DEF answer
  <1>3. CASE c.op = "acquire"
    <2>1. /\ c.heard /\ c.new[1] = c.s /\ c.new[2] <= issued /\ ~ Used(c.new)
          /\ \A d \in scripts : d.op = "acquire" /\ d.new = c.new => c = d
          /\ c.new \in Token /\ c.s \in Server /\ c.prev # c.new
      BY <1>0, <1>3 DEF NoneIsAskedAgain, Used, NamesToken, Script
    <2>2. key' = IF key = None THEN c.new ELSE key
      BY <1>0, <1>3, KeyAndResult
    <2>3. \/ key = None /\ ResultOf(c) = c.new
          \/ key # None /\ key = c.prev /\ ResultOf(c) = c.prev
          \/ key # None /\ key # c.prev /\ ResultOf(c) = None
      <3>1. CASE key = None
        BY <1>3, <3>1, Zenon DEF ResultOf
      <3>2. CASE key # None /\ key = c.prev
        BY <1>3, <3>2, Zenon DEF ResultOf
      <3>3. CASE key # None /\ key # c.prev
        BY <1>3, <3>3, Zenon DEF ResultOf
      <3> QED BY <3>1, <3>2, <3>3
    <2>4. \A t \in Token : Used(t)' => Used(t) \/ t = c.new
      BY <1>0, <1>2, <1>3, <2>1, <2>2, <2>3 DEF Used
    <2>5. NoneIsAskedAgain'
      BY <1>0, <2>1, <2>4 DEF NoneIsAskedAgain, ScriptsNameTokens, NamesToken
    <2>6. UsedAreOld'
      BY <1>0, <2>1, <2>4 DEF UsedAreOld
    <2>7. RequestsKeepBelief'
      BY <1>0 DEF RequestsKeepBelief
    <2>8. DenialsStay'
      <3>1. ASSUME NEW r \in replies', r.op = "renew", r.result = None
            PROVE  key' # r.token
        <4>1. r \in replies
          BY <1>2, <1>3, <3>1
        <4>2. key # r.token /\ r.token # c.new
          BY <2>1, <3>1, <4>1 DEF DenialsStay, Used
        <4> QED BY <2>2, <4>2
      <3>2. ASSUME NEW r \in replies', r.op = "acquire", r.token = pending[r.s],
                   mine[r.s] # None, r.result # mine[r.s], r.s \in Server
            PROVE  key' # mine[r.s]
        <4>1. mine[r.s] # c.new
          BY <2>1, <3>2 DEF Used
        <4>2. CASE r \in replies
          BY <2>2, <3>2, <4>1, <4>2 DEF DenialsStay
        <4>3. CASE r = answer
          <5>1. mine[c.s] = c.prev
            BY <1>2, <1>3, <3>2, <4>3 DEF RequestsKeepBelief
          <5> QED BY <1>2, <2>2, <2>3, <3>2, <4>1, <4>3, <5>1
        <4> QED BY <1>2, <4>2, <4>3
      <3>3. \A r \in replies' : r.s \in Server
        BY <1>2, <2>1 DEF TypeOK, Reply
      <3> QED BY <1>0, <3>1, <3>2, <3>3 DEF DenialsStay
    <2>9. LeaseIsAccountedFor'
      <3> SUFFICES ASSUME NEW s \in Server, alive[s], key' # None, key'[1] = s, breaks = 0
                   PROVE  \/ mine[s] = key'
                          \/ \E r \in replies' : r.s = s /\ r.op = "acquire" /\ r.result = key'
                          \/ Release(s, key') \in scripts'
        BY <1>0 DEF LeaseIsAccountedFor, Execute
      <3>1. CASE key = None
        BY <1>2, <1>3, <2>1, <2>2, <2>3, <3>1
      <3>2. CASE key # None
        <4>1. Release(s, key) # c
          BY <1>3 DEF Release
        <4> QED BY <1>0, <1>2, <2>1, <2>2, <3>2, <4>1 DEF LeaseIsAccountedFor
      <3> QED BY <3>1, <3>2
    <2> QED BY <2>5, <2>6, <2>7, <2>8, <2>9
  <1>4. CASE c.op # "acquire"
    <2>1. c.op \in {"renew", "release"} /\ c.prev \in Token /\ c.s \in Server
      BY <1>0, <1>4 DEF Script, NamesToken
    <2>2. key' = key \/ key' = None
      BY <1>0, <2>1, KeyAndResult
    <2>3. ResultOf(c) = IF key = c.prev THEN c.prev ELSE None
      BY <1>4, <2>1, Zenon DEF ResultOf
    <2>4. AsksNothing
      BY <1>0, <1>2, <1>4, <2>1, <2>2, <2>3 DEF AsksNothing, Used
    <2>5. NoneIsAskedAgain' /\ UsedAreOld'
      BY <2>4, AsksNothingStep
    <2>6. RequestsKeepBelief'
      BY <1>0 DEF RequestsKeepBelief
    <2>7. DenialsStay'
      <3>1. ASSUME NEW r \in replies', r.op = "renew", r.result = None
            PROVE  key' # r.token
        <4>1. r.token \in Token /\ key # r.token
          <5>1. CASE r \in replies
            BY <3>1, <5>1 DEF DenialsStay, TypeOK, Reply
          <5>2. CASE r = answer
            BY <1>2, <1>4, <2>1, <2>3, <3>1, <5>2
          <5> QED BY <1>2, <5>1, <5>2
        <4> QED BY <2>2, <4>1
      <3>2. ASSUME NEW r \in replies', r.op = "acquire" PROVE r \in replies
        BY <1>2, <1>4, <3>2
      <3> QED BY <1>0, <2>2, <3>1, <3>2 DEF DenialsStay
    <2>8. LeaseIsAccountedFor'
      <3> SUFFICES ASSUME NEW s \in Server, alive[s], key' # None, key'[1] = s, breaks = 0
                   PROVE  \/ mine[s] = key'
                          \/ \E r \in replies' : r.s = s /\ r.op = "acquire" /\ r.result = key'
                          \/ Release(s, key') \in scripts'
        BY <1>0 DEF LeaseIsAccountedFor, Execute
      <3>1. key' = key /\ ~ (c.op = "release" /\ c.prev = key)
        BY <1>0, <2>1, <2>2, KeyAndResult
      <3>2. Release(s, key) # c
        BY <3>1 DEF Release
      <3> QED BY <1>0, <1>2, <3>1, <3>2 DEF LeaseIsAccountedFor
    <2> QED BY <2>5, <2>6, <2>7, <2>8
  <1> QED BY <1>3, <1>4

LEMMA RequestAccounts ==
    ASSUME TypeOK, ScriptsNameTokens, Accounts, NEW s \in Server, TryAcquire(s)
    PROVE  Accounts'
  <1> USE DEF Accounts
  <1> DEFINE c == Acquire(s, mine[s], NewToken(s), TRUE)
  <1>1. /\ pending[s] = None /\ issued' = issued + 1 /\ issued \in Nat
        /\ pending' = [pending EXCEPT ![s] = NewToken(s)] /\ pending'[s] = NewToken(s)
        /\ \A q \in Server \ {s} : pending'[q] = pending[q]
        /\ scripts' = scripts \cup {c}
        /\ UNCHANGED <<key, alive, mine, replies, breaks>>
    BY DEF TryAcquire, TypeOK
  <1>2. /\ c.op = "acquire" /\ c.s = s /\ c.prev = mine[s] /\ c.new = NewToken(s) /\ c.heard
    BY DEF Acquire
  <1>3. NewToken(s) \in Token /\ NewToken(s)[1] = s /\ NewToken(s)[2] = issued + 1
    BY NewTokenType
  <1> HIDE DEF c
  <1>4. ~ Used(NewToken(s))
    BY <1>1, <1>3 DEF UsedAreOld
  <1>5. \A t \in Token : Used(t)' => Used(t)
    BY <1>1, <1>2 DEF Used
  <1>6. \A d \in scripts : d.op = "acquire" => d.new # NewToken(s) /\ d.new \in Token
                                               /\ d.new[2] \in Nat
    BY <1>1, <1>3 DEF NoneIsAskedAgain, ScriptsNameTokens, NamesToken, Token
  <1>7. NoneIsAskedAgain'
    BY <1>1, <1>2, <1>3, <1>4, <1>5, <1>6 DEF NoneIsAskedAgain
  <1>8. UsedAreOld'
    BY <1>1, <1>5 DEF UsedAreOld, Token
  <1>9. RequestsKeepBelief'
    <2>1. \A d \in scripts : d.s \in Server
      BY DEF TypeOK, Script
    <2> QED BY <1>1, <1>2, <1>6, <2>1 DEF RequestsKeepBelief
  <1>10. DenialsStay'
    <2>1. \A r \in replies : r.s \in Server /\ r.token # NewToken(s)
      BY <1>4 DEF TypeOK, Reply, Used
    <2> QED BY <1>1, <2>1 DEF DenialsStay
  <1>11. LeaseIsAccountedFor'
    BY <1>1 DEF LeaseIsAccountedFor
  <1> QED BY <1>7, <1>8, <1>9, <1>10, <1>11

LEMMA ReplyAccounts ==
    ASSUME TypeOK, ScriptsNameTokens, Accounts, NEW s \in Server, NEW r \in replies,
           AcquireReply(s, r)
    PROVE  Accounts'
  <1> USE DEF Accounts
  <1>1. /\ r \in Reply /\ r.op = "acquire" /\ r.s = s /\ replies' = replies \ {r}
        /\ r.token \in Token /\ r.result \in Token \cup {None, Failed}
        /\ UNCHANGED <<key, alive, issued, breaks>>
    BY DEF AcquireReply, TypeOK, Reply
  <1>2. mine \in [Server -> Token \cup {None}] /\ pending \in [Server -> Token \cup {None}]
    BY DEF TypeOK
  <1>3. CASE pending[s] = r.token
    <2>1. /\ scripts' = scripts /\ pending'[s] = None
          /\ mine'[s] = IF r.result = Failed THEN mine[s] ELSE r.result
          /\ \A q \in Server \ {s} : mine'[q] = mine[q] /\ pending'[q] = pending[q]
      BY <1>1, <1>2, <1>3 DEF AcquireReply
    <2>2. AsksNothing
      BY <1>1, <2>1 DEF AsksNothing, Used
    <2>3. NoneIsAskedAgain' /\ UsedAreOld'
      BY <2>2, AsksNothingStep
    <2>4. RequestsKeepBelief'
      <3>1. \A c \in scripts : c.s \in Server /\ (c.op = "acquire" => c.new # None)
        BY DEF TypeOK, Script, ScriptsNameTokens, NamesToken
      <3> QED BY <2>1, <3>1 DEF RequestsKeepBelief
    <2>5. DenialsStay'
      <3>1. \A q \in replies : q.s \in Server /\ q.token # None
        BY DEF TypeOK, Reply
      <3> QED BY <1>1, <2>1, <3>1 DEF DenialsStay
    <2>6. LeaseIsAccountedFor'
      <3> SUFFICES ASSUME NEW q \in Server, alive[q], key # None, key[1] = q, breaks = 0
                   PROVE  \/ mine'[q] = key
                          \/ \E p \in replies' : p.s = q /\ p.op = "acquire" /\ p.result = key
                          \/ Release(q, key) \in scripts'
        BY <1>1 DEF LeaseIsAccountedFor
      <3>1. CASE q # s
        BY <1>1, <2>1, <3>1 DEF LeaseIsAccountedFor
      <3>2. CASE q = s
        <4>1. CASE mine[s] = key
          BY <1>1, <1>3, <2>1, <3>2, <4>1 DEF DenialsStay
        <4>2. CASE \E p \in replies : p.s = s /\ p.op = "acquire" /\ p.result = key
          <5>1. key \in Token
            BY DEF TypeOK
          <5> QED BY <1>1, <2>1, <3>2, <4>2, <5>1
        <4>3. CASE Release(s, key) \in scripts
          BY <2>1, <3>2, <4>3
        <4> QED BY <3>2, <4>1, <4>2, <4>3 DEF LeaseIsAccountedFor
      <3> QED BY <3>1, <3>2
    <2> QED BY <2>3, <2>4, <2>5, <2>6
  <1>4. CASE pending[s] # r.token
    <2>1. /\ UNCHANGED <<mine, pending>>
          /\ \/ scripts' = scripts /\ r.result \in {None, Failed}
             \/ scripts' = scripts \cup {Release(s, r.result)} /\ r.result \in Token
      BY <1>1, <1>4 DEF AcquireReply
    <2>2. Release(s, r.result).op = "release" /\ Release(s, r.result).prev = r.result
      BY DEF Release
    <2>3. AsksNothing
      BY <1>1, <2>1, <2>2 DEF AsksNothing, Used
    <2>4. NoneIsAskedAgain' /\ UsedAreOld'
      BY <2>3, AsksNothingStep
    <2>5. RequestsKeepBelief' /\ DenialsStay'
      BY <1>1, <2>1, <2>2 DEF RequestsKeepBelief, DenialsStay
    <2>6. LeaseIsAccountedFor'
      <3>1. key \in Token \cup {None}
        BY DEF TypeOK
      <3> QED BY <1>1, <2>1, <3>1 DEF LeaseIsAccountedFor
    <2> QED BY <2>4, <2>5, <2>6
  <1> QED BY <1>3, <1>4

\* A server that stops believing in a token has been denied it, gives it back,
\* or is no more.
Resigns(s) ==
    /\ UNCHANGED <<key, issued, breaks>>
    /\ replies' \subseteq replies
    /\ \A r \in replies : r.op = "acquire" => r \in replies'
    /\ scripts \subseteq scripts'
    /\ \A c \in scripts' : c \in scripts \/ (c.op # "acquire" /\ c.prev = mine[s])
    /\ \A q \in Server \ {s} : UNCHANGED <<alive[q], mine[q], pending[q]>>
    /\ alive'[s] => alive[s]
    /\ mine'[s] \in {mine[s], None} /\ pending'[s] \in {pending[s], None}
    /\ \/ mine'[s] = mine[s]
       \/ Release(s, mine[s]) \in scripts'
       \/ ~ alive'[s]
       \/ key # mine[s]

LEMMA ServerResigns ==
    ASSUME TypeOK, Accounts, NEW s \in Server,
           \/ Activate(s) \/ Heartbeat(s) \/ Cleanup(s) \/ Stop(s)
           \/ \E r \in replies : RenewReply(s, r)
    PROVE  Resigns(s)
  <1> USE DEF Accounts, Resigns
  <1>1. /\ mine \in [Server -> Token \cup {None}] /\ pending \in [Server -> Token \cup {None}]
        /\ alive \in [Server -> BOOLEAN]
    BY DEF TypeOK
  <1>2. CASE Activate(s)
    BY <1>2 DEF Activate
  <1>3. CASE Heartbeat(s)
    <2>1. /\ Renew(s, mine[s], TRUE).op = "renew" /\ Renew(s, mine[s], TRUE).prev = mine[s]
          /\ Release(s, mine[s]).op = "release" /\ Release(s, mine[s]).prev = mine[s]
      BY DEF Renew, Release
    <2>2. /\ UNCHANGED <<key, issued, breaks, replies, alive, pending>>
          /\ \/ UNCHANGED mine /\ scripts' = scripts \cup {Renew(s, mine[s], TRUE)}
             \/ /\ mine' = [mine EXCEPT ![s] = None]
                /\ scripts' = scripts \cup {Release(s, mine[s])}
      BY <1>3 DEF Heartbeat
    <2> QED BY <1>1, <2>1, <2>2
  <1>4. CASE Cleanup(s)
    <2>1. Release(s, mine[s]).op = "release" /\ Release(s, mine[s]).prev = mine[s]
      BY DEF Release
    <2>2. /\ UNCHANGED <<key, issued, breaks, replies, alive>>
          /\ pending' = [pending EXCEPT ![s] = None] /\ mine' = [mine EXCEPT ![s] = None]
          /\ scripts' = IF mine[s] = None THEN scripts ELSE scripts \cup {Release(s, mine[s])}
      BY <1>4 DEF Cleanup
    <2> QED BY <1>1, <2>1, <2>2
  <1>5. CASE Stop(s)
    BY <1>1, <1>5 DEF Stop
  <1>6. ASSUME NEW r \in replies, RenewReply(s, r) PROVE Resigns(s)
    <2>1. /\ r.op = "renew" /\ replies' = replies \ {r}
          /\ UNCHANGED <<key, issued, breaks, scripts, alive, pending>>
          /\ mine' = [mine EXCEPT ![s] = IF r.result = None /\ @ = r.token THEN None ELSE @]
      BY <1>6 DEF RenewReply
    <2>2. r.result = None => key # r.token
      BY <2>1 DEF DenialsStay
    <2> QED BY <1>1, <2>1, <2>2
  <1> QED BY <1>2, <1>3, <1>4, <1>5, <1>6

LEMMA ResigningAccounts ==
    ASSUME TypeOK, ScriptsNameTokens, Accounts, NEW s \in Server, Resigns(s)
    PROVE  Accounts'
  <1> USE DEF Accounts, Resigns
  <1>1. AsksNothing
    BY DEF AsksNothing, Used
  <1>2. NoneIsAskedAgain' /\ UsedAreOld'
    BY <1>1, AsksNothingStep
  <1>3. RequestsKeepBelief'
    <2>1. \A c \in scripts' : c.op = "acquire" =>
            c \in scripts /\ c.s \in Server /\ c.new # None
      BY DEF TypeOK, Script, ScriptsNameTokens, NamesToken
    <2> QED BY <2>1 DEF RequestsKeepBelief
  <1>4. DenialsStay'
    <2>1. \A r \in replies' : r \in replies /\ r.s \in Server /\ r.token # None
      BY DEF TypeOK, Reply
    <2> QED BY <2>1 DEF DenialsStay
  <1>5. LeaseIsAccountedFor'
    <2> SUFFICES ASSUME NEW q \in Server, alive'[q], key # None, key[1] = q, breaks = 0
                 PROVE  \/ mine'[q] = key
                        \/ \E p \in replies' : p.s = q /\ p.op = "acquire" /\ p.result = key
                        \/ Release(q, key) \in scripts'
      BY DEF LeaseIsAccountedFor
    <2>1. alive[q] /\ (mine[q] = key => mine'[q] = key \/ Release(q, key) \in scripts')
      OBVIOUS
    <2> QED BY <2>1 DEF LeaseIsAccountedFor
  <1> QED BY <1>2, <1>3, <1>4, <1>5

LEMMA CalmStep ==
    ASSUME TypeOK, ScriptsNameTokens, Calm, [Next]_vars
    PROVE  Calm'
  <1>1. ASSUME NEW c \in scripts, Execute(c) PROVE Calm'
    BY <1>1, ExecuteAccounts DEF Calm, Execute
  <1>2. ASSUME NEW c \in scripts, Disconnect(c) \/ Discard(c) PROVE Calm'
    BY <1>2 DEF Calm, Disconnect, Discard, TypeOK
  <1>3. CASE Expire
    <2>1. key' = None /\ UNCHANGED <<breaks, issued, alive, mine, pending, scripts, replies>>
      BY <1>3 DEF Expire, serverVars
    <2>2. \A t \in Token : Used(t)' => Used(t)
      BY <2>1 DEF Used
    <2>3. Accounts => AsksNothing
      BY <2>1, <2>2 DEF AsksNothing
    <2>4. \A r \in replies : r.token # None
      BY DEF TypeOK, Reply
    <2> QED BY <2>1, <2>3, <2>4, AsksNothingStep
            DEF Calm, Accounts, RequestsKeepBelief, DenialsStay, LeaseIsAccountedFor
  <1>4. ASSUME NEW s \in Server, TryAcquire(s) PROVE Calm'
    BY <1>4, RequestAccounts DEF Calm, TryAcquire
  <1>5. ASSUME NEW s \in Server, NEW r \in replies, AcquireReply(s, r) PROVE Calm'
    BY <1>5, ReplyAccounts DEF Calm, AcquireReply
  <1>6. ASSUME NEW s \in Server,
               \/ Activate(s) \/ Heartbeat(s) \/ Cleanup(s) \/ Stop(s)
               \/ \E r \in replies : RenewReply(s, r)
        PROVE  Calm'
    <2>1. breaks' = breaks
      BY <1>6 DEF Activate, Heartbeat, Cleanup, Stop, RenewReply
    <2> QED BY <1>6, <2>1, ServerResigns, ResigningAccounts DEF Calm
  <1>7. CASE UNCHANGED vars
    BY <1>7 DEF vars, serverVars, Calm, Accounts, NoneIsAskedAgain, UsedAreOld, Used,
       RequestsKeepBelief, DenialsStay, LeaseIsAccountedFor
  <1> QED BY <1>1, <1>2, <1>3, <1>4, <1>5, <1>6, <1>7 DEF Next

\* Until a connection breaks, a lease of a running server is believed in, or
\* about to be learned of, or on its way back, whatever cleanups, renewals
\* and late replies do (y-socket-io.js 984-988).
THEOREM LeasesAreAccountedFor == Spec => []LeaseIsAccountedFor
  <1>1. Init => TypeOK /\ ScriptsNameTokens /\ Calm
    <2> SUFFICES ASSUME Init PROVE TypeOK /\ ScriptsNameTokens /\ Calm
      OBVIOUS
    <2>1. TypeOK /\ ScriptsNameTokens
      BY InitInv
    <2>2. Accounts
      BY DEF Init, Accounts, NoneIsAskedAgain, UsedAreOld, Used, RequestsKeepBelief,
         DenialsStay, LeaseIsAccountedFor, Token
    <2> QED BY <2>1, <2>2 DEF Calm
  <1>2. TypeOK /\ ScriptsNameTokens /\ Calm /\ [Next]_vars =>
           (TypeOK /\ ScriptsNameTokens /\ Calm)'
    BY TypeStep, CalmStep
  <1>3. Calm => LeaseIsAccountedFor
    BY DEF Calm, Accounts, LeaseIsAccountedFor
  <1> QED BY <1>1, <1>2, <1>3, PTL DEF Spec
=============================================================================
