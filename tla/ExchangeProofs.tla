--------------------------- MODULE ExchangeProofs ---------------------------
(***************************************************************************)
(* The system of Session implements Exchange: through locks, caches and    *)
(* two session tables, with messages repeated, reordered and lost and the  *)
(* receiver restarted at any time, the operation takes the messages of a   *)
(* run in their order, each at most once while the process lives, and the  *)
(* initiator goes on only from the answer to its last one.                 *)
(*                                                                         *)
(* And its messages are refused only for a cause outside the protocol.     *)
(* Neither needs the session's lock to stay what it is: the replay cache   *)
(* bears the first, and whoever drops a lock under a waiter leaves behind  *)
(* what the second asks for.                                               *)
(***************************************************************************)
EXTENDS SessionProofs, LockProofs, WellFoundedInduction

-----------------------------------------------------------------------------
(* The last answered message.                                              *)

\* A set of messages has a last one: the distances from the bound have a
\* least element.
LEMMA LastExists ==
    ASSUME NEW S \in SUBSET (1..MaxRounds), S # {}
    PROVE  \E n \in S : \A m \in S : m <= n
  <1> DEFINE Less == { p \in Nat \X Nat : p[1] < p[2] }
             Left == { k \in Nat : MaxRounds - k \in S }
  <1>1. MaxRounds \in Nat
    BY RunAssumption
  <1>2. IsWellFoundedOn(Less, Nat)
    BY NatLessThanWellFounded DEF OpToRel
  <1>3. ASSUME NEW n \in S
        PROVE  /\ MaxRounds - n \in Left
               /\ MaxRounds - (MaxRounds - n) = n
    BY <1>1, <1>3
  <1>4. Left \subseteq Nat /\ Left # {}
    BY <1>3
  <1> HIDE DEF Less
  <1>5. PICK k \in Left : \A j \in Left : <<j, k>> \notin Less
    BY <1>2, <1>4, WFMin
  <1>6. ASSUME NEW m \in S PROVE m <= MaxRounds - k
    <2>1. MaxRounds - m \in Left /\ MaxRounds - m \in Nat /\ k \in Nat
      BY <1>3, <1>4, <1>5
    <2>2. <<MaxRounds - m, k>> \notin Less
      BY <1>5, <2>1
    <2>3. ~(MaxRounds - m < k)
      BY <2>1, <2>2 DEF Less
    <2> QED
      BY <1>1, <2>1, <2>3
  <1> QED
    BY <1>5, <1>6

\* `LastOf' is the last, or 0.
LEMMA LastOfFacts ==
    ASSUME NEW S \in SUBSET (1..MaxRounds)
    PROVE  /\ LastOf(S) \in 0..MaxRounds
           /\ \A n \in S : n <= LastOf(S)
           /\ S = {} => LastOf(S) = 0
           /\ S # {} => LastOf(S) \in S
  <1>1. MaxRounds \in Nat
    BY RunAssumption
  <1>2. CASE S = {}
    BY <1>1, <1>2 DEF LastOf
  <1>3. CASE S # {}
    <2>1. \E n \in S : \A m \in S : m <= n
      BY <1>3, LastExists
    <2>2. LastOf(S) \in S /\ \A m \in S : m <= LastOf(S)
      BY <1>3, <2>1 DEF LastOf
    <2>3. LastOf(S) \in 1..MaxRounds
      BY <2>2
    <2>4. LastOf(S) \in 0..MaxRounds
      BY <1>1, <2>3
    <2> QED
      BY <1>3, <2>2, <2>4
  <1> QED
    BY <1>2, <1>3

\* One more answered message is the last one, unless there is a later one.
LEMMA LastOfMore ==
    ASSUME NEW S \in SUBSET (1..MaxRounds), NEW n \in 1..MaxRounds
    PROVE  LastOf(S \cup {n}) = IF LastOf(S) <= n THEN n ELSE LastOf(S)
  <1> DEFINE old == LastOf(S)
             new == LastOf(S \cup {n})
  <1>1. new \in S \cup {n} /\ \A m \in S \cup {n} : m <= new
    BY LastOfFacts
  <1>2. old \in 0..MaxRounds /\ new \in 0..MaxRounds
    BY LastOfFacts
  <1>3. \A m \in S : m <= old
    BY LastOfFacts
  <1>4. S # {} => old \in S
    BY LastOfFacts
  <1>5. S = {} => old = 0
    BY LastOfFacts
  <1> HIDE DEF old, new
  <1>6. n <= new /\ n \in Nat /\ old \in Nat /\ new \in Nat
    BY <1>1, <1>2
  <1>7. old <= new
    BY <1>1, <1>4, <1>5, <1>6
  <1>8. new = n \/ new <= old
    BY <1>1, <1>3
  <1> QED
    BY <1>6, <1>7, <1>8 DEF old, new

-----------------------------------------------------------------------------
(* The inductive invariant, next to SystemInv.                             *)

\* Whatever is handled or answered has been asked.
AskedFirst ==
    /\ \A t \in Tasks : env[t] # None => Sent(env[t])
    /\ \A a \in answers : Sent(a.env)

\* Whatever the reply cache repeats has been answered.
CachedAnswered ==
    \A d \in dedupeCache : d.code = "REPLY" =>
        \E a \in answers : a.code = "REPLY" /\ RoundKey(a.env) = d.key

\* The operation's session, while there is one, counts the messages taken.
SessionsCounted ==
    \A r \in Runs : opSessions[r] # <<>> => Len(opSessions[r]) = taken[r]

\* The intent that opened a run's session is spent: the clock stands still, so
\* it is in the replay cache until the process dies.
FirstSpent == \A r \in Runs : taken[r] # 0 => SignedIntent(r, 1) \in driven

ExchangeInv ==
    /\ now = 0
    /\ AskedFirst
    /\ CachedAnswered
    /\ SessionsCounted
    /\ FirstSpent

AllInv == TypeOK /\ DrivenRecorded /\ SystemInv /\ ExchangeInv

\* What is sent is a message of its run, with a number that was asked.
LEMMA SentMessage ==
    ASSUME SystemInv, NEW r \in Runs, NEW n \in 1..MaxRounds, Sent(Message(r, n))
    PROVE  n <= run[r].asked
  <1>0. PICK u \in Runs : \E m \in 1..run[u].asked : Message(r, n) = Message(u, m)
    BY DEF Sent
  <1>1. PICK m \in 1..run[u].asked : Message(r, n) = Message(u, m)
    BY <1>0
  <1>2. run[u].asked \in 0..MaxRounds
    BY DEF SystemInv, InitiatorInv, RunType
  <1>3. m \in 1..MaxRounds /\ m <= run[u].asked
    BY <1>2, RunAssumption
  <1>4. u = r /\ m = n
    BY <1>1, <1>3, MessageFacts
  <1> QED
    BY <1>3, <1>4

-----------------------------------------------------------------------------
(* What steps do to the answered messages.                                 *)

LEMMA RepliedStays ==
    ASSUME NEW r \in Runs,
           \A a \in answers' : a \in answers \/ a.code # "REPLY",
           answers \subseteq answers'
    PROVE  Replied(r)' = Replied(r)
  BY DEF Replied

\* The answer to message n of run u is no answer to another message.
LEMMA RepliedGrows ==
    ASSUME Complete, NEW u \in Runs, NEW n \in 1..MaxRounds,
           returned' # None, returned'.env = Message(u, n), NEW r \in Runs
    PROVE  Replied(r)' = IF r = u /\ returned'.code = "REPLY"
                         THEN Replied(r) \cup {n} ELSE Replied(r)
  <1>1. answers' = answers \cup
          {[env |-> returned'.env, code |-> returned'.code, log |-> returned'.log]}
    BY DEF Complete
  <1>2. \A m \in 1..MaxRounds : Message(r, m) = Message(u, n) => r = u /\ m = n
    BY MessageFacts
  <1>3. CASE r = u /\ returned'.code = "REPLY"
    <2>1. ASSUME NEW m \in 1..MaxRounds
          PROVE  (\E a \in answers' : a.env = Message(r, m) /\ a.code = "REPLY")
                 <=> (\E a \in answers : a.env = Message(r, m) /\ a.code = "REPLY") \/ m = n
      <3> DEFINE b == [env |-> returned'.env, code |-> returned'.code, log |-> returned'.log]
      <3>1. b \in answers' /\ \A a \in answers' : a \in answers \/ a = b
        BY <1>1
      <3>2. b.env = Message(u, n) /\ b.code = "REPLY"
        BY <1>3
      <3>3. answers \subseteq answers'
        BY <1>1
      <3> HIDE DEF b
      <3> QED
        BY <1>2, <1>3, <3>1, <3>2, <3>3
    <2> QED
      BY <1>3, <2>1 DEF Replied
  <1>4. CASE ~(r = u /\ returned'.code = "REPLY")
    BY <1>1, <1>2, <1>4 DEF Replied
  <1> QED
    BY <1>3, <1>4

-----------------------------------------------------------------------------
(* What a handler's step does to the rest.                                 *)

\* It takes no time and is no restart, and what was driven stays driven.
LEMMA HandlerClock ==
    ASSUME NEW t \in Tasks, TaskStep(t) \/ Cancel(t)
    PROVE  now' = now /\ restarts' = restarts /\ driven \subseteq driven'
  <1>1. CASE Wake(t) \/ ResolvePeer(t)
             \/ \E c \in Cards : PeerVerified(t, c) \/ RefreshPeer(t, c)
    BY <1>1 DEF Wake, ResolvePeer, PeerVerified, RefreshPeer, CallResolvePeer, clockVars,
                historyVars
  <1>2. CASE ~ (Wake(t) \/ ResolvePeer(t)
                  \/ \E c \in Cards : PeerVerified(t, c) \/ RefreshPeer(t, c))
    <2>1. PICK code, log, ran : Return(t, code, log, ran)
      BY <1>2 DEF TaskStep, Cancel, DedupeHit, RefuseRound, RefuseReopening, ProcessRound,
                  ProcessFails, ProcessKeyError, EndSession, RefuseOpening, RefuseSignature,
                  ResolveRaises, RefuseIntent, RefuseIncompatible, ConfigRaises, Receive,
                  ReceiveFails, Refuse, Answer
    <2> QED
      BY <2>1 DEF Return, clockVars
  <1> QED
    BY <1>1, <1>2

\* Message n of run r is the next one, and it has been asked: within a session
\* the operation counts, and the first message opens no second session, since
\* its intent is spent.
LEMMA TakesInTurn ==
    ASSUME AllInv, NEW t \in Tasks, NEW o \in Outcomes, ProcessRound(t, o) \/ Receive(t, o),
           InOrder(t), Taken(t),
           NEW r \in Runs, NEW n \in 1..MaxRounds, env[t] = Message(r, n)
    PROVE  taken[r] + 1 = n /\ n <= run[r].asked
  <1>1. r \in Sids /\ env[t] \in Envelopes /\ env[t].sid = r /\ env[t].phase = n
    BY MessageFacts
  <1>2. n <= run[r].asked
    BY <1>1, SentMessage, NoneAssumption DEF AllInv, ExchangeInv, AskedFirst
  <1>3. CASE ProcessRound(t, o)
    <2>1. opSessions[r] # <<>> /\ StateGiven(t) = opSessions[r]
      BY <1>1, <1>3 DEF ProcessRound, AcceptRound, Round, NewRound, At, StateGiven
    <2> QED
      BY <1>1, <1>2, <2>1 DEF InOrder, AllInv, ExchangeInv, SessionsCounted
  <1>4. CASE Receive(t, o)
    <2>1. AcceptOpening(t) /\ StateGiven(t) = <<>>
      BY <1>4 DEF Receive, AcceptOpening, At, StateGiven
    <2>2. n = 1
      BY <1>1, <2>1 DEF InOrder
    <2>3. env[t].intent = SignedIntent(r, 1) /\ SignedIntent(r, 1).expiry = 1
      BY <2>2 DEF Message, SignedIntent
    <2>4. \A c \in LiveIntents : c.intent # SignedIntent(r, 1)
      <3>1. ~Replayed(SignedIntent(r, 1))
        BY <2>1, <2>3 DEF AcceptOpening, IntentRefusal, Accepted
      <3> QED
        BY <3>1 DEF Replayed
    <2>5. SignedIntent(r, 1) \notin driven
      <3>1. now = 0 /\ 1 \in now+1..LatestUtc /\ now < 1
        BY RunAssumption, BoundAssumption DEF AllInv, ExchangeInv
      <3> DEFINE i == SignedIntent(r, 1)
      <3>2. i.expiry = 1 /\ \A c \in LiveIntents : c.intent # i
        BY <2>3, <2>4
      <3> HIDE DEF i
      <3>3. i \in driven => [intent |-> i, until |-> 1] \in replayCache
        BY <3>1, <3>2 DEF AllInv, ExchangeInv, DrivenRecorded
      <3>4. [intent |-> i, until |-> 1] \in replayCache
              => [intent |-> i, until |-> 1] \in LiveIntents
        BY <3>1 DEF LiveIntents
      <3> QED
        BY <3>2, <3>3, <3>4 DEF i
    <2>6. taken[r] = 0
      BY <2>5 DEF AllInv, ExchangeInv, FirstSpent
    <2> QED
      BY <1>2, <2>2, <2>6
  <1> QED
    BY <1>3, <1>4

\* The step of a handler whose message n of run r the operation takes.
Takes(r, n) ==
    /\ taken[r] + 1 = n /\ n <= run[r].asked
    /\ taken' = [taken EXCEPT ![r] = n]
    /\ run' = run
    /\ Replied(r)' \in {Replied(r), Replied(r) \cup {n}}
    /\ \A u \in Runs \ {r} : Replied(u)' = Replied(u)

LEMMA TakingIsTake ==
    ASSUME AllInv, NEW t \in Tasks, ReceiverStep(t),
           NEW o \in Outcomes, ProcessRound(t, o) \/ Receive(t, o)
    PROVE  /\ \E r \in Runs, n \in 1..MaxRounds :
                env[t] = Message(r, n) /\ Takes(r, n) /\ AnswersWith(t, Conversation(r, n))
           /\ ExchangeInv'
  <1>1. InOrder(t) /\ Complete /\ CountTaken(t) /\ run' = run /\ (TaskStep(t) \/ Cancel(t))
    BY DEF ReceiverStep
  <1>2. PICK r \in Runs, n \in 1..MaxRounds :
               env[t] = Message(r, n) /\ AnswersWith(t, Conversation(r, n)) /\ Taken(t)
    BY <1>1, TakingStep DEF AllInv
  <1>3. r \in Sids /\ env[t] \in Envelopes /\ env[t].sid = r /\ env[t].phase = n
    BY <1>2, MessageFacts
  <1>4. taken[r] + 1 = n /\ n <= run[r].asked
    BY <1>1, <1>2, TakesInTurn
  <1>5. taken' = [taken EXCEPT ![r] = n]
    BY <1>1, <1>2, <1>3 DEF CountTaken
  <1>6. returned' # None /\ returned'.env = Message(r, n)
    BY <1>1, <1>2, OwnEnvelope DEF Taken, AllInv
  <1>7. \A u \in Runs : Replied(u)' = IF u = r /\ returned'.code = "REPLY"
                                     THEN Replied(u) \cup {n} ELSE Replied(u)
    BY <1>1, <1>6, RepliedGrows
  <1>8. Takes(r, n)
    BY <1>1, <1>4, <1>5, <1>7 DEF Takes
  <1>9. answers' = answers \cup
          {[env |-> returned'.env, code |-> returned'.code, log |-> returned'.log]}
    BY <1>1, <1>6 DEF Complete
  <1>10. now' = 0
    BY <1>1, HandlerClock DEF AllInv, ExchangeInv
  <1>11. AskedFirst'
    <2>1. env' \in {env, [env EXCEPT ![t] = None]}
      BY <1>1, OwnEnvelope DEF AllInv
    <2>2. \A u \in Tasks : env'[u] # None => Sent(env'[u])
      BY <2>1 DEF AllInv, ExchangeInv, AskedFirst, TypeOK, TaskTypes
    <2>3. \A a \in answers' : Sent(a.env)
      BY <1>2, <1>3, <1>6, <1>9, NoneAssumption DEF AllInv, ExchangeInv, AskedFirst
    <2> QED
      BY <1>1, <2>2, <2>3 DEF AskedFirst, Sent
  <1>12. CachedAnswered'
    <2> SUFFICES ASSUME NEW d \in dedupeCache', d.code = "REPLY"
                 PROVE  \E a \in answers' : a.code = "REPLY" /\ RoundKey(a.env) = d.key
      BY DEF CachedAnswered, RoundKey
    <2>1. CASE d \in dedupeCache
      BY <1>9, <2>1 DEF AllInv, ExchangeInv, CachedAnswered
    <2>2. CASE d.key = RoundKey(env[t]) /\ d.code = returned'.code
      <3> DEFINE a == [env |-> returned'.env, code |-> returned'.code, log |-> returned'.log]
      <3>1. a \in answers'
        BY <1>9
      <3>2. a.code = "REPLY" /\ a.env = env[t]
        BY <1>2, <1>6, <2>2
      <3> QED
        BY <2>2, <3>1, <3>2
    <2> QED
      BY <1>2, <2>1, <2>2 DEF AnswersWith
  <1>13. SessionsCounted'
    <2>1. \A u \in Runs : u \in Sids
      BY RunAssumption, MessageFacts
    <2>2. /\ \A u \in Runs \ {r} : opSessions'[u] = opSessions[u]
          /\ opSessions'[r] # <<>> => Len(opSessions'[r]) = n
      <3>1. CASE ProcessRound(t, o)
        <4>1. opSessions' = [opSessions EXCEPT ![r] =
                               IF o \in Finishes THEN <<>> ELSE Append(opSessions[r], env[t])]
          BY <1>3, <3>1 DEF ProcessRound, OperationProcess
        <4>2. opSessions[r] \in Seq(Envelopes) /\ opSessions[r] # <<>>
          BY <1>3, <3>1 DEF ProcessRound, AllInv, TypeOK, SessionTypes
        <4>3. Len(Append(opSessions[r], env[t])) = n
          BY <1>3, <1>4, <4>2 DEF AllInv, ExchangeInv, SessionsCounted
        <4> QED
          BY <1>3, <2>1, <4>1, <4>3 DEF AllInv, TypeOK, SessionTypes
      <3>2. CASE Receive(t, o)
        <4>1. opSessions' = [opSessions EXCEPT ![r] =
                               IF o \in Finishes THEN opSessions[r] ELSE <<env[t]>>]
          BY <1>3, <3>2 DEF Receive, OperationReceive
        <4>2. n = 1
          BY <1>1, <1>2, <1>3, <3>2
             DEF Receive, AcceptOpening, At, StateGiven, InOrder
        <4>3. taken[r] = 0
          BY <1>4, <4>2 DEF AllInv, SystemInv
        <4>4. opSessions[r] = <<>>
          BY <1>3, <4>3 DEF AllInv, ExchangeInv, SessionsCounted, TypeOK, SessionTypes
        <4>5. Len(<<env[t]>>) = 1
          OBVIOUS
        <4> QED
          BY <1>3, <2>1, <4>1, <4>2, <4>4, <4>5 DEF AllInv, TypeOK, SessionTypes
      <3> QED
        BY <3>1, <3>2
    <2> QED
      BY <1>5, <2>2 DEF AllInv, SystemInv, ExchangeInv, SessionsCounted
  <1>14. FirstSpent'
    <2>1. driven' = driven \cup {env[t].intent}
      BY DEF ProcessRound, Receive, Answer, Return
    <2>2. taken[r] = 0 => env[t].intent = SignedIntent(r, 1)
      BY <1>2, <1>4 DEF Message
    <2> QED
      BY <1>5, <2>1, <2>2 DEF AllInv, SystemInv, ExchangeInv, FirstSpent
  <1> QED
    BY <1>2, <1>8, <1>10, <1>11, <1>12, <1>13, <1>14 DEF ExchangeInv

\* A step that moves neither run nor count and answers no further message.
Unmoved ==
    /\ run' = run /\ taken' = taken
    /\ \A r \in Runs : Replied(r)' = Replied(r)

\* The other steps of a handler: a repeated answer is one that was given.
LEMMA HandlerUnmoved ==
    ASSUME AllInv, NEW t \in Tasks, ReceiverStep(t), DedupeHit(t) \/ QuietTaskStep
    PROVE  Unmoved /\ ExchangeInv'
  <1>1. Complete /\ CountTaken(t) /\ run' = run /\ (TaskStep(t) \/ Cancel(t))
    BY DEF ReceiverStep
  <1>2. /\ returned' # None => returned'.env = env[t] /\ env[t] # None
        /\ env' \in {env, [env EXCEPT ![t] = None]}
    BY <1>1, OwnEnvelope DEF AllInv
  <1>3. answers \subseteq answers' /\ taken' = taken
    BY <1>1 DEF Complete, CountTaken, DedupeHit, Return, QuietTaskStep, Taken
  <1>4. \A a \in answers' : a \in answers \/ a.env = env[t]
    BY <1>1, <1>2 DEF Complete
  <1>5. \A r \in Runs : Replied(r)' = Replied(r)
    <2>1. CASE QuietTaskStep
      <3>1. \A a \in answers' : a \in answers \/ a.code # "REPLY"
        BY <1>1, <2>1 DEF QuietTaskStep, Complete
      <3> QED
        BY <1>3, <3>1, RepliedStays
    <2>2. CASE DedupeHit(t)
      <3>1. PICK d \in CachedRounds(env[t]) : Return(t, d.code, d.log, FALSE)
        BY <2>2 DEF DedupeHit
      <3>2. env[t] \in SentMessages
        BY <2>2, BusyTask, NoneAssumption
           DEF DedupeHit, At, AllInv, SystemInv, ReceiverInv, HandledSent
      <3>3. PICK u \in Runs, n \in 1..MaxRounds :
                   env[t] = Message(u, n) /\ RoundKey(env[t]) = <<u, n, HashPayload(n)>>
        BY <3>2, SentFacts
      <3>4. returned' = [env |-> env[t], code |-> d.code, log |-> d.log, ran |-> FALSE]
        BY <3>1 DEF Return
      <3>5. ASSUME returned' # None, d.code = "REPLY"
            PROVE  n \in Replied(u)
        <4>1. PICK a \in answers : a.code = "REPLY" /\ RoundKey(a.env) = RoundKey(env[t])
          BY <3>1, <3>5 DEF CachedRounds, AllInv, ExchangeInv, CachedAnswered
        <4>2. PICK v \in Runs, m \in 1..MaxRounds :
                     a.env = Message(v, m) /\ RoundKey(a.env) = <<v, m, HashPayload(m)>>
          BY SentFacts DEF AllInv, SystemInv, AnswerWhole
        <4>3. <<v, m, HashPayload(m)>> = <<u, n, HashPayload(n)>>
          BY <3>3, <4>1, <4>2
        <4>4. v = u /\ m = n
          BY ONLY <4>3
        <4> QED
          BY <4>1, <4>2, <4>4 DEF Replied
      <3>6. CASE returned' = None
        <4>1. answers' = answers
          BY <1>1, <3>6 DEF Complete
        <4> QED
          BY <4>1 DEF Replied
      <3>7. CASE returned' # None
        <4>1. returned'.env = Message(u, n) /\ returned'.code = d.code
          BY <3>3, <3>4
        <4>2. \A r \in Runs : Replied(r)' = IF r = u /\ returned'.code = "REPLY"
                                           THEN Replied(r) \cup {n} ELSE Replied(r)
          BY <1>1, <3>7, <4>1, RepliedGrows
        <4> QED
          BY <3>5, <3>7, <4>1, <4>2
      <3> QED
        BY <3>6, <3>7
    <2> QED
      BY <2>1, <2>2
  <1>6. now' = 0 /\ driven \subseteq driven'
    BY <1>1, HandlerClock DEF AllInv, ExchangeInv
  <1>7. AskedFirst'
    <2>1. \A u \in Tasks : env'[u] # None => Sent(env'[u])
      BY <1>2 DEF AllInv, ExchangeInv, AskedFirst, TypeOK, TaskTypes
    <2>2. \A a \in answers' : a \in answers \/ (env[t] # None /\ a.env = env[t])
      BY <1>1, <1>2 DEF Complete
    <2>3. \A a \in answers' : Sent(a.env)
      BY <2>2 DEF AllInv, ExchangeInv, AskedFirst
    <2> QED
      BY <1>1, <2>1, <2>3 DEF AskedFirst, Sent
  <1>8. CachedAnswered'
    <2>1. dedupeCache' \subseteq dedupeCache
      BY DEF DedupeHit, QuietTaskStep, cacheVars
    <2> QED
      BY <1>3, <2>1 DEF AllInv, ExchangeInv, CachedAnswered, RoundKey
  <1>9. SessionsCounted'
    <2>1. opSessions' = opSessions \/ \E s \in Sids : opSessions' = [opSessions EXCEPT ![s] = <<>>]
      BY DEF DedupeHit, QuietTaskStep, sessionVars
    <2>2. \A r \in Runs : r \in Sids
      BY RunAssumption, MessageFacts
    <2>3. \A r \in Runs : opSessions'[r] \in {<<>>, opSessions[r]}
      BY <2>1, <2>2 DEF AllInv, TypeOK, SessionTypes
    <2> QED
      BY <1>3, <2>3 DEF AllInv, ExchangeInv, SessionsCounted
  <1>10. FirstSpent'
    BY <1>3, <1>6 DEF AllInv, ExchangeInv, FirstSpent
  <1> QED
    BY <1>1, <1>3, <1>5, <1>6, <1>7, <1>8, <1>9, <1>10 DEF Unmoved, ExchangeInv

\* A message arrives: nothing moves yet.
LEMMA DeliverUnmoved ==
    ASSUME AllInv, NEW t \in Tasks, NEW e \in SentMessages, Deliver(t, e)
    PROVE  Unmoved /\ ExchangeInv'
  <1>1. /\ Sent(e) /\ env' = [env EXCEPT ![t] = e]
        /\ run' = run /\ answers' = answers /\ taken' = taken
        /\ dedupeCache' \subseteq dedupeCache
        /\ opSessions' = opSessions /\ driven' = driven /\ now' = now
    BY DEF Deliver, HandleEnvelope, LiveRounds, sessionVars, clockVars, historyVars
  <1>2. \A r \in Runs : Replied(r)' = Replied(r)
    BY <1>1 DEF Replied
  <1>3. AskedFirst'
    <2>1. \A u \in Tasks : env'[u] # None => Sent(env'[u])
      BY <1>1 DEF AllInv, ExchangeInv, AskedFirst, TypeOK, TaskTypes
    <2> QED
      BY <1>1, <2>1 DEF AllInv, ExchangeInv, AskedFirst, Sent
  <1>4. CachedAnswered' /\ SessionsCounted' /\ FirstSpent'
    BY <1>1 DEF AllInv, ExchangeInv, CachedAnswered, RoundKey, SessionsCounted, FirstSpent
  <1> QED
    BY <1>1, <1>2, <1>3, <1>4 DEF Unmoved, AllInv, ExchangeInv

\* The receiver restarts: what it had taken it has forgotten, what it had
\* answered stays answered.
Crashes ==
    /\ run' = run /\ taken' = [r \in Runs |-> 0]
    /\ \A r \in Runs : Replied(r)' = Replied(r)

LEMMA RestartIsCrash ==
    ASSUME AllInv, ReceiverRestarts
    PROVE  Crashes /\ ExchangeInv'
  <1>1. /\ env' = [t \in Tasks |-> None] /\ dedupeCache' = {} /\ now' = now
        /\ opSessions' = [s \in Sids |-> <<>>]
        /\ run' = run /\ taken' = [r \in Runs |-> 0]
        /\ answers' = answers \cup
             { [env |-> env[t], code |-> "CANCELLED", log |-> <<>>] :
                 t \in { u \in Tasks : env[u] # None } }
    BY DEF ReceiverRestarts, Restart
  <1>2. \A r \in Runs : Replied(r)' = Replied(r)
    <2>1. answers \subseteq answers' /\ \A a \in answers' : a \in answers \/ a.code # "REPLY"
      BY <1>1
    <2> QED
      BY <2>1, RepliedStays
  <1>3. AskedFirst'
    <2>1. \A a \in answers' : Sent(a.env)
      BY <1>1 DEF AllInv, ExchangeInv, AskedFirst
    <2> QED
      BY <1>1, <2>1 DEF AskedFirst, Sent
  <1>4. CachedAnswered' /\ FirstSpent'
    BY <1>1 DEF CachedAnswered, FirstSpent
  <1>5. SessionsCounted'
    BY <1>1, RunAssumption, MessageFacts DEF SessionsCounted
  <1> QED
    BY <1>1, <1>2, <1>3, <1>4, <1>5 DEF Crashes, AllInv, ExchangeInv

-----------------------------------------------------------------------------
(* The initiator.                                                          *)

\* A run may go on: it has not begun, or its last message is answered.
MayGoOn(r) ==
    \/ run[r].at = "idle"
    \/ run[r].at = "waiting" /\ Answered(r) = run[r].asked

\* Run r gets to `how' with n messages asked; the other runs stay.
GetsTo(r, how, n) ==
    /\ \A u \in Runs \ {r} : run'[u] = run[u]
    /\ run'[r].at = how /\ run'[r].asked = n

\* An answer to the outstanding message is the answer to the last message.
LEMMA HeardIsLast ==
    ASSUME AllInv, NEW r \in Runs, NEW a, Hears(r, a), a.code = "REPLY"
    PROVE  MayGoOn(r)
  <1>1. run[r].at = "waiting" /\ a \in answers /\ a.env = Message(r, run[r].asked)
    BY DEF Hears, Outstanding
  <1>2. run[r].asked \in 1..MaxRounds
    BY HeardWhole DEF AllInv
  <1>3. Replied(r) \in SUBSET (1..MaxRounds) /\ run[r].asked \in Replied(r)
    BY <1>1, <1>2 DEF Replied
  <1>4. \A n \in Replied(r) : n <= run[r].asked
    <2> SUFFICES ASSUME NEW n \in Replied(r) PROVE n <= run[r].asked
      OBVIOUS
    <2>1. n \in 1..MaxRounds /\ \E b \in answers : b.env = Message(r, n)
      BY DEF Replied
    <2>2. Sent(Message(r, n))
      BY <2>1 DEF AllInv, ExchangeInv, AskedFirst
    <2> QED
      BY <2>1, <2>2, SentMessage DEF AllInv
  <1>5. /\ Answered(r) \in Replied(r) /\ run[r].asked <= Answered(r)
    BY <1>3, LastOfFacts DEF Answered
  <1>6. Answered(r) = run[r].asked
    BY <1>2, <1>3, <1>4, <1>5
  <1> QED
    BY <1>1, <1>6 DEF MayGoOn

\* One message more, or the end of the rounds.
LEMMA AskMoves ==
    ASSUME AllInv, NEW r \in Runs, NEW log, Ask(r, log)
    PROVE  \/ run[r].asked < MaxRounds /\ GetsTo(r, "waiting", run[r].asked + 1)
           \/ GetsTo(r, "raised", run[r].asked)
  <1>1. run \in [Runs -> RunType]
    BY DEF AllInv, SystemInv, InitiatorInv
  <1> QED
    BY <1>1 DEF Ask, GetsTo, RunType

LEMMA EndMoves ==
    ASSUME AllInv, NEW r \in Runs, NEW how, NEW own, End(r, how, own)
    PROVE  GetsTo(r, how, run[r].asked)
  <1>1. run \in [Runs -> RunType]
    BY DEF AllInv, SystemInv, InitiatorInv
  <1> QED
    BY <1>1 DEF End, GetsTo, RunType

\* Every step of a run asks, returns a result or raises, and asks and returns
\* only when the run may go on.
LEMMA RunMoves ==
    ASSUME AllInv, NEW r \in Runs, RunStep(r)
    PROVE  /\ InitiatorStep
           /\ \/ /\ MayGoOn(r) /\ run[r].asked < MaxRounds
                 /\ GetsTo(r, "waiting", run[r].asked + 1)
              \/ MayGoOn(r) /\ GetsTo(r, "result", run[r].asked)
              \/ run[r].at \in {"idle", "waiting"} /\ GetsTo(r, "raised", run[r].asked)
  <1>1. InitiatorStep
    BY DEF RunStep, RunIntent, HearReply, HearRefusal, SendFails, SendTimesOut
  <1>2. run \in [Runs -> RunType]
    BY DEF AllInv, SystemInv, InitiatorInv
  <1>3. CASE RunIntent(r)
    <2>1. run[r].at = "idle" /\ MayGoOn(r)
      BY <1>3 DEF RunIntent, MayGoOn
    <2> QED
      BY <1>1, <1>3, <2>1, AskMoves, EndMoves DEF RunIntent
  <1>4. CASE SendTimesOut(r) \/ \E a \in answers : HearRefusal(r, a) \/ SendFails(r, a)
    <2>1. run[r].at = "waiting" /\ End(r, "raised", run[r].own)
      BY <1>4 DEF SendTimesOut, HearRefusal, SendFails, Hears
    <2> QED
      BY <1>1, <2>1, EndMoves
  <1>5. ASSUME NEW a \in answers, HearReply(r, a)
        PROVE  \/ /\ MayGoOn(r) /\ run[r].asked < MaxRounds
                  /\ GetsTo(r, "waiting", run[r].asked + 1)
               \/ MayGoOn(r) /\ GetsTo(r, "result", run[r].asked)
               \/ run[r].at \in {"idle", "waiting"} /\ GetsTo(r, "raised", run[r].asked)
    <2>1. run[r].at = "waiting" /\ MayGoOn(r)
      BY <1>5, HeardIsLast DEF HearReply, Hears
    <2>2. CASE run' = [run EXCEPT ![r].at = "result", ![r].own = FALSE, ![r].heard = a.log]
      BY <1>2, <2>1, <2>2 DEF GetsTo, RunType
    <2>3. CASE run' = [run EXCEPT ![r].at = "raised", ![r].heard = a.log]
      BY <1>2, <2>1, <2>3 DEF GetsTo, RunType
    <2> QED
      BY <1>5, <2>1, <2>2, <2>3, AskMoves, EndMoves DEF HearReply
  <1> QED
    BY <1>1, <1>3, <1>4, <1>5 DEF RunStep

\* It leaves the rest of the invariant alone.
LEMMA RunKeepsExchange ==
    ASSUME AllInv, NEW r \in Runs, RunStep(r)
    PROVE  ExchangeInv'
  <1>1. /\ env' = env /\ dedupeCache' = dedupeCache /\ now' = now /\ driven' = driven
        /\ opSessions' = opSessions /\ answers' = answers /\ taken' = taken
    BY RunMoves
       DEF InitiatorStep, receiverVars, vars, clockVars, taskVars, cacheVars, sessionVars,
           historyVars
  <1>2. \A u \in Runs : /\ run[u].asked \in Nat /\ run'[u].asked \in Nat
                       /\ run[u].asked <= run'[u].asked
    BY RunMoves DEF GetsTo, AllInv, SystemInv, InitiatorInv, RunType
  <1>3. ASSUME NEW e, Sent(e) PROVE Sent(e)'
    <2>1. PICK u \in Runs : \E n \in 1..run[u].asked : e = Message(u, n)
      BY <1>3 DEF Sent
    <2>2. PICK n \in 1..run[u].asked : e = Message(u, n)
      BY <2>1
    <2>3. n \in 1..run'[u].asked
      BY <1>2
    <2> QED
      BY <2>2, <2>3 DEF Sent
  <1>4. AskedFirst'
    BY <1>1, <1>3 DEF AllInv, ExchangeInv, AskedFirst, Sent
  <1>5. CachedAnswered' /\ SessionsCounted' /\ FirstSpent'
    BY <1>1 DEF AllInv, ExchangeInv, CachedAnswered, RoundKey, SessionsCounted, FirstSpent
  <1> QED
    BY <1>1, <1>4, <1>5 DEF AllInv, ExchangeInv

-----------------------------------------------------------------------------
(* The refinement, step by step.                                           *)

\* A step of a run is a step of the promise.
LEMMA RunImplements ==
    ASSUME AllInv, NEW r \in Runs, RunStep(r)
    PROVE  Promise!Ask(r) \/ Promise!Finish(r) \/ Promise!Fail(r)
  <1>1. taken' = taken /\ \A u \in Runs : Answered(u)' = Answered(u)
    BY RunMoves DEF InitiatorStep, Answered, Replied
  <1>2. CASE /\ MayGoOn(r) /\ run[r].asked < MaxRounds
             /\ GetsTo(r, "waiting", run[r].asked + 1)
    BY <1>1, <1>2 DEF MayGoOn, GetsTo, Promise!Ask, Promise!Free
  <1>3. CASE MayGoOn(r) /\ GetsTo(r, "result", run[r].asked)
    BY <1>1, <1>3 DEF MayGoOn, GetsTo, Promise!Finish, Promise!Free
  <1>4. CASE run[r].at \in {"idle", "waiting"} /\ GetsTo(r, "raised", run[r].asked)
    BY <1>1, <1>4 DEF GetsTo, Promise!Fail
  <1> QED
    BY <1>2, <1>3, <1>4, RunMoves

\* The step with which the operation takes a message is the promise's Take: a
\* message answered for the second time after a crash changes nothing.
LEMMA TakeImplements ==
    ASSUME AllInv, NEW r \in Runs, NEW n \in 1..MaxRounds, Takes(r, n)
    PROVE  Promise!Take(r)
  <1>1. Replied(r) \in SUBSET (1..MaxRounds) /\ \A u \in Runs : Answered(u) \in 0..MaxRounds
    BY LastOfFacts DEF Replied, Answered
  <1>2. Answered(r)' \in {Answered(r), IF Answered(r) <= n THEN n ELSE Answered(r)}
    BY <1>1, LastOfMore DEF Takes, Answered
  <1>3. \A u \in Runs \ {r} : Answered(u)' = Answered(u)
    BY DEF Takes, Answered
  <1>4. taken \in [Runs -> 0..MaxRounds] /\ run[r].asked \in 0..MaxRounds
    BY DEF AllInv, SystemInv, InitiatorInv, RunType
  <1>5. /\ taken[r] < run[r].asked
        /\ taken' = [taken EXCEPT ![r] = taken[r] + 1]
        /\ n = taken[r] + 1
    <2>1. n = taken[r] + 1 /\ n <= run[r].asked /\ taken' = [taken EXCEPT ![r] = n]
      BY DEF Takes
    <2>2. taken[r] \in Nat /\ run[r].asked \in Nat
      BY <1>4, RunAssumption
    <2> QED
      BY <2>1, <2>2
  <1>6. \/ \A u \in Runs : Answered(u)' = Answered(u)
        \/ /\ Answered(r) <= taken[r]
           /\ Answered(r)' = taken[r] + 1
    <2>1. CASE Answered(r) <= taken[r]
      BY <1>1, <1>2, <1>3, <1>4, <1>5, <2>1
    <2>2. CASE ~(Answered(r) <= taken[r])
      <3>1. Answered(r)' = Answered(r)
        BY <1>1, <1>2, <1>4, <1>5, <2>2
      <3> QED
        BY <1>3, <3>1
    <2> QED
      BY <2>1, <2>2
  <1>7. run' = run
    BY DEF Takes
  <1>8. CASE \A u \in Runs : Answered(u)' = Answered(u)
    BY <1>5, <1>7, <1>8 DEF Promise!Take
  <1>9. CASE Answered(r) <= taken[r] /\ Answered(r)' = taken[r] + 1
    BY <1>3, <1>5, <1>7, <1>9 DEF Promise!Take
  <1> QED
    BY <1>6, <1>8, <1>9

\* What the promise does not see.
LEMMA UnmovedStutters ==
    ASSUME Unmoved
    PROVE  UNCHANGED Promise!exchangeVars
  <1>1. \A u \in Runs : Answered(u)' = Answered(u)
    BY DEF Unmoved, Answered
  <1> QED
    BY <1>1 DEF Unmoved, Promise!exchangeVars

LEMMA CrashImplements ==
    ASSUME Crashes
    PROVE  Promise!Crash
  <1>1. \A u \in Runs : Answered(u)' = Answered(u)
    BY DEF Crashes, Answered
  <1> QED
    BY <1>1 DEF Crashes, Promise!Crash

\* Every step of the system is a step of the promise or a stutter, and keeps
\* the invariant.
LEMMA StepImplements ==
    ASSUME AllInv, [SystemNext]_systemVars
    PROVE  [Promise!Next]_(Promise!exchangeVars) /\ ExchangeInv'
  <1>1. CASE \E r \in Runs : RunStep(r)
    BY <1>1, RunImplements, RunKeepsExchange DEF Promise!Next
  <1>2. CASE \E t \in Tasks, e \in SentMessages : Deliver(t, e)
    BY <1>2, DeliverUnmoved, UnmovedStutters
  <1>3. ASSUME NEW t \in Tasks, ReceiverStep(t)
        PROVE  [Promise!Next]_(Promise!exchangeVars) /\ ExchangeInv'
    <2>1. CASE DedupeHit(t) \/ QuietTaskStep
      BY <1>3, <2>1, HandlerUnmoved, UnmovedStutters
    <2>2. CASE \E o \in Outcomes : ProcessRound(t, o) \/ Receive(t, o)
      BY <1>3, <2>2, TakingIsTake, TakeImplements DEF Promise!Next
    <2> QED
      BY <1>3, <2>1, <2>2, TaskStepKinds DEF ReceiverStep, AllInv
  <1>4. CASE ReceiverRestarts
    BY <1>4, RestartIsCrash, CrashImplements DEF Promise!Next
  <1>5. CASE UNCHANGED systemVars
    <2>1. Unmoved
      BY <1>5 DEF systemVars, Unmoved, Replied
    <2>2. ExchangeInv'
      BY <1>5 DEF systemVars, receiverVars, vars, clockVars, taskVars, cacheVars, sessionVars,
                  historyVars, AllInv, ExchangeInv, AskedFirst, Sent, CachedAnswered, RoundKey,
                  SessionsCounted, FirstSpent
    <2> QED
      BY <2>1, <2>2, UnmovedStutters
  <1> QED
    BY <1>1, <1>2, <1>3, <1>4, <1>5 DEF SystemNext

\* Both sides start where the promise does.
LEMMA InitImplements == SystemInit => Promise!Init /\ ExchangeInv
  <1> SUFFICES ASSUME SystemInit PROVE Promise!Init /\ ExchangeInv
    OBVIOUS
  <1>1. \A r \in Runs : Answered(r) = 0
    BY DEF SystemInit, Answered, Replied, LastOf
  <1>2. Promise!Init
    BY <1>1 DEF SystemInit, Promise!Init
  <1>3. ExchangeInv
    BY RunAssumption, MessageFacts
       DEF SystemInit, Init, ExchangeInv, AskedFirst, CachedAnswered, SessionsCounted,
           FirstSpent
  <1> QED
    BY <1>2, <1>3

\* The invariant holds in every behaviour of the system.
LEMMA AllInvariant == System => []AllInv
  <1>1. SystemInit => DrivenRecorded /\ ExchangeInv
    BY InitImplements DEF SystemInit, Init, DrivenRecorded
  <1>2. TypeOK /\ DrivenRecorded /\ [SystemNext]_systemVars => DrivenRecorded'
    BY SystemStepIsReceiverStep, DrivenPreserved
  <1>3. System => [](TypeOK /\ DrivenRecorded /\ SystemInv)
    BY <1>1, <1>2, ReceiverTypes, InvHoldsFirst, InvPreserved, PTL DEF System
  <1>4. TypeOK /\ DrivenRecorded /\ SystemInv /\ ExchangeInv /\ [SystemNext]_systemVars
        => ExchangeInv'
    BY StepImplements DEF AllInv
  <1>5. TypeOK /\ DrivenRecorded /\ SystemInv /\ ExchangeInv => AllInv
    BY DEF AllInv
  <1> QED
    BY <1>1, <1>3, <1>4, <1>5, PTL DEF System

\* Initiator, network, executor and receiver keep the promise of run_intent, in
\* every behaviour: whatever is lost, repeated, reordered or restarted and
\* whatever becomes of the session's lock, the operation takes the messages of
\* a run in order and each once per process life, and the initiator goes on or
\* returns a result only from the answer to its last message.
THEOREM SystemKeepsPromise == System => KeepsPromise
  <1>1. SystemInit => Promise!Init
    BY InitImplements
  <1>2. AllInv /\ [SystemNext]_systemVars => [Promise!Next]_(Promise!exchangeVars)
    BY StepImplements
  <1> QED
    BY <1>1, <1>2, AllInvariant, PTL DEF System, KeepsPromise, Promise!Spec

-----------------------------------------------------------------------------
(* Refusals.  The inductive invariant of one process life, next to AllInv. *)

Cached(e) == CachedRounds(e) # {}
Caused(e) == \E b \in answers : b.env = e /\ b.code \in Causes

\* Nothing in the reply cache is swept.
CacheLives == \A d \in dedupeCache : now < d.expires /\ d.code \in ReplyCodes

\* An intent is spent on an answer that is cached or on a cause.
SpentAnswered ==
    \A i \in replayCache : \E r \in Runs, n \in 1..MaxRounds :
        i.intent = SignedIntent(r, n) /\ (Cached(Message(r, n)) \/ Caused(Message(r, n)))

\* A session was opened by its run's first message.
OpenedByFirst ==
    \A r \in Runs : rxSessions[r] # None =>
        rxSessions[r].key = Initiator /\ rxSessions[r].openingPhase = 1 /\ taken[r] # 0

\* Nothing is asked or answered after the first message before that is taken,
\* and its answer stays.
FirstTaken ==
    \A r \in Runs :
        /\ run[r].asked > 1 \/ Replied(r) # {} => taken[r] # 0
        /\ taken[r] # 0 => Cached(Message(r, 1))

\* Once a later message is on the opening path, its session stays closed.
LateClosed ==
    \A t \in Tasks : pc[t] \in AfterLookup /\ env[t].phase # 1 => rxSessions[env[t].sid] = None

\* The copies of a first message share its session's lock: whoever drops the
\* lock under a waiter leaves an answer or a cause behind.
FirstShares ==
    \A r \in Runs :
        \/ Cached(Message(r, 1)) \/ Caused(Message(r, 1))
        \/ \A t \in Tasks : env[t] = Message(r, 1) => lock[t] = sessionLocks[r]

\* While a task is on the opening path, nobody answers its message, or there
\* was a cause.
UnansweredMeanwhile ==
    \A t \in Tasks : pc[t] \in AfterLookup => ~Cached(env[t]) \/ Caused(env[t])

\* Every answer is a reply, a cause, or has one.
Explained == \A a \in answers : a.code \in ReplyCodes \cup Causes \/ Caused(a.env)

LifeInv ==
    /\ CacheLives
    /\ SpentAnswered
    /\ OpenedByFirst
    /\ FirstTaken
    /\ LateClosed
    /\ FirstShares
    /\ UnansweredMeanwhile
    /\ Explained

RefusalInv == OneHolder /\ (restarts = 0 => LifeInv)

\* The message a task handles, and what its number says.
LEMMA HandledMessage ==
    ASSUME AllInv, NEW t \in Tasks, pc[t] # "idle"
    PROVE  \E r \in Runs, n \in 1..MaxRounds :
             /\ env[t] = Message(r, n) /\ n <= run[r].asked
             /\ r \in Sids /\ env[t].sid = r /\ env[t].phase = n
             /\ RoundKey(env[t]) = <<r, n, HashPayload(n)>>
             /\ env[t].intent = SignedIntent(r, n) /\ SignedIntent(r, n) # None
  <1>1. env[t] \in SentMessages
    BY BusyTask, NoneAssumption DEF AllInv, SystemInv, ReceiverInv, HandledSent
  <1>2. PICK r \in Runs, n \in 1..MaxRounds : env[t] = Message(r, n)
    BY <1>1, SentFacts
  <1>3. env[t] # None /\ Sent(Message(r, n))
    BY <1>2, MessageFacts, NoneAssumption DEF AllInv, ExchangeInv, AskedFirst
  <1>4. Message(r, n).intent = SignedIntent(r, n)
    BY DEF Message
  <1> QED
    BY <1>2, <1>3, <1>4, MessageFacts, SentMessage, RunAssumption DEF AllInv

\* A message of a later number is handled only when the first has its answer.
LEMMA LaterIsAsked ==
    ASSUME AllInv, LifeInv, NEW t \in Tasks, pc[t] # "idle",
           NEW r \in Runs, NEW n \in 1..MaxRounds, env[t] = Message(r, n), n # 1
    PROVE  taken[r] # 0
  <1>1. n <= run[r].asked
    BY HandledMessage, MessageFacts
  <1>2. n \in Nat /\ n > 1 /\ run[r].asked \in Nat
    BY RunAssumption DEF AllInv, SystemInv, InitiatorInv, RunType
  <1> QED
    BY <1>1, <1>2 DEF LifeInv, FirstTaken

-----------------------------------------------------------------------------
(* A refusal that is no cause is REPLAY, and has one.                      *)

\* The replay key of a run's intent, and what shares it.
LEMMA RunReplayKey ==
    ASSUME NEW r \in Runs, NEW n \in 1..MaxRounds, NEW u \in Runs, NEW m \in 1..MaxRounds,
           ReplayKey(SignedIntent(u, m)) = ReplayKey(SignedIntent(r, n))
    PROVE  u = r /\ m = n
  <1>1. ASSUME NEW v \in Runs, NEW k \in 1..MaxRounds
        PROVE  ReplayKey(SignedIntent(v, k)) = <<Initiator, v, <<v, k>>>> \o <<HashPayload(k)>>
    <2>1. /\ SignedIntent(v, k).signer = Initiator /\ SignedIntent(v, k).sid = v
          /\ SignedIntent(v, k).id = <<v, k>> /\ SignedIntent(v, k).payload = HashPayload(k)
      BY DEF SignedIntent
    <2>2. Pieces(v) = <<v>> /\ Pieces(<<v, k>>) = <<<<v, k>>>>
      BY NameAssumption
    <2> DEFINE i == SignedIntent(v, k)  id == <<v, k>>  h == HashPayload(k)
    <2>3. ReplayKey(i) = <<i.signer>> \o Pieces(i.sid) \o Pieces(i.id) \o <<i.payload>>
      BY DEF ReplayKey
    <2>4. <<Initiator>> \o <<v>> \o <<id>> = <<Initiator, v, id>>
      BY ThreePieces
    <2> HIDE DEF i, id, h
    <2>5. ReplayKey(i) = <<Initiator>> \o <<v>> \o <<id>> \o <<h>>
      BY <2>1, <2>2, <2>3 DEF i, id, h
    <2>6. ReplayKey(i) = <<Initiator, v, id>> \o <<h>>
      BY <2>4, <2>5
    <2> QED
      BY <2>6 DEF i, id, h
  <1>2. ASSUME NEW v \in Runs, NEW k \in 1..MaxRounds
        PROVE  (<<Initiator, v, <<v, k>>>> \o <<HashPayload(k)>>)[3] = <<v, k>>
    <2> DEFINE a == <<Initiator, v, <<v, k>>>>  b == <<HashPayload(k)>>
               S == {Initiator, v, <<v, k>>, HashPayload(k)}
    <2>1. a \in Seq(S) /\ b \in Seq(S) /\ Len(a) = 3 /\ Len(b) = 1 /\ a[3] = <<v, k>>
      OBVIOUS
    <2>2. \A i \in 1 .. Len(a) + Len(b) :
               (a \o b)[i] = IF i <= Len(a) THEN a[i] ELSE b[i - Len(a)]
      BY <2>1, ConcatProperties
    <2> DEFINE id == <<v, k>>
    <2>4. a[3] = id
      BY <2>1
    <2> HIDE DEF a, b, S, id
    <2>5. 3 \in 1 .. Len(a) + Len(b) /\ 3 <= Len(a)
      BY <2>1
    <2>3. (a \o b)[3] = id
      BY <2>2, <2>4, <2>5
    <2> QED
      BY <2>3 DEF a, b, id
  <1>3. <<u, m>> = <<r, n>>
    BY <1>1, <1>2
  <1> QED
    BY <1>3

\* A spent intent is its own message's.
LEMMA ReplayAnswered ==
    ASSUME LifeInv, NEW r \in Runs, NEW n \in 1..MaxRounds, Replayed(SignedIntent(r, n))
    PROVE  Cached(Message(r, n)) \/ Caused(Message(r, n))
  <1>1. PICK c \in replayCache : ReplayKey(c.intent) = ReplayKey(SignedIntent(r, n))
    BY DEF Replayed, LiveIntents
  <1>2. PICK u \in Runs, m \in 1..MaxRounds :
               c.intent = SignedIntent(u, m) /\ (Cached(Message(u, m)) \/ Caused(Message(u, m)))
    BY DEF LifeInv, SpentAnswered
  <1>3. u = r /\ m = n
    BY <1>1, <1>2, RunReplayKey
  <1> QED
    BY <1>2, <1>3

\* Nothing but REPLAY is wrong with an intent of a run.
LEMMA OnlyReplay ==
    ASSUME now = 0, NEW r \in Runs, NEW n \in 1..MaxRounds,
           NEW e, e = Message(r, n), IntentRefusal(e) # Accepted
    PROVE  Replayed(SignedIntent(r, n))
  <1>1. /\ e.intent = SignedIntent(r, n) /\ e.sid = r /\ e.payload = n
        /\ SignedIntent(r, n).sid = r /\ SignedIntent(r, n).payload = HashPayload(n)
        /\ SignedIntent(r, n).flaw = "none" /\ ~Expired(SignedIntent(r, n))
    BY DEF Message, SignedIntent, Expired
  <1> QED
    BY <1>1 DEF IntentRefusal

\* The refusals that are no causes.
Refuses(t) ==
    \/ RefuseRound(t) \/ RefuseReopening(t) \/ RefuseOpening(t) \/ RefuseIntent(t)
    \/ \E c \in Cards : RefuseSignature(t, c)

\* Each of them is for a message that was answered with a cause.
LEMMA RefusedIsCaused ==
    ASSUME AllInv, LifeInv, \A c \in Cards : c.key = Initiator,
           NEW t \in Tasks, Refuses(t)
    PROVE  Caused(env[t])
  <1>1. pc[t] \in {"section", "open", "refreshing"}
    BY DEF Refuses, RefuseRound, RefuseReopening, RefuseOpening, RefuseIntent,
           RefuseSignature, AcceptRound, Round, Opening, NewRound, At, Resumed
  <1>2. PICK r \in Runs, n \in 1..MaxRounds :
             /\ env[t] = Message(r, n)
             /\ r \in Sids /\ env[t].sid = r /\ env[t].phase = n
             /\ env[t].intent = SignedIntent(r, n) /\ SignedIntent(r, n) # None
    BY <1>1, HandledMessage
  <1>3. now = 0
    BY DEF AllInv, ExchangeInv
  <1>4. SignedIntent(r, n).flaw = "none" /\ SignedIntent(r, n).signer = Initiator
    BY DEF SignedIntent
  <1>5. OpeningRefusal(env[t]) = Accepted
    BY <1>2, <1>4 DEF OpeningRefusal, ParseFlaws, AddressFlaws
  <1>6. CASE Round(t)
    <2>1. /\ ~Cached(Message(r, n)) /\ rxSessions[r].key = Initiator
          /\ rxSessions[r].openingPhase = 1 /\ taken[r] # 0
      BY <1>2, <1>6 DEF Round, NewRound, Cached, LifeInv, OpenedByFirst
    <2>2. n # 1
      BY <2>1 DEF LifeInv, FirstTaken
    <2>3. ~RefuseReopening(t)
      BY <1>2, <2>1, <2>2 DEF RefuseReopening
    <2>4. RoundRefusal(env[t]) # Accepted
      BY <1>1, <1>6, <2>3 DEF Refuses, RefuseRound, RefuseOpening, RefuseIntent,
                  RefuseSignature, Round, Opening, NewRound, At, Resumed
    <2>5. IntentRefusal(env[t]) # Accepted
      BY <1>2, <1>4, <2>1, <2>4 DEF RoundRefusal, ParseFlaws
    <2> QED
      BY <1>2, <1>3, <2>1, <2>5, OnlyReplay, ReplayAnswered
  <1>7. CASE RefuseIntent(t)
    <2>1. pc[t] \in AfterLookup /\ IntentRefusal(env[t]) # Accepted
      BY <1>7 DEF RefuseIntent, At, AfterLookup
    <2> QED
      BY <1>2, <1>3, <2>1, OnlyReplay, ReplayAnswered DEF LifeInv, UnansweredMeanwhile
  <1>8. ASSUME NEW c \in Cards, RefuseSignature(t, c) PROVE FALSE
    BY <1>2, <1>4, <1>8 DEF RefuseSignature
  <1> QED
    BY <1>5, <1>6, <1>7, <1>8 DEF Refuses, RefuseRound, RefuseReopening, RefuseOpening,
                                  AcceptRound

-----------------------------------------------------------------------------
(* What a handler's step does, as the life of a process sees it.           *)

\* It goes on.
GoesOn(t) ==
    /\ Wake(t) \/ Moves(t)
    /\ returned' = None
    /\ UNCHANGED replayCache

\* It ends with an answer for a cause.
FailsForCause(t) ==
    returned' # None /\ returned'.env = env[t] /\ returned'.code \in Causes

\* Nothing is spent but intent i.
OnlySpends(i) == \A c \in replayCache' : c \in replayCache \/ c.intent = i

\* What it leaves when the operation takes nothing: perhaps a spent intent, and
\* perhaps no session.
Quits(t) ==
    /\ Leaves(t)
    /\ UNCHANGED dedupeCache
    /\ OnlySpends(env[t].intent)
    /\ \A s \in Sids : rxSessions'[s] \in {None, rxSessions[s]}

\* A cause is an answer.
LEMMA CauseIsAnswer ==
    ASSUME NEW t \in Tasks, env[t] \in Envelopes, NEW code \in Causes, NEW ran \in BOOLEAN,
           Return(t, code, <<>>, ran)
    PROVE  FailsForCause(t)
  <1>1. <<>> \in Seq(Envelopes)
    OBVIOUS
  <1>2. returned' = [env |-> env[t], code |-> code, log |-> <<>>, ran |-> ran]
    BY DEF Return
  <1>3. returned' \in [env : Envelopes, code : ReplyCodes \cup Causes, log : Seq(Envelopes),
                       ran : BOOLEAN]
    BY <1>1, <1>2
  <1>4. returned' # None
    BY <1>3, RunAssumption
  <1> QED
    BY <1>2, <1>4 DEF FailsForCause

\* Every step of a handler goes on, repeats an answer, gives the operation a
\* message, refuses, or fails for a cause.
LEMMA HandlerKinds ==
    ASSUME TypeOK, NEW t \in Tasks, TaskStep(t) \/ Cancel(t)
    PROVE  \/ GoesOn(t)
           \/ DedupeHit(t)
           \/ \E o \in Outcomes : ProcessRound(t, o) \/ Receive(t, o)
           \/ Quits(t) /\ (Refuses(t) \/ FailsForCause(t))
  <1>1. CASE Wake(t)
    BY <1>1 DEF Wake, GoesOn
  <1>2. CASE ResolvePeer(t) \/ \E c \in Cards : PeerVerified(t, c) \/ RefreshPeer(t, c)
    <2>1. Moves(t)
      BY <1>2 DEF ResolvePeer, PeerVerified, RefreshPeer, CallResolvePeer, Opening, NewRound,
                  Resumed, At, Moves, AfterLookup, InSection, lockVars, cacheVars, sessionVars
    <2> QED
      BY <1>2, <2>1 DEF ResolvePeer, PeerVerified, RefreshPeer, CallResolvePeer, cacheVars,
                        GoesOn
  <1>3. ASSUME NEW code, NEW log, NEW ran, Return(t, code, log, ran), pc[t] # "idle"
        PROVE  Leaves(t) /\ env[t] \in Envelopes
    <2>1. pc'[t] = "idle" /\ env[t] \in Envelopes
      BY <1>3, BusyTask DEF Return, TypeOK, TaskTypes
    <2>2. ~Wake(t) /\ ~Moves(t)
      BY <2>1 DEF Wake, Moves, AfterLookup, TypeOK, TaskTypes
    <2> QED
      BY <2>1, <2>2, HandlerLockSteps
  <1>4. CASE Cancel(t)
    <2>1. /\ Return(t, "CANCELLED", <<>>, FALSE) /\ pc[t] # "idle"
          /\ UNCHANGED <<replayCache, dedupeCache, rxSessions>>
      BY <1>4 DEF Cancel, Suspended, cacheVars, sessionVars
    <2>2. OnlySpends(env[t].intent)
      BY <2>1 DEF OnlySpends
    <2> QED
      BY <1>3, <2>1, <2>2, CauseIsAnswer DEF Quits, Causes, Unanswered
  <1>5. ASSUME NEW code, Refuse(t, code), pc[t] # "idle", UNCHANGED dedupeCache,
               OnlySpends(env[t].intent)
        PROVE  Quits(t) /\ (code \in Causes => FailsForCause(t))
    <2>1. Return(t, code, <<>>, FALSE) /\ UNCHANGED rxSessions
      BY <1>5 DEF Refuse, sessionVars
    <2> QED
      BY <1>3, <1>5, <2>1, CauseIsAnswer DEF Quits
  <1>6. CASE Refuses(t)
    <2>1. /\ pc[t] # "idle" /\ UNCHANGED dedupeCache /\ \E code : Refuse(t, code)
          /\ OnlySpends(env[t].intent)
      BY <1>6 DEF Refuses, RefuseRound, RefuseReopening, RefuseOpening, RefuseIntent,
                  RefuseSignature, AcceptRound, Round, Opening, NewRound, At, Resumed,
                  cacheVars, SweepIfReplayed, Spend, LiveIntents, OnlySpends
    <2> QED
      BY <1>5, <1>6, <2>1
  <1>7. CASE ResolveRaises(t) \/ RefuseIncompatible(t) \/ ConfigRaises(t)
    <2>1. /\ pc[t] # "idle" /\ UNCHANGED dedupeCache /\ \E code \in Causes : Refuse(t, code)
          /\ OnlySpends(env[t].intent)
      BY <1>7 DEF ResolveRaises, RefuseIncompatible, ConfigRaises, AcceptOpening, At, Resumed,
                  cacheVars, Spend, LiveIntents, OnlySpends, Causes, Unanswered
    <2> QED
      BY <1>5, <2>1
  <1>8. CASE ProcessFails(t) \/ ProcessKeyError(t)
    <2>1. AcceptRound(t) /\ env[t].sid \in Sids
      BY <1>8, AcceptedRound DEF ProcessFails, ProcessKeyError
    <2>2. \E code \in Causes, ran \in BOOLEAN : EndSession(t, code, ran)
      BY <1>8 DEF ProcessFails, ProcessKeyError, Causes
    <2>3. PICK code \in Causes, ran \in BOOLEAN : EndSession(t, code, ran)
      BY <2>2
    <2>4. /\ Return(t, code, <<>>, ran) /\ pc[t] # "idle" /\ UNCHANGED dedupeCache
          /\ OnlySpends(env[t].intent)
          /\ rxSessions' = [rxSessions EXCEPT ![env[t].sid] = None]
      BY <2>1, <2>3 DEF EndSession, AcceptRound, Round, NewRound, At, Spend, LiveIntents,
                        OnlySpends
    <2>5. \A s \in Sids : rxSessions'[s] \in {None, rxSessions[s]}
      BY <2>4 DEF TypeOK, SessionTypes
    <2> QED
      BY <1>3, <2>4, <2>5, CauseIsAnswer DEF Quits
  <1>9. CASE ReceiveFails(t)
    <2>1. Spend(env[t].intent) /\ pc[t] = "open"
      BY <1>9 DEF ReceiveFails, AcceptOpening, At
    <2>2. OnlySpends(env[t].intent)
      BY <2>1 DEF Spend, LiveIntents, OnlySpends
    <2>3. /\ Return(t, "OPERATION_ERROR", <<>>, TRUE)
          /\ UNCHANGED dedupeCache /\ UNCHANGED rxSessions
      BY <1>9 DEF ReceiveFails, sessionVars
    <2> QED
      BY <1>3, <2>1, <2>2, <2>3, CauseIsAnswer DEF Quits, Causes
  <1> QED
    BY <1>1, <1>2, <1>4, <1>6, <1>7, <1>8, <1>9 DEF TaskStep, Refuses

-----------------------------------------------------------------------------
(* Every step of a process life keeps its invariant.                       *)

\* A task that goes on has just looked, if it is on the opening path.
LEMMA GoingOnKeeps ==
    ASSUME AllInv, LifeInv, NEW t \in Tasks, GoesOn(t), UNCHANGED <<now, run, answers, taken>>
    PROVE  LifeInv'
  <1>1. LiveRounds = dedupeCache
    BY DEF LiveRounds, LifeInv, CacheLives
  <1>2. UNCHANGED <<env, lock, sessionLocks, replayCache, dedupeCache, rxSessions>>
    BY <1>1 DEF GoesOn, Wake, Moves, lockVars, sessionVars
  <1>3. ASSUME NEW u \in Tasks, pc'[u] \in AfterLookup
        PROVE  pc[u] \in AfterLookup \/ (u = t /\ Opening(t))
    BY <1>3 DEF GoesOn, Wake, Moves, AfterLookup, InSection, AllInv, TypeOK, TaskTypes
  <1>4. LateClosed'
    BY <1>2, <1>3 DEF LifeInv, LateClosed, Opening
  <1>5. UnansweredMeanwhile'
    BY <1>2, <1>3 DEF LifeInv, UnansweredMeanwhile, Cached, CachedRounds, RoundKey, Caused,
                      Opening, NewRound
  <1>6. CacheLives' /\ OpenedByFirst'
    BY <1>2 DEF LifeInv, CacheLives, OpenedByFirst
  <1>7. SpentAnswered'
    BY <1>2 DEF LifeInv, SpentAnswered, Cached, CachedRounds, RoundKey, Caused
  <1>8. FirstTaken'
    BY <1>2 DEF LifeInv, FirstTaken, Cached, CachedRounds, RoundKey, Replied
  <1>9. FirstShares'
    BY <1>2 DEF LifeInv, FirstShares, Cached, CachedRounds, RoundKey, Caused
  <1>10. Explained'
    BY DEF LifeInv, Explained, Caused
  <1> QED
    BY <1>4, <1>5, <1>6, <1>7, <1>8, <1>9, <1>10 DEF LifeInv

\* What was cached or caused stays so.
Lasting ==
    /\ answers \subseteq answers'
    /\ \A d \in dedupeCache : \E b \in dedupeCache' : b.key = d.key

LEMMA Lasts ==
    ASSUME Lasting, NEW e
    PROVE  /\ Cached(e) => (\E d \in dedupeCache' : d.key = RoundKey(e))
           /\ Caused(e) => (\E b \in answers' : b.env = e /\ b.code \in Causes)
  BY DEF Lasting, Cached, CachedRounds, Caused

\* Whoever leaves an answer or a cause to its message keeps what the invariant
\* says of the answers.
LEMMA LeavingKeeps ==
    ASSUME AllInv, LifeInv, NEW t \in Tasks, Leaves(t), Lasting,
           NEW r \in Runs, NEW n \in 1..MaxRounds, env[t] = Message(r, n),
           OnlySpends(SignedIntent(r, n)),
           Cached(Message(r, n))' \/ Caused(Message(r, n))'
    PROVE  SpentAnswered' /\ FirstShares'
  <1>1. ASSUME NEW u \in Runs, NEW m \in 1..MaxRounds,
               Cached(Message(u, m)) \/ Caused(Message(u, m))
        PROVE  Cached(Message(u, m))' \/ Caused(Message(u, m))'
    BY <1>1, Lasts DEF Cached, CachedRounds, Caused, RoundKey
  <1>2. SpentAnswered'
    BY <1>1 DEF SpentAnswered, OnlySpends, LifeInv
  <1>3. FirstShares'
    <2> SUFFICES ASSUME NEW v \in Runs, NEW u \in Tasks, env'[u] = Message(v, 1),
                        ~(Cached(Message(v, 1))' \/ Caused(Message(v, 1))')
                 PROVE  lock'[u] = sessionLocks'[v]
      BY DEF FirstShares
    <2>1. 1 \in 1..MaxRounds
      BY RunAssumption
    <2>2. v \in Sids /\ r \in Sids /\ env[t].sid = r /\ Message(v, 1) # None
      BY <2>1, MessageFacts, NoneAssumption
    <2>3. u # t /\ env[u] = Message(v, 1) /\ lock'[u] = lock[u]
      BY <2>2 DEF Leaves, AllInv, TypeOK, TaskTypes
    <2>4. lock[u] = sessionLocks[v]
      BY <1>1, <2>1, <2>3 DEF LifeInv, FirstShares
    <2>5. r # v
      <3>1. CASE n = 1
        BY <3>1
      <3>2. CASE n # 1
        <4>1. taken[r] # 0
          BY <3>2, LaterIsAsked DEF Leaves
        <4>2. Cached(Message(r, 1))
          BY <4>1 DEF LifeInv, FirstTaken
        <4> QED
          BY <1>1, <2>1, <4>2
      <3> QED
        BY <3>1, <3>2
    <2>6. sessionLocks'[v] = sessionLocks[v]
      BY <2>2, <2>5 DEF Leaves, DropLock, AllInv, TypeOK, LockTypes
    <2> QED
      BY <2>3, <2>4, <2>6
  <1> QED
    BY <1>2, <1>3

\* Who leaves without having given the operation a message changes the sessions
\* and the cache in nothing that matters.
LEMMA QuietLeavingKeeps ==
    ASSUME AllInv, LifeInv, NEW t \in Tasks, Leaves(t), Lasting,
           UNCHANGED <<now, run, taken, dedupeCache>>,
           \A s \in Sids : rxSessions'[s] \in {None, rxSessions[s]},
           \A r \in Runs : Replied(r)' = Replied(r)
    PROVE  CacheLives' /\ OpenedByFirst' /\ FirstTaken' /\ LateClosed' /\ UnansweredMeanwhile'
  <1>1. \A u \in Tasks : pc'[u] \in AfterLookup =>
            pc[u] \in AfterLookup /\ env'[u] = env[u] /\ env[u].sid \in Sids
    <2>1. \A u \in Tasks : pc[u] \in AfterLookup => pc[u] # "idle"
      BY DEF AfterLookup
    <2> QED
      BY <2>1, BusyTask DEF Leaves, AfterLookup, AllInv, TypeOK, TaskTypes
  <1>2. CacheLives'
    BY DEF LifeInv, CacheLives
  <1>3. OpenedByFirst'
    BY MessageFacts, RunAssumption DEF LifeInv, OpenedByFirst
  <1>4. FirstTaken'
    BY DEF LifeInv, FirstTaken, Cached, CachedRounds, RoundKey
  <1>5. LateClosed'
    BY <1>1 DEF LifeInv, LateClosed
  <1>6. UnansweredMeanwhile'
    <2> SUFFICES ASSUME NEW u \in Tasks, pc'[u] \in AfterLookup,
                        NEW d \in dedupeCache, d.key = RoundKey(env[u])
                 PROVE  \E b \in answers' : b.env = env[u] /\ b.code \in Causes
      BY <1>1 DEF UnansweredMeanwhile, Cached, CachedRounds, RoundKey, Caused
    <2>1. Caused(env[u])
      BY <1>1 DEF LifeInv, UnansweredMeanwhile, Cached, CachedRounds
    <2> QED
      BY <2>1, Lasts
  <1> QED
    BY <1>2, <1>3, <1>4, <1>5, <1>6

\* The answer of a handler becomes one more answer.
LEMMA CompleteLasts ==
    ASSUME Complete, NEW e, returned' # None => returned'.env = e
    PROVE  /\ answers \subseteq answers'
           /\ \A a \in answers' : a \in answers \/ (a.env = e /\ a.code = returned'.code)
           /\ returned' # None => \E a \in answers' : a.env = e /\ a.code = returned'.code
  <1>1. CASE returned' = None
    BY <1>1 DEF Complete
  <1>2. CASE returned' # None
    <2> DEFINE b == [env |-> returned'.env, code |-> returned'.code, log |-> returned'.log]
    <2>1. answers' = answers \cup {b}
      BY <1>2 DEF Complete
    <2>2. b.env = e /\ b.code = returned'.code
      BY <1>2
    <2> HIDE DEF b
    <2> QED
      BY <1>2, <2>1, <2>2
  <1> QED
    BY <1>1, <1>2

\* A handler that gives the operation nothing leaves an answer that was given,
\* or a cause, or a refusal that had one.
LEMMA HandlerKeepsLife ==
    ASSUME AllInv, LifeInv, \A c \in Cards : c.key = Initiator,
           NEW t \in Tasks, ReceiverStep(t), ~ \E o \in Outcomes : ProcessRound(t, o) \/ Receive(t, o)
    PROVE  LifeInv'
  <1>1. /\ TaskStep(t) \/ Cancel(t)
        /\ Complete /\ run' = run
    BY DEF ReceiverStep
  <1>2. Unmoved
    BY <1>1, TaskStepKinds, HandlerUnmoved DEF AllInv
  <1>3. now' = now /\ restarts' = restarts
    BY <1>1, HandlerClock
  <1>4. CASE GoesOn(t)
    <2>1. answers' = answers
      BY <1>1, <1>4 DEF Complete, GoesOn
    <2> QED
      BY <1>2, <1>3, <1>4, <2>1, GoingOnKeeps DEF Unmoved
  <1>5. ASSUME Leaves(t), UNCHANGED dedupeCache,
               \A s \in Sids : rxSessions'[s] \in {None, rxSessions[s]},
               OnlySpends(env[t].intent),
               returned' # None => returned'.env = env[t],
               \/ Cached(env[t]) /\ returned'.code \in ReplyCodes
               \/ FailsForCause(t)
               \/ Caused(env[t])
        PROVE  LifeInv'
    <2>1. PICK r \in Runs, n \in 1..MaxRounds :
                 env[t] = Message(r, n) /\ env[t].intent = SignedIntent(r, n)
      BY <1>5, HandledMessage DEF Leaves
    <2>2. /\ answers \subseteq answers'
          /\ \A a \in answers' : a \in answers \/ (a.env = env[t] /\ a.code = returned'.code)
          /\ returned' # None => \E a \in answers' : a.env = env[t] /\ a.code = returned'.code
      BY <1>1, <1>5, CompleteLasts
    <2>3. Lasting
      BY <1>5, <2>2 DEF Lasting
    <2>4. Cached(Message(r, n))' \/ Caused(Message(r, n))'
      <3>1. CASE Cached(env[t]) \/ Caused(env[t])
        BY <2>1, <2>3, <3>1, Lasts DEF Cached, CachedRounds, RoundKey, Caused
      <3>2. CASE FailsForCause(t)
        BY <2>1, <2>2, <3>2 DEF FailsForCause, Caused
      <3> QED
        BY <1>5, <3>1, <3>2
    <2>5. SpentAnswered' /\ FirstShares'
      BY <1>5, <2>1, <2>3, <2>4, LeavingKeeps
    <2>6. CacheLives' /\ OpenedByFirst' /\ FirstTaken' /\ LateClosed' /\ UnansweredMeanwhile'
      BY <1>2, <1>3, <1>5, <2>3, QuietLeavingKeeps DEF Unmoved
    <2>7. Explained'
      <3>1. \A a \in answers : a.code \in ReplyCodes \cup Causes \/ Caused(a.env)'
        BY <2>3, Lasts DEF LifeInv, Explained, Caused
      <3>2. returned'.code \in ReplyCodes \cup Causes \/ Caused(Message(r, n))'
        <4>1. CASE Caused(env[t])
          BY <2>1, <2>3, <4>1, Lasts DEF Caused
        <4> QED
          BY <1>5, <4>1 DEF FailsForCause
      <3> QED
        BY <2>1, <2>2, <3>1, <3>2 DEF Explained, Caused
    <2> QED
      BY <2>5, <2>6, <2>7 DEF LifeInv
  <1>6. CASE DedupeHit(t)
    <2>1. PICK d \in CachedRounds(env[t]) :
                 UNCHANGED <<cacheVars, sessionVars>> /\ Return(t, d.code, d.log, FALSE)
      BY <1>6 DEF DedupeHit
    <2>2. pc[t] = "section" /\ pc'[t] = "idle"
      BY <1>6, <2>1 DEF DedupeHit, At, Return, AllInv, TypeOK, TaskTypes
    <2>3. ~Wake(t) /\ ~Moves(t)
      BY <2>2 DEF Wake, Moves, AfterLookup, AllInv, TypeOK, TaskTypes
    <2>4. Leaves(t)
      BY <1>1, <2>3, HandlerLockSteps DEF AllInv
    <2>5. /\ Cached(env[t]) /\ d \in dedupeCache /\ d.code \in ReplyCodes
          /\ UNCHANGED <<dedupeCache, replayCache, rxSessions>>
          /\ returned'.env = env[t] /\ returned'.code = d.code
      BY <2>1 DEF Cached, CachedRounds, LifeInv, CacheLives, Return, cacheVars, sessionVars
    <2>6. OnlySpends(env[t].intent)
      BY <2>5 DEF OnlySpends
    <2> QED
      BY <1>5, <2>4, <2>5, <2>6
  <1>7. CASE Quits(t) /\ (Refuses(t) \/ FailsForCause(t))
    <2>1. FailsForCause(t) \/ Caused(env[t])
      BY <1>7, RefusedIsCaused
    <2>2. returned' # None => returned'.env = env[t]
      BY <1>1, OwnEnvelope DEF AllInv
    <2> QED
      BY <1>5, <1>7, <2>1, <2>2 DEF Quits
  <1> QED
    BY <1>1, <1>4, <1>6, <1>7, HandlerKinds DEF AllInv

\* Only a first message opens a session, and the one it opens is pinned to the
\* initiator's key.
LEMMA OpensFirst ==
    ASSUME AllInv, \A c \in Cards : c.key = Initiator,
           NEW t \in Tasks, NEW o \in Outcomes, Receive(t, o), InOrder(t), Taken(t),
           NEW r \in Runs, NEW n \in 1..MaxRounds, env[t] = Message(r, n)
    PROVE  /\ n = 1
           /\ \A s \in Sids \ {r} : rxSessions'[s] = rxSessions[s]
           /\ \/ rxSessions'[r] = rxSessions[r]
              \/ rxSessions'[r].key = Initiator /\ rxSessions'[r].openingPhase = 1
  <1>1. r \in Sids /\ env[t].sid = r /\ env[t].phase = n
    BY MessageFacts
  <1>2. n = 1
    BY <1>1 DEF Receive, AcceptOpening, At, StateGiven, InOrder
  <1>3. card[t] \in Cards
    BY DEF Receive, AcceptOpening, At, AllInv, TypeOK, TaskTypes
  <1>4. rxSessions' = [rxSessions EXCEPT ![r] =
                        IF o \in Finishes THEN rxSessions[r]
                        ELSE [key |-> card[t].key, openingPhase |-> 1]]
    BY <1>1, <1>2 DEF Receive
  <1> QED
    BY <1>1, <1>2, <1>3, <1>4 DEF AllInv, TypeOK, SessionTypes

\* A round leaves the pin or ends the session.
LEMMA RoundKeepsPin ==
    ASSUME AllInv, NEW t \in Tasks, NEW o \in Outcomes, ProcessRound(t, o),
           NEW r \in Runs, NEW n \in 1..MaxRounds, env[t] = Message(r, n)
    PROVE  /\ rxSessions[r] # None
           /\ \A s \in Sids : rxSessions'[s] \in {None, rxSessions[s]}
  <1>1. r \in Sids /\ env[t].sid = r
    BY MessageFacts
  <1>2. rxSessions' = [rxSessions EXCEPT ![r] = IF o \in Finishes THEN None ELSE rxSessions[r]]
    BY <1>1 DEF ProcessRound
  <1> QED
    BY <1>1, <1>2 DEF ProcessRound, AcceptRound, Round, AllInv, TypeOK, SessionTypes

\* When the operation takes a message, no other task is past its look at the
\* reply cache with a copy of it, unless that had a cause: a later message is on
\* the opening path only while its session is closed, and the copies of a first
\* one share the lock.
LEMMA TakesAlone ==
    ASSUME AllInv, OneHolder, LifeInv,
           NEW t \in Tasks, NEW o \in Outcomes, ProcessRound(t, o) \/ Receive(t, o),
           NEW r \in Runs, NEW n \in 1..MaxRounds, env[t] = Message(r, n), Takes(r, n),
           Receive(t, o) => n = 1,
           NEW u \in Tasks \ {t}, pc[u] \in AfterLookup, env[u] = Message(r, n)
    PROVE  Caused(Message(r, n))
  <1>1. r \in Sids /\ env[u].sid = r /\ env[u].phase = n
    BY MessageFacts
  <1>2. taken[r] + 1 = n /\ taken[r] \in Nat
    BY RunAssumption DEF Takes, AllInv, SystemInv
  <1>3. CASE ProcessRound(t, o)
    <2>1. rxSessions[r] # None
      BY <1>3, RoundKeepsPin
    <2>2. n = 1
      BY <1>1, <2>1 DEF LifeInv, LateClosed
    <2>3. taken[r] # 0
      BY <2>1 DEF LifeInv, OpenedByFirst
    <2> QED
      BY <1>2, <2>2, <2>3
  <1>4. CASE Receive(t, o)
    <2>1. n = 1 /\ pc[t] = "open"
      BY <1>4 DEF Receive, AcceptOpening, At
    <2>2. ~Cached(Message(r, 1)) \/ Caused(Message(r, 1))
      BY <2>1 DEF LifeInv, UnansweredMeanwhile, AfterLookup
    <2>3. ASSUME ~Cached(Message(r, 1)), ~Caused(Message(r, 1)) PROVE FALSE
      <3>1. lock[t] = lock[u]
        BY <2>1, <2>3 DEF LifeInv, FirstShares
      <3> QED
        BY <2>1, <3>1 DEF OneHolder, InSection, AfterLookup
    <2> QED
      BY <2>1, <2>2, <2>3
  <1> QED
    BY <1>3, <1>4

\* The operation takes a message: its answer is cached under its key.
LEMMA TakingKeepsLife ==
    ASSUME AllInv, OneHolder, LifeInv, \A c \in Cards : c.key = Initiator,
           NEW t \in Tasks, ReceiverStep(t),
           NEW o \in Outcomes, ProcessRound(t, o) \/ Receive(t, o)
    PROVE  LifeInv'
  <1>1. /\ TaskStep(t) \/ Cancel(t)
        /\ InOrder(t) /\ Complete /\ run' = run
    BY DEF ReceiverStep
  <1>2. PICK r \in Runs, n \in 1..MaxRounds :
               env[t] = Message(r, n) /\ Takes(r, n) /\ AnswersWith(t, Conversation(r, n))
    BY TakingIsTake
  <1>3. /\ r \in Sids /\ env[t] \in Envelopes /\ env[t].sid = r /\ env[t].phase = n
        /\ RoundKey(env[t]) = <<r, n, HashPayload(n)>> /\ env[t].intent = SignedIntent(r, n)
    BY <1>2, MessageFacts DEF Message
  <1>4. PICK u \in Runs, m \in 1..MaxRounds : env[t] = Message(u, m) /\ Taken(t)
    BY <1>1, TakingStep DEF AllInv
  <1>5. now = 0 /\ now' = 0
    BY <1>1, HandlerClock DEF AllInv, ExchangeInv
  <1>6. returned' # None /\ returned'.env = env[t] /\ returned'.code \in ReplyCodes
    BY <1>1, <1>2, <1>4, OwnEnvelope DEF AllInv, Taken, AnswersWith
  <1>7. /\ answers \subseteq answers'
        /\ \A a \in answers' : a \in answers \/ (a.env = env[t] /\ a.code = returned'.code)
    BY <1>1, <1>6, CompleteLasts
  <1>8. \E d : /\ dedupeCache' = { b \in dedupeCache : b.key # <<r, n, HashPayload(n)>> } \cup {d}
               /\ d.key = <<r, n, HashPayload(n)>> /\ d.expires > 0 /\ d.code \in ReplyCodes
    <2> DEFINE new(log) ==
          [key |-> RoundKey(env[t]), expires |-> now + DedupeTTL,
           code |-> IF o \in Answers THEN "REPLY" ELSE "NO_REPLY", log |-> log]
    <2>1. PICK log : dedupeCache' = { b \in dedupeCache : b.key # RoundKey(env[t]) } \cup {new(log)}
      BY DEF ProcessRound, Receive, Answer
    <2>2. /\ new(log).key = <<r, n, HashPayload(n)>> /\ new(log).expires = DedupeTTL
          /\ new(log).code \in ReplyCodes
      BY <1>3, <1>5, BoundAssumption DEF ReplyCodes
    <2> HIDE DEF new
    <2>3. dedupeCache' = { b \in dedupeCache : b.key # <<r, n, HashPayload(n)>> } \cup {new(log)}
      BY <1>3, <2>1
    <2>4. new(log).expires > 0
      BY <2>2, BoundAssumption
    <2> QED
      BY <2>2, <2>3, <2>4
  <1>9. Lasting
    BY <1>7, <1>8 DEF Lasting
  <1>10. Cached(Message(r, n))'
    BY <1>8, MessageFacts DEF Cached, CachedRounds, RoundKey
  <1>11. ASSUME NEW e, Cached(e) PROVE \E d \in dedupeCache' : d.key = RoundKey(e)
    BY <1>9, <1>11, Lasts
  <1>12. /\ pc[t] \in {"section", "open"} /\ pc'[t] = "idle"
         /\ OnlySpends(SignedIntent(r, n))
    BY <1>3 DEF ProcessRound, Receive, AcceptRound, AcceptOpening, Round, NewRound, At, Spend,
                LiveIntents, OnlySpends, Answer, Return, AllInv, TypeOK, TaskTypes
  <1>13. Leaves(t)
    <2>1. ~Wake(t) /\ ~Moves(t)
      BY <1>12 DEF Wake, Moves, AfterLookup, AllInv, TypeOK, TaskTypes
    <2> QED
      BY <1>1, <2>1, HandlerLockSteps DEF AllInv
  <1>14. Receive(t, o) =>
           /\ n = 1
           /\ \A s \in Sids \ {r} : rxSessions'[s] = rxSessions[s]
           /\ \/ rxSessions'[r] = rxSessions[r]
              \/ rxSessions'[r].key = Initiator /\ rxSessions'[r].openingPhase = 1
    BY <1>1, <1>2, <1>4, OpensFirst
  <1>15. ProcessRound(t, o) =>
           rxSessions[r] # None /\ \A s \in Sids : rxSessions'[s] \in {None, rxSessions[s]}
    BY <1>2, RoundKeepsPin
  <1>16. SpentAnswered' /\ FirstShares'
    BY <1>2, <1>9, <1>10, <1>12, <1>13, LeavingKeeps
  <1>17. CacheLives'
    BY <1>5, <1>8 DEF LifeInv, CacheLives
  <1>18. /\ taken' = [taken EXCEPT ![r] = n] /\ taken[r] + 1 = n /\ taken[r] \in Nat
         /\ taken \in [Runs -> 0..MaxRounds] /\ n # 0
    BY <1>2, RunAssumption DEF Takes, AllInv, SystemInv
  <1>19. OpenedByFirst'
    <2> SUFFICES ASSUME NEW v \in Runs, rxSessions'[v] # None
                 PROVE  /\ rxSessions'[v].key = Initiator /\ rxSessions'[v].openingPhase = 1
                        /\ taken'[v] # 0
      BY DEF OpenedByFirst
    <2>1. v \in Sids
      BY RunAssumption, MessageFacts
    <2>2. CASE rxSessions'[v] = rxSessions[v]
      BY <1>18, <2>2 DEF LifeInv, OpenedByFirst
    <2>3. CASE rxSessions'[v] # rxSessions[v]
      <3>1. v = r /\ rxSessions'[v].key = Initiator /\ rxSessions'[v].openingPhase = 1
        BY <1>14, <1>15, <2>1, <2>3
      <3> QED
        BY <1>18, <3>1
    <2> QED
      BY <2>2, <2>3
  <1>20. FirstTaken'
    <2> SUFFICES ASSUME NEW v \in Runs
                 PROVE  /\ run'[v].asked > 1 \/ Replied(v)' # {} => taken'[v] # 0
                        /\ taken'[v] # 0 => \E d \in dedupeCache' : d.key = RoundKey(Message(v, 1))
      BY DEF FirstTaken, Cached, CachedRounds, RoundKey
    <2>1. CASE v # r
      <3>1. taken'[v] = taken[v] /\ Replied(v)' = Replied(v)
        BY <1>2, <1>18, <2>1 DEF Takes
      <3> QED
        BY <1>1, <1>11, <3>1 DEF LifeInv, FirstTaken
    <2>2. CASE v = r
      <3>1. taken'[r] # 0
        BY <1>18
      <3>2. CASE n = 1
        BY <1>3, <1>8, <2>2, <3>1, <3>2, <1>2
      <3>3. CASE n # 1
        BY <1>11, <1>18, <2>2, <3>1, <3>3 DEF LifeInv, FirstTaken
      <3> QED
        BY <3>2, <3>3
    <2> QED
      BY <2>1, <2>2
  <1>21. ASSUME NEW v \in Tasks, pc'[v] \in AfterLookup
         PROVE  v # t /\ pc[v] \in AfterLookup /\ pc[v] # "idle" /\ env'[v] = env[v]
    BY <1>13, <1>21 DEF Leaves, AfterLookup, AllInv, TypeOK, TaskTypes
  <1>22. LateClosed'
    <2> SUFFICES ASSUME NEW v \in Tasks, pc'[v] \in AfterLookup, env[v].phase # 1
                 PROVE  rxSessions'[env[v].sid] = None
      BY <1>21 DEF LateClosed
    <2>1. PICK w \in Runs, k \in 1..MaxRounds :
                 env[v] = Message(w, k) /\ w \in Sids /\ env[v].sid = w /\ env[v].phase = k
      BY <1>21, HandledMessage
    <2>2. rxSessions[w] = None /\ taken[w] # 0
      BY <1>21, <2>1, LaterIsAsked DEF LifeInv, LateClosed
    <2>3. CASE ProcessRound(t, o)
      BY <1>15, <2>1, <2>2, <2>3
    <2>4. CASE Receive(t, o)
      <3>1. w # r
        BY <1>14, <1>18, <2>2, <2>4
      <3> QED
        BY <1>14, <2>1, <2>2, <2>4, <3>1
    <2> QED
      BY <2>1, <2>3, <2>4
  <1>23. UnansweredMeanwhile'
    <2> SUFFICES ASSUME NEW v \in Tasks, pc'[v] \in AfterLookup,
                        NEW d \in dedupeCache', d.key = RoundKey(env[v])
                 PROVE  \E b \in answers' : b.env = env[v] /\ b.code \in Causes
      BY <1>21 DEF UnansweredMeanwhile, Cached, CachedRounds, RoundKey, Caused
    <2>1. Caused(env[v])
      <3>1. CASE d \in dedupeCache
        BY <1>21, <3>1 DEF LifeInv, UnansweredMeanwhile, Cached, CachedRounds
      <3>2. CASE d.key = <<r, n, HashPayload(n)>>
        <4>1. PICK w \in Runs, k \in 1..MaxRounds :
                     env[v] = Message(w, k) /\ RoundKey(env[v]) = <<w, k, HashPayload(k)>>
          BY <1>21, HandledMessage
        <4>2. <<w, k, HashPayload(k)>> = <<r, n, HashPayload(n)>>
          BY <3>2, <4>1
        <4>3. w = r /\ k = n
          BY ONLY <4>2
        <4> QED
          BY <1>2, <1>14, <1>21, <4>1, <4>3, TakesAlone
      <3> QED
        BY <1>8, <3>1, <3>2
    <2> QED
      BY <1>9, <2>1, Lasts
  <1>24. Explained'
    <2>1. \A a \in answers : a.code \in ReplyCodes \cup Causes \/ Caused(a.env)'
      BY <1>9, Lasts DEF LifeInv, Explained, Caused
    <2> QED
      BY <1>6, <1>7, <2>1 DEF Explained, Caused
  <1> QED
    BY <1>16, <1>17, <1>19, <1>20, <1>22, <1>23, <1>24 DEF LifeInv

\* What is spent is accounted for by the caches and the answers alone.
LEMMA SpentStays ==
    ASSUME SpentAnswered, UNCHANGED <<replayCache, dedupeCache, answers>>
    PROVE  SpentAnswered'
  <1> SUFFICES ASSUME NEW i \in replayCache
               PROVE  \E r \in Runs, n \in 1..MaxRounds :
                        /\ i.intent = SignedIntent(r, n)
                        /\ (Cached(Message(r, n)) \/ Caused(Message(r, n)))'
    BY DEF SpentAnswered
  <1>1. PICK r \in Runs, n \in 1..MaxRounds :
               i.intent = SignedIntent(r, n) /\ (Cached(Message(r, n)) \/ Caused(Message(r, n)))
    BY DEF SpentAnswered
  <1>2. Cached(Message(r, n)) => Cached(Message(r, n))'
    BY DEF Cached, CachedRounds, RoundKey
  <1>3. Caused(Message(r, n)) => Caused(Message(r, n))'
    BY DEF Caused
  <1> QED
    BY <1>1, <1>2, <1>3

\* A message that arrives refers to the registered lock.
LEMMA DeliverKeepsLife ==
    ASSUME AllInv, LifeInv, NEW t \in Tasks, NEW e \in SentMessages, Deliver(t, e)
    PROVE  LifeInv'
  <1> DEFINE l == LockFor(e.sid)
  <1>1. e \in Envelopes /\ e.sid \in Sids
    BY SentFacts, MessageFacts
  <1>2. LiveRounds = dedupeCache
    BY DEF LiveRounds, LifeInv, CacheLives
  <1>3. /\ pc[t] = "idle" /\ pc' \in {[pc EXCEPT ![t] = "section"], [pc EXCEPT ![t] = "queued"]}
        /\ env' = [env EXCEPT ![t] = e] /\ lock' = [lock EXCEPT ![t] = l]
        /\ sessionLocks' = [sessionLocks EXCEPT ![e.sid] = l]
        /\ UNCHANGED <<now, replayCache, dedupeCache, rxSessions, run, answers, taken>>
    BY <1>2 DEF Deliver, HandleEnvelope, Idle, clockVars, sessionVars
  <1>4. sessionLocks[e.sid] = None \/ l = sessionLocks[e.sid]
    BY DEF LockFor
  <1> HIDE DEF l
  <1>5. /\ env'[t] = e /\ lock'[t] = l /\ pc'[t] \notin AfterLookup /\ sessionLocks'[e.sid] = l
        /\ \A s \in Sids \ {e.sid} : sessionLocks'[s] = sessionLocks[s]
        /\ \A u \in Tasks \ {t} : env'[u] = env[u] /\ lock'[u] = lock[u] /\ pc'[u] = pc[u]
    BY <1>1, <1>3 DEF AfterLookup, AllInv, TypeOK, TaskTypes, LockTypes
  <1>6. FirstShares'
    <2> SUFFICES ASSUME NEW v \in Runs, NEW u \in Tasks, env'[u] = Message(v, 1),
                        ~Cached(Message(v, 1)), ~Caused(Message(v, 1))
                 PROVE  lock'[u] = sessionLocks'[v]
      BY <1>3 DEF FirstShares, Cached, CachedRounds, RoundKey, Caused
    <2>1. v \in Sids /\ Message(v, 1).sid = v /\ Message(v, 1) # None
      BY RunAssumption, MessageFacts, NoneAssumption
    <2>2. CASE u = t
      BY <1>5, <2>1, <2>2
    <2>3. CASE u # t
      <3>1. env[u] = Message(v, 1) /\ lock[u] = sessionLocks[v] /\ lock'[u] = lock[u]
        BY <1>5, <2>3 DEF LifeInv, FirstShares
      <3>2. sessionLocks[v] # None
        BY <2>1, <3>1 DEF AllInv, TypeOK, TaskTypes
      <3> QED
        BY <1>4, <1>5, <2>1, <3>1, <3>2
    <2> QED
      BY <2>2, <2>3
  <1>7. LateClosed'
    BY <1>3, <1>5 DEF LifeInv, LateClosed
  <1>8. UnansweredMeanwhile'
    <2> SUFFICES ASSUME NEW u \in Tasks, pc'[u] \in AfterLookup
                 PROVE  ~Cached(env[u])' \/ Caused(env[u])'
      BY DEF UnansweredMeanwhile
    <2>1. pc'[u] = pc[u] /\ env'[u] = env[u]
      BY <1>5
    <2>2. ~Cached(env[u]) \/ Caused(env[u])
      BY <2>1 DEF LifeInv, UnansweredMeanwhile
    <2>3. /\ Cached(env[u])' <=> Cached(env[u])
          /\ Caused(env[u])' <=> Caused(env[u])
      BY <1>3, <2>1 DEF Cached, CachedRounds, RoundKey, Caused
    <2> QED
      BY <2>2, <2>3
  <1>9. CacheLives' /\ OpenedByFirst'
    BY <1>3 DEF LifeInv, CacheLives, OpenedByFirst
  <1>10. SpentAnswered'
    BY <1>3, SpentStays DEF LifeInv
  <1>11. FirstTaken'
    BY <1>3 DEF LifeInv, FirstTaken, Cached, CachedRounds, RoundKey, Replied
  <1>12. Explained'
    BY <1>3 DEF LifeInv, Explained, Caused
  <1> QED
    BY <1>6, <1>7, <1>8, <1>9, <1>10, <1>11, <1>12 DEF LifeInv

\* The conditions on the receiver alone stay while nothing of it moves.
LEMMA StillLife ==
    ASSUME LifeInv,
           UNCHANGED <<now, pc, env, lock, sessionLocks, replayCache, dedupeCache, rxSessions,
                       answers, taken>>
    PROVE  /\ CacheLives' /\ SpentAnswered' /\ OpenedByFirst' /\ LateClosed' /\ FirstShares'
           /\ UnansweredMeanwhile' /\ Explained'
  <1>1. CacheLives'
    BY DEF LifeInv, CacheLives
  <1>2. OpenedByFirst'
    BY DEF LifeInv, OpenedByFirst
  <1>3. LateClosed'
    BY DEF LifeInv, LateClosed
  <1>4. SpentAnswered'
    BY SpentStays DEF LifeInv
  <1>5. FirstShares'
    BY DEF LifeInv, FirstShares, Cached, CachedRounds, RoundKey, Caused
  <1>6. UnansweredMeanwhile'
    BY DEF LifeInv, UnansweredMeanwhile, Cached, CachedRounds, RoundKey, Caused
  <1>7. Explained'
    BY DEF LifeInv, Explained, Caused
  <1> QED
    BY <1>1, <1>2, <1>3, <1>4, <1>5, <1>6, <1>7

\* Only the answer to the first message lets a run go beyond it.
LEMMA RunKeepsLife ==
    ASSUME AllInv, LifeInv, NEW r \in Runs, RunStep(r)
    PROVE  LifeInv'
  <1>1. /\ UNCHANGED <<now, pc, env, lock, sessionLocks, replayCache, dedupeCache, rxSessions>>
        /\ UNCHANGED <<answers, taken>>
    BY RunMoves
       DEF InitiatorStep, receiverVars, vars, clockVars, taskVars, lockVars, cacheVars,
           sessionVars
  <1>2. \A u \in Runs : run'[u].asked > 1 => run[u].asked > 1 \/ Replied(u) # {}
    <2>1. \A u \in Runs : run[u].asked \in Nat
      BY RunAssumption DEF AllInv, SystemInv, InitiatorInv, RunType
    <2>2. CASE MayGoOn(r) /\ GetsTo(r, "waiting", run[r].asked + 1)
      <3>1. CASE run[r].at = "idle"
        <4>1. run[r].asked = 0
          BY <3>1 DEF AllInv, SystemInv, InitiatorInv, RunSound
        <4> QED
          BY <2>1, <2>2, <4>1 DEF GetsTo
      <3>2. CASE run[r].at = "waiting" /\ Answered(r) = run[r].asked
        <4>1. run[r].asked \in 1..MaxRounds
          BY <3>2 DEF AllInv, SystemInv, InitiatorInv, RunSound
        <4>2. Answered(r) # 0
          BY <3>2, <4>1
        <4>3. Replied(r) # {}
          BY <4>2 DEF Answered, LastOf
        <4> QED
          BY <2>1, <2>2, <4>3 DEF GetsTo
      <3> QED
        BY <2>2, <3>1, <3>2 DEF MayGoOn
    <2>3. CASE \E how : GetsTo(r, how, run[r].asked)
      BY <2>3 DEF GetsTo
    <2> QED
      BY <2>2, <2>3, RunMoves
  <1>3. FirstTaken'
    BY <1>1, <1>2 DEF LifeInv, FirstTaken, Cached, CachedRounds, RoundKey, Replied
  <1> QED
    BY <1>1, <1>3, StillLife DEF LifeInv

\* Every step keeps the invariant; a restart ends the life it speaks of.
LEMMA LifePreserved ==
    ASSUME AllInv, RefusalInv, \A c \in Cards : c.key = Initiator, [SystemNext]_systemVars
    PROVE  RefusalInv'
  <1>1. OneHolder'
    BY SystemStepIsReceiverStep, HolderKept DEF AllInv, RefusalInv
  <1>2. CASE \E r \in Runs : RunStep(r)
    <2>1. restarts' = restarts
      BY <1>2, RunMoves DEF InitiatorStep, receiverVars, vars, clockVars
    <2> QED
      BY <1>1, <1>2, <2>1, RunKeepsLife DEF RefusalInv
  <1>3. CASE \E t \in Tasks, e \in SentMessages : Deliver(t, e)
    <2>1. restarts' = restarts
      BY <1>3 DEF Deliver, HandleEnvelope, clockVars
    <2> QED
      BY <1>1, <1>3, <2>1, DeliverKeepsLife DEF RefusalInv
  <1>4. ASSUME NEW t \in Tasks, ReceiverStep(t) PROVE RefusalInv'
    <2>1. restarts' = restarts
      BY <1>4, HandlerClock DEF ReceiverStep
    <2> QED
      BY <1>1, <1>4, <2>1, TakingKeepsLife, HandlerKeepsLife DEF RefusalInv
  <1>5. CASE ReceiverRestarts
    <2>1. restarts' # 0
      BY <1>5 DEF ReceiverRestarts, Restart, AllInv, TypeOK, ClockTypes
    <2> QED
      BY <1>1, <2>1 DEF RefusalInv
  <1>6. ASSUME LifeInv, UNCHANGED systemVars PROVE LifeInv'
    <2>1. /\ UNCHANGED <<now, pc, env, lock, sessionLocks, replayCache, dedupeCache, rxSessions>>
          /\ UNCHANGED <<run, answers, taken>>
      BY <1>6 DEF systemVars, receiverVars, vars, clockVars, taskVars, lockVars, cacheVars,
                  sessionVars
    <2>2. FirstTaken'
      BY <1>6, <2>1 DEF LifeInv, FirstTaken, Cached, CachedRounds, RoundKey, Replied
    <2> QED
      BY <1>6, <2>1, <2>2, StillLife DEF LifeInv
  <1>7. CASE UNCHANGED systemVars
    BY <1>1, <1>6, <1>7 DEF systemVars, receiverVars, vars, clockVars, RefusalInv
  <1> QED
    BY <1>2, <1>3, <1>4, <1>5, <1>7 DEF SystemNext

\* A system starts with nothing spent, handled or answered.
LEMMA LifeInit == SystemInit => RefusalInv
  <1> SUFFICES ASSUME SystemInit PROVE RefusalInv
    OBVIOUS
  <1>1. \A r \in Runs : run[r].asked = 0 /\ taken[r] = 0 /\ Replied(r) = {} /\ r \in Sids
    BY RunAssumption, MessageFacts DEF SystemInit, Replied
  <1>2. OneHolder /\ LateClosed /\ UnansweredMeanwhile
    BY DEF SystemInit, Init, OneHolder, InSection, LateClosed, UnansweredMeanwhile, AfterLookup
  <1>3. CacheLives /\ SpentAnswered /\ Explained
    BY DEF SystemInit, Init, CacheLives, SpentAnswered, Explained
  <1>4. OpenedByFirst /\ FirstTaken
    BY <1>1 DEF SystemInit, Init, OpenedByFirst, FirstTaken
  <1>5. FirstShares
    BY RunAssumption, MessageFacts, NoneAssumption DEF SystemInit, Init, FirstShares
  <1> QED
    BY <1>2, <1>3, <1>4, <1>5 DEF RefusalInv, LifeInv

\* An initiator whose card verifies its signatures has its messages refused
\* only for a cause, as long as the receiver does not restart: the operation or
\* the environment failed, or an earlier copy of the very message met that.
\* However many copies are handled at once, and whatever becomes of the
\* session's lock, no refusal comes of the protocol itself (_core.py:296-297).
THEOREM OwnRefusalsHaveCauses ==
    ASSUME \A c \in Cards : c.key = Initiator
    PROVE  System => []RefusalsHaveCauses
  <1>1. System => []AllInv
    BY AllInvariant
  <1>2. SystemInit => RefusalInv
    BY LifeInit
  <1>3. AllInv /\ RefusalInv /\ [SystemNext]_systemVars => RefusalInv'
    BY LifePreserved
  <1>4. AllInv /\ RefusalInv => RefusalsHaveCauses
    BY DEF RefusalInv, LifeInv, Explained, Caused, RefusalsHaveCauses, AllInv, TypeOK, ClockTypes
  <1> QED
    BY <1>1, <1>2, <1>3, <1>4, PTL DEF System

=============================================================================
