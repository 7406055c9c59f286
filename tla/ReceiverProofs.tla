--------------------------- MODULE ReceiverProofs ---------------------------
(***************************************************************************)
(* Proofs about Receiver, for every set of tasks, sessions, envelopes and  *)
(* cards and for every choice of faults and bounds.                        *)
(***************************************************************************)
EXTENDS Receiver, SequenceTheorems, TLAPS

-----------------------------------------------------------------------------
(* Type correctness.                                                       *)

\* A task that is handling something has an envelope of a known session.
LEMMA BusyTask ==
    ASSUME TypeOK, NEW t \in Tasks, pc[t] # "idle"
    PROVE  /\ env[t] \in Envelopes
           /\ env[t].sid \in Sids
           /\ lock[t] \in LockIds
  BY EnvelopeAssumption DEF TypeOK, TaskTypes, LockOrNone

\* An envelope's intent is one of the intents, and its expiry is a time.
LEMMA IntentType ==
    ASSUME NEW e \in Envelopes, e.intent # None
    PROVE  e.intent \in Intents /\ e.intent.expiry \in Nat
  BY EnvelopeAssumption DEF Intents

\* A task that leaves a queue leaves a queue of tasks.
LEMMA WithoutType ==
    ASSUME NEW q \in Seq(Tasks), NEW t
    PROVE  Without(q, t) \in Seq(Tasks)
  <1>1. CASE \E n \in 1..Len(q) : q[n] = t
    <2> DEFINE n == CHOOSE n \in 1..Len(q) : q[n] = t
    <2>1. n \in 1..Len(q)
      BY <1>1
    <2> HIDE DEF n
    <2>2. SubSeq(q, 1, n - 1) \in Seq(Tasks) /\ SubSeq(q, n + 1, Len(q)) \in Seq(Tasks)
      BY <2>1
    <2>3. SubSeq(q, 1, n - 1) \o SubSeq(q, n + 1, Len(q)) \in Seq(Tasks)
      BY <2>2
    <2> QED
      BY <1>1, <2>3 DEF Without, n
  <1>2. CASE ~ \E n \in 1..Len(q) : q[n] = t
    BY <1>2 DEF Without
  <1> QED
    BY <1>1, <1>2

\* Whatever a handler returns, the tasks, the lock registry and the history
\* keep their types.
LEMMA ReturnTypes ==
    ASSUME TypeOK, NEW t \in Tasks, pc[t] # "idle", running \in {t, None},
           NEW code, NEW log, NEW ran \in BOOLEAN,
           ran => env[t].intent # None,
           Return(t, code, log, ran)
    PROVE  /\ ClockTypes'
           /\ TaskTypes'
           /\ sessionLocks' \in [Sids -> LockOrNone]
           /\ HistoryTypes'
  <1>1. env[t] \in Envelopes /\ env[t].sid \in Sids
    BY BusyTask
  <1>2. ClockTypes'
    BY DEF Return, TypeOK, ClockTypes, clockVars
  <1>3. TaskTypes'
    BY NoneAssumption DEF Return, TypeOK, TaskTypes, InSection, LockOrNone
  <1>4. sessionLocks' \in [Sids -> LockOrNone]
    BY <1>1 DEF Return, DropLock, TypeOK, LockTypes, LockOrNone
  <1>5. HistoryTypes'
    BY <1>1, IntentType DEF Return, TypeOK, HistoryTypes
  <1> QED
    BY <1>2, <1>3, <1>4, <1>5

\* A refusal keeps every type, given what it leaves of the caches.
LEMMA RefuseTypes ==
    ASSUME TypeOK, NEW t \in Tasks, pc[t] # "idle", running \in {t, None}, NEW code,
           Refuse(t, code), CacheTypes'
    PROVE  TypeOK'
  <1>1. ClockTypes' /\ TaskTypes' /\ sessionLocks' \in [Sids -> LockOrNone] /\ HistoryTypes'
    BY ReturnTypes DEF Refuse
  <1>2. SessionTypes'
    BY DEF Refuse, TypeOK, SessionTypes, sessionVars
  <1>3. LockTypes'
    BY <1>1 DEF Refuse, TypeOK, LockTypes
  <1> QED
    BY <1>1, <1>2, <1>3 DEF TypeOK

\* Sweeping and spending an intent keep the replay cache a set of entries.
LEMMA SpendType ==
    ASSUME TypeOK, NEW e \in Envelopes, e.intent # None, Spend(e.intent)
    PROVE  replayCache' \subseteq ReplayEntry
  <1>1. e.intent \in Intents /\ ParseExpiry(e.intent) \in Nat
    BY IntentType DEF ParseExpiry, TypeOK, ClockTypes
  <1> QED
    BY <1>1 DEF Spend, LiveIntents, ReplayEntry, TypeOK, CacheTypes

\* So does an answer of the operation, given what the operation made of the
\* sessions: the new reply expires at a time.
LEMMA AnswerTypes ==
    ASSUME TypeOK, NEW t \in Tasks, pc[t] # "idle", running \in {t, None}, env[t].intent # None,
           NEW outcome, NEW log,
           Answer(t, outcome, log),
           replayCache' \subseteq ReplayEntry, SessionTypes'
    PROVE  TypeOK'
  <1>1. PICK code, reply : Return(t, code, reply, TRUE)
    BY DEF Answer
  <1>2. ClockTypes' /\ TaskTypes' /\ sessionLocks' \in [Sids -> LockOrNone] /\ HistoryTypes'
    BY <1>1, ReturnTypes
  <1>3. now + DedupeTTL \in Nat
    BY BoundAssumption DEF TypeOK, ClockTypes
  <1>4. CacheTypes'
    BY <1>3 DEF Answer, TypeOK, CacheTypes
  <1>5. LockTypes'
    BY <1>2 DEF Answer, TypeOK, LockTypes
  <1> QED
    BY <1>2, <1>4, <1>5 DEF TypeOK

\* A process starts with every variable of its type.
LEMMA InitTypes == Init => TypeOK
  BY NoneAssumption
     DEF Init, TypeOK, ClockTypes, TaskTypes, LockTypes, CacheTypes, SessionTypes,
         HistoryTypes, InSection, LockOrNone

\* Up to the lock.
LEMMA ArrivalTypes ==
    ASSUME TypeOK, NEW t \in Tasks, NEW e \in Envelopes, HandleEnvelope(t, e)
    PROVE  TypeOK'
  <1> DEFINE l == LockFor(e.sid)
  <1>1. e.sid \in Sids /\ e # None
    BY EnvelopeAssumption, NoneAssumption
  <1>2. l \in LockIds
    <2>1. CASE sessionLocks[e.sid] # None
      BY <1>1, <2>1 DEF LockFor, TypeOK, LockTypes, LockOrNone
    <2>2. CASE sessionLocks[e.sid] = None
      <3>1. UnusedLocks # {}
        BY <2>2 DEF HandleEnvelope
      <3> QED
        BY <2>2, <3>1 DEF LockFor, UnusedLocks
    <2> QED
      BY <2>1, <2>2
  <1>3. l # None
    BY <1>2, NoneAssumption
  <1>4. /\ sessionLocks' = [sessionLocks EXCEPT ![e.sid] = l]
        /\ env' = [env EXCEPT ![t] = e]
        /\ lock' = [lock EXCEPT ![t] = l]
        /\ card' = card /\ running = None /\ pc[t] = "idle"
        /\ replayCache' = replayCache /\ UNCHANGED <<clockVars, sessionVars, historyVars>>
    BY DEF HandleEnvelope, Idle
  <1>5. \/ /\ pc' = [pc EXCEPT ![t] = "section"] /\ running' = t
           /\ dedupeCache' = LiveRounds /\ waiters' = waiters
        \/ /\ pc' = [pc EXCEPT ![t] = "queued"] /\ running' = running
           /\ waiters' = [waiters EXCEPT ![l] = Append(@, t)] /\ dedupeCache' = dedupeCache
    BY DEF HandleEnvelope
  <1> HIDE DEF l
  <1>6. TaskTypes'
    BY <1>1, <1>2, <1>3, <1>4, <1>5, NoneAssumption
       DEF TypeOK, TaskTypes, InSection, LockOrNone
  <1>7. LockTypes'
    <2>1. sessionLocks' \in [Sids -> LockOrNone]
      BY <1>1, <1>2, <1>4 DEF TypeOK, LockTypes, LockOrNone
    <2>2. Append(waiters[l], t) \in Seq(Tasks)
      BY <1>2 DEF TypeOK, LockTypes
    <2>3. waiters' = waiters \/ waiters' = [waiters EXCEPT ![l] = Append(waiters[l], t)]
      BY <1>5
    <2>4. waiters' \in [LockIds -> Seq(Tasks)]
      BY <1>2, <2>2, <2>3 DEF TypeOK, LockTypes
    <2> QED
      BY <2>1, <2>4 DEF LockTypes
  <1>8. CacheTypes'
    BY <1>4, <1>5 DEF TypeOK, CacheTypes, LiveRounds
  <1>9. ClockTypes' /\ SessionTypes' /\ HistoryTypes'
    BY <1>4 DEF TypeOK, ClockTypes, SessionTypes, HistoryTypes, clockVars, sessionVars,
                historyVars
  <1> QED
    BY <1>6, <1>7, <1>8, <1>9 DEF TypeOK

\* Out of the lock's queue.
LEMMA WakeTypes ==
    ASSUME TypeOK, NEW t \in Tasks, Wake(t)
    PROVE  TypeOK'
  <1>1. lock[t] \in LockIds
    BY BusyTask DEF Wake
  <1>2. TaskTypes'
    BY NoneAssumption DEF Wake, TypeOK, TaskTypes, InSection
  <1>3. LockTypes'
    <2>1. Tail(waiters[lock[t]]) \in Seq(Tasks)
      BY <1>1 DEF Wake, TypeOK, LockTypes
    <2>2. /\ waiters' = [waiters EXCEPT ![lock[t]] = Tail(waiters[lock[t]])]
          /\ sessionLocks' = sessionLocks
      BY DEF Wake
    <2> QED
      BY <1>1, <2>1, <2>2 DEF TypeOK, LockTypes
  <1>4. CacheTypes'
    BY DEF Wake, TypeOK, CacheTypes, LiveRounds
  <1> QED
    BY <1>2, <1>3, <1>4
       DEF Wake, TypeOK, ClockTypes, SessionTypes, HistoryTypes, clockVars, sessionVars,
           historyVars

\* The section.
LEMMA DedupeHitTypes ==
    ASSUME TypeOK, NEW t \in Tasks, DedupeHit(t)
    PROVE  TypeOK'
  <1>1. PICK d \in CachedRounds(env[t]) : Return(t, d.code, d.log, FALSE)
    BY DEF DedupeHit
  <1>2. ClockTypes' /\ TaskTypes' /\ sessionLocks' \in [Sids -> LockOrNone] /\ HistoryTypes'
    BY <1>1, ReturnTypes DEF DedupeHit, At
  <1> QED
    BY <1>2 DEF DedupeHit, TypeOK, LockTypes, CacheTypes, SessionTypes, cacheVars,
                sessionVars

\* A sweep leaves entries.
LEMMA SweepType ==
    ASSUME TypeOK, NEW refusal, SweepIfReplayed(refusal), UNCHANGED dedupeCache
    PROVE  CacheTypes'
  BY DEF SweepIfReplayed, LiveIntents, TypeOK, CacheTypes

\* What an accepted round knows of its task, its intent and its session.
LEMMA AcceptedRound ==
    ASSUME TypeOK, NEW t \in Tasks, AcceptRound(t)
    PROVE  /\ At(t, "section")
           /\ env[t] \in Envelopes /\ env[t].sid \in Sids /\ env[t].intent # None
           /\ replayCache' \subseteq ReplayEntry
           /\ rxSessions[env[t].sid] \in RxSession
  <1>1. At(t, "section") /\ env[t] \in Envelopes /\ env[t].sid \in Sids
    BY BusyTask DEF AcceptRound, Round, NewRound, At
  <1>2. env[t].intent # None
    BY DEF AcceptRound, RoundRefusal, Accepted
  <1>3. replayCache' \subseteq ReplayEntry
    BY <1>1, <1>2, SpendType DEF AcceptRound
  <1>4. rxSessions[env[t].sid] \in RxSession
    BY <1>1 DEF AcceptRound, Round, TypeOK, SessionTypes
  <1> QED
    BY <1>1, <1>2, <1>3, <1>4

\* The refusals of a later round, before and after its intent is spent.
LEMMA RoundTypes ==
    ASSUME TypeOK, NEW t \in Tasks, RefuseRound(t) \/ RefuseReopening(t)
    PROVE  TypeOK'
  <1>1. CASE RefuseRound(t)
    BY <1>1, SweepType, RefuseTypes DEF RefuseRound, Round, NewRound, At
  <1>2. CASE RefuseReopening(t)
    <2>1. CacheTypes'
      BY <1>2, AcceptedRound DEF RefuseReopening, TypeOK, CacheTypes
    <2> QED
      BY <1>2, <2>1, AcceptedRound, RefuseTypes DEF RefuseReopening, At
  <1> QED
    BY <1>1, <1>2

\* A later round the operation answers.
LEMMA ProcessTypes ==
    ASSUME TypeOK, NEW t \in Tasks, NEW o, ProcessRound(t, o)
    PROVE  TypeOK'
  <1> DEFINE s == env[t].sid
             log == Append(opSessions[s], env[t])
  <1>1. /\ At(t, "section") /\ env[t] \in Envelopes /\ s \in Sids
        /\ env[t].intent # None /\ replayCache' \subseteq ReplayEntry
    BY AcceptedRound DEF ProcessRound
  <1>2. log \in Seq(Envelopes)
    BY <1>1 DEF TypeOK, SessionTypes
  <1>3. /\ opSessions' = [opSessions EXCEPT ![s] = IF o \in Finishes THEN <<>> ELSE log]
        /\ rxSessions' = [rxSessions EXCEPT
                            ![s] = IF o \in Finishes THEN None ELSE rxSessions[s]]
        /\ Answer(t, o, log)
    BY DEF ProcessRound, OperationProcess
  <1> HIDE DEF s, log
  <1>4. SessionTypes'
    BY <1>1, <1>2, <1>3 DEF TypeOK, SessionTypes
  <1> QED
    BY <1>1, <1>3, <1>4, AnswerTypes DEF At

\* A later round that ends the session with an error.
LEMMA EndSessionTypes ==
    ASSUME TypeOK, NEW t \in Tasks, AcceptRound(t), NEW code, NEW ran \in BOOLEAN,
           EndSession(t, code, ran)
    PROVE  TypeOK'
  <1>1. /\ At(t, "section") /\ env[t].sid \in Sids
        /\ env[t].intent # None /\ replayCache' \subseteq ReplayEntry
    BY AcceptedRound
  <1>2. ClockTypes' /\ TaskTypes' /\ sessionLocks' \in [Sids -> LockOrNone] /\ HistoryTypes'
    BY <1>1, ReturnTypes DEF EndSession, At
  <1>3. SessionTypes'
    BY <1>1 DEF EndSession, OperationAbort, TypeOK, SessionTypes
  <1> QED
    BY <1>1, <1>2, <1>3 DEF EndSession, TypeOK, LockTypes, CacheTypes

\* Opening a session.
LEMMA RefuseOpeningTypes ==
    ASSUME TypeOK, NEW t \in Tasks,
           \/ RefuseOpening(t) \/ ResolveRaises(t)
           \/ \E c \in Cards : RefuseSignature(t, c)
    PROVE  TypeOK'
  <1>1. CacheTypes'
    BY DEF RefuseOpening, RefuseSignature, ResolveRaises, cacheVars, TypeOK, CacheTypes
  <1>2. CASE RefuseOpening(t)
    BY <1>1, <1>2, RefuseTypes DEF RefuseOpening, Opening, NewRound, At
  <1>3. CASE \E c \in Cards : RefuseSignature(t, c)
    BY <1>1, <1>3, RefuseTypes DEF RefuseSignature, Resumed
  <1>4. CASE ResolveRaises(t)
    BY <1>1, <1>4, RefuseTypes DEF ResolveRaises, Resumed
  <1> QED
    BY <1>2, <1>3, <1>4

\* Resolving the initiator, from the call to the verified card.
LEMMA ResolveTypes ==
    ASSUME TypeOK, NEW t \in Tasks,
           \/ ResolvePeer(t)
           \/ \E c \in Cards : PeerVerified(t, c) \/ RefreshPeer(t, c)
    PROVE  TypeOK'
  <1>1. ASSUME NEW place \in {"resolving", "refreshing"}, pc[t] # "idle",
               running \in {t, None}, env[t].intent # None, CallResolvePeer(t, place)
        PROVE  TypeOK'
    <2>1. TaskTypes'
      BY <1>1, NoneAssumption DEF CallResolvePeer, TypeOK, TaskTypes, InSection
    <2> QED
      BY <1>1, <2>1
         DEF CallResolvePeer, TypeOK, ClockTypes, LockTypes, CacheTypes, SessionTypes,
             HistoryTypes, clockVars, lockVars, cacheVars, sessionVars, historyVars
  <1>2. CASE ResolvePeer(t)
    <2>1. env[t].intent # None
      BY <1>2 DEF ResolvePeer, OpeningRefusal, Accepted
    <2> QED
      BY <1>1, <1>2, <2>1 DEF ResolvePeer, Opening, NewRound, At
  <1>3. ASSUME NEW c \in Cards, RefreshPeer(t, c) PROVE TypeOK'
    <2>1. env[t].intent # None
      BY <1>3 DEF RefreshPeer, Resumed, TypeOK, TaskTypes
    <2> QED
      BY <1>1, <1>3, <2>1 DEF RefreshPeer, Resumed
  <1>4. ASSUME NEW c \in Cards, PeerVerified(t, c) PROVE TypeOK'
    <2>1. TaskTypes'
      BY <1>4, NoneAssumption DEF PeerVerified, Resumed, TypeOK, TaskTypes, InSection
    <2> QED
      BY <1>4, <2>1
         DEF PeerVerified, TypeOK, ClockTypes, LockTypes, CacheTypes, SessionTypes,
             HistoryTypes, clockVars, lockVars, cacheVars, sessionVars, historyVars
  <1> QED
    BY <1>2, <1>3, <1>4

\* What an accepted opening knows of its task, its intent and its peer.
LEMMA AcceptedOpening ==
    ASSUME TypeOK, NEW t \in Tasks, AcceptOpening(t)
    PROVE  /\ At(t, "open")
           /\ env[t] \in Envelopes /\ env[t].sid \in Sids /\ env[t].intent # None
           /\ replayCache' \subseteq ReplayEntry
           /\ card[t] \in Cards
  <1>1. At(t, "open") /\ env[t] \in Envelopes /\ env[t].sid \in Sids
    BY BusyTask DEF AcceptOpening, At
  <1>2. env[t].intent # None /\ card[t] \in Cards
    BY <1>1 DEF At, TypeOK, TaskTypes
  <1>3. replayCache' \subseteq ReplayEntry
    BY <1>1, <1>2, SpendType DEF AcceptOpening
  <1> QED
    BY <1>1, <1>2, <1>3

\* What may still go wrong once the initiator is known.
LEMMA RefuseAtOpenTypes ==
    ASSUME TypeOK, NEW t \in Tasks,
           RefuseIntent(t) \/ RefuseIncompatible(t) \/ ConfigRaises(t) \/ ReceiveFails(t)
    PROVE  TypeOK'
  <1>1. CASE RefuseIntent(t)
    BY <1>1, SweepType, RefuseTypes DEF RefuseIntent, At
  <1>2. CASE RefuseIncompatible(t) \/ ConfigRaises(t)
    <2>1. AcceptOpening(t) /\ UNCHANGED dedupeCache
      BY <1>2 DEF RefuseIncompatible, ConfigRaises
    <2>2. At(t, "open") /\ CacheTypes'
      BY <2>1, AcceptedOpening DEF TypeOK, CacheTypes
    <2> QED
      BY <1>2, <2>2, RefuseTypes DEF RefuseIncompatible, ConfigRaises, At
  <1>3. CASE ReceiveFails(t)
    <2>1. /\ At(t, "open") /\ env[t].intent # None /\ replayCache' \subseteq ReplayEntry
      BY <1>3, AcceptedOpening DEF ReceiveFails
    <2>2. ClockTypes' /\ TaskTypes' /\ sessionLocks' \in [Sids -> LockOrNone] /\ HistoryTypes'
      BY <1>3, <2>1, ReturnTypes DEF ReceiveFails, At
    <2> QED
      BY <1>3, <2>1, <2>2
         DEF ReceiveFails, TypeOK, LockTypes, CacheTypes, SessionTypes, sessionVars
  <1> QED
    BY <1>1, <1>2, <1>3

\* The operation answers the message that opens a session.
LEMMA ReceiveTypes ==
    ASSUME TypeOK, NEW t \in Tasks, NEW o, Receive(t, o)
    PROVE  TypeOK'
  <1>1. /\ At(t, "open") /\ env[t] \in Envelopes /\ env[t].sid \in Sids
        /\ env[t].intent # None /\ replayCache' \subseteq ReplayEntry /\ card[t] \in Cards
    BY AcceptedOpening DEF Receive
  <1>2. /\ <<env[t]>> \in Seq(Envelopes)
        /\ [key |-> card[t].key, openingPhase |-> env[t].phase] \in RxSession
    BY <1>1 DEF RxSession, Keys, Phases
  <1>3. SessionTypes'
    BY <1>1, <1>2 DEF Receive, OperationReceive, TypeOK, SessionTypes
  <1> QED
    BY <1>1, <1>3, AnswerTypes DEF Receive, At

\* The environment.
LEMMA CancelTypes ==
    ASSUME TypeOK, NEW t \in Tasks, Cancel(t)
    PROVE  TypeOK'
  <1>1. pc[t] # "idle" /\ lock[t] \in LockIds
    BY BusyTask DEF Cancel, Suspended
  <1>2. ClockTypes' /\ TaskTypes' /\ sessionLocks' \in [Sids -> LockOrNone] /\ HistoryTypes'
    BY <1>1, ReturnTypes DEF Cancel
  <1>3. Without(waiters[lock[t]], t) \in Seq(Tasks)
    BY <1>1, WithoutType DEF TypeOK, LockTypes
  <1>4. waiters' = [waiters EXCEPT ![lock[t]] = Without(waiters[lock[t]], t)]
    BY DEF Cancel
  <1>5. LockTypes'
    BY <1>1, <1>2, <1>3, <1>4 DEF TypeOK, LockTypes
  <1> QED
    BY <1>2, <1>5 DEF Cancel, TypeOK, CacheTypes, SessionTypes, cacheVars, sessionVars

\* The clock, restarts, aborts and envelopes that are not read.
LEMMA EnvironmentTypes ==
    ASSUME TypeOK,
           \/ \E e \in Envelopes : RejectHeader(e)
           \/ \E s \in Sids : Abort(s)
           \/ Tick
           \/ Restart
           \/ UNCHANGED vars
    PROVE  TypeOK'
  <1> USE DEF TypeOK, ClockTypes, TaskTypes, LockTypes, CacheTypes, SessionTypes,
              HistoryTypes, clockVars, taskVars, lockVars, cacheVars, sessionVars,
              historyVars
  <1>1. CASE \E e \in Envelopes : RejectHeader(e)
    BY <1>1 DEF RejectHeader
  <1>2. CASE \E s \in Sids : Abort(s)
    BY <1>2 DEF Abort, OperationAbort
  <1>3. CASE Tick
    BY <1>3 DEF Tick
  <1>4. CASE Restart
    BY <1>4, NoneAssumption DEF Restart, InSection, LockOrNone
  <1>5. CASE UNCHANGED vars
    BY <1>5 DEF vars
  <1> QED
    BY <1>1, <1>2, <1>3, <1>4, <1>5

\* No step breaks the type invariant.
LEMMA TypesPreserved == TypeOK /\ [Next]_vars => TypeOK'
  <1> SUFFICES ASSUME TypeOK, [Next]_vars PROVE TypeOK'
    OBVIOUS
  <1>1. ASSUME NEW t \in Tasks, TaskStep(t) PROVE TypeOK'
    <2>1. CASE Wake(t) \/ DedupeHit(t)
      BY <2>1, WakeTypes, DedupeHitTypes
    <2>2. CASE RefuseRound(t) \/ RefuseReopening(t)
      BY <2>2, RoundTypes
    <2>3. CASE \E o \in Outcomes : ProcessRound(t, o)
      BY <2>3, ProcessTypes
    <2>4. CASE ProcessFails(t) \/ ProcessKeyError(t)
      BY <2>4, EndSessionTypes DEF ProcessFails, ProcessKeyError
    <2>5. CASE \/ RefuseOpening(t) \/ ResolveRaises(t)
               \/ \E c \in Cards : RefuseSignature(t, c)
      BY <2>5, RefuseOpeningTypes
    <2>6. CASE \/ ResolvePeer(t)
               \/ \E c \in Cards : PeerVerified(t, c) \/ RefreshPeer(t, c)
      BY <2>6, ResolveTypes
    <2>7. CASE RefuseIntent(t) \/ RefuseIncompatible(t) \/ ConfigRaises(t) \/ ReceiveFails(t)
      BY <2>7, RefuseAtOpenTypes
    <2>8. CASE \E o \in Outcomes : Receive(t, o)
      BY <2>8, ReceiveTypes
    <2> QED
      BY <1>1, <2>1, <2>2, <2>3, <2>4, <2>5, <2>6, <2>7, <2>8 DEF TaskStep
  <1> QED
    BY <1>1, ArrivalTypes, CancelTypes, EnvironmentTypes DEF Next

\* Every variable keeps its type, and every task its envelope, its lock and,
\* once verified, its peer, in every behaviour.
THEOREM TypeCorrect == Spec => []TypeOK
  <1>1. Init => TypeOK
    BY InitTypes
  <1>2. TypeOK /\ [Next]_vars => TypeOK'
    BY TypesPreserved
  <1> QED
    BY <1>1, <1>2, PTL DEF Spec

-----------------------------------------------------------------------------
(* No intent is spent twice.                                               *)

\* The strengthening of IntentSpentOnce: an intent the operation was called
\* with is in the replay cache until it expires, if that can be said in UTC.
\* Sweeping preserves it, since what a sweep drops has expired; nothing else
\* removes an entry.
DrivenRecorded ==
    \A i \in driven :
        i.expiry \in now+1..LatestUtc => [intent |-> i, until |-> i.expiry] \in replayCache

\* A step that takes an intent past every check, the check against the replay
\* cache included, and writes it there.
SpendStep(t) ==
    /\ env[t] \in Envelopes
    /\ env[t].intent # None
    /\ IntentRefusal(env[t]) = Accepted
    /\ Spend(env[t].intent)
    /\ driven' \subseteq driven \cup {env[t].intent}
    /\ returned'.env = env[t]
    /\ now' = now

\* A step that calls the operation with no intent.
QuietStep ==
    /\ replayCache' \in {replayCache, LiveIntents}
    /\ driven' = driven
    /\ returned' # None => ~returned'.ran
    /\ now' \in {now, now + 1}

\* A refusal runs nothing and reports the task's own envelope.
LEMMA RefuseQuiet ==
    ASSUME TypeOK, NEW t, NEW code, Refuse(t, code)
    PROVE  driven' = driven /\ ~returned'.ran /\ now' = now /\ returned'.env = env[t]
  BY DEF Refuse, Return, clockVars

\* Whatever is returned after an intent was accepted, it has been spent.
LEMMA AcceptedSpend ==
    ASSUME TypeOK, NEW t \in Tasks, AcceptRound(t) \/ AcceptOpening(t),
           NEW code, NEW log, NEW ran \in BOOLEAN, Return(t, code, log, ran)
    PROVE  SpendStep(t)
  <1>1. env[t] \in Envelopes /\ env[t].intent # None /\ Spend(env[t].intent)
    BY AcceptedRound, AcceptedOpening DEF AcceptRound, AcceptOpening
  <1>2. IntentRefusal(env[t]) = Accepted
    BY <1>1 DEF AcceptRound, AcceptOpening, RoundRefusal, ParseFlaws, Accepted
  <1>3. driven' \subseteq driven \cup {env[t].intent} /\ returned'.env = env[t] /\ now' = now
    BY DEF Return, clockVars
  <1> QED
    BY <1>1, <1>2, <1>3 DEF SpendStep

\* Every step is of one of three kinds.
LEMMA StepKinds ==
    ASSUME TypeOK, Next
    PROVE  QuietStep \/ Restart \/ \E t \in Tasks : SpendStep(t)
  <1>1. CASE \/ \E e \in Envelopes : RejectHeader(e)
             \/ \E t \in Tasks, e \in Envelopes : HandleEnvelope(t, e)
             \/ \E s \in Sids : Abort(s)
             \/ Tick
    BY <1>1 DEF RejectHeader, HandleEnvelope, Abort, Tick, QuietStep, clockVars, taskVars,
                cacheVars, historyVars
  <1>2. ASSUME NEW t \in Tasks, TaskStep(t) \/ Cancel(t)
        PROVE  QuietStep \/ SpendStep(t)
    <2>1. CASE Wake(t) \/ Cancel(t) \/ DedupeHit(t)
      BY <2>1 DEF Wake, Cancel, DedupeHit, Return, QuietStep, clockVars, cacheVars, historyVars
    <2>2. CASE RefuseRound(t) \/ RefuseIntent(t)
      BY <2>2, RefuseQuiet DEF RefuseRound, RefuseIntent, SweepIfReplayed, QuietStep
    <2>3. CASE \/ RefuseOpening(t) \/ ResolveRaises(t)
               \/ \E c \in Cards : RefuseSignature(t, c)
      BY <2>3, RefuseQuiet
         DEF RefuseOpening, ResolveRaises, RefuseSignature, QuietStep, cacheVars
    <2>4. CASE \/ ResolvePeer(t)
               \/ \E c \in Cards : PeerVerified(t, c) \/ RefreshPeer(t, c)
      BY <2>4 DEF ResolvePeer, RefreshPeer, PeerVerified, CallResolvePeer, QuietStep,
                  clockVars, cacheVars, historyVars
    <2>5. CASE RefuseReopening(t) \/ RefuseIncompatible(t) \/ ConfigRaises(t)
      BY <2>5, AcceptedSpend DEF RefuseReopening, RefuseIncompatible, ConfigRaises, Refuse
    <2>6. CASE ProcessFails(t) \/ ProcessKeyError(t) \/ ReceiveFails(t)
      BY <2>6, AcceptedSpend DEF ProcessFails, ProcessKeyError, ReceiveFails, EndSession
    <2>7. CASE \E o \in Outcomes : ProcessRound(t, o) \/ Receive(t, o)
      BY <2>7, AcceptedSpend DEF ProcessRound, Receive, Answer
    <2> QED
      BY <1>2, <2>1, <2>2, <2>3, <2>4, <2>5, <2>6, <2>7 DEF TaskStep
  <1> QED
    BY <1>1, <1>2 DEF Next

\* The strengthening is inductive.
LEMMA DrivenPreserved ==
    ASSUME TypeOK, DrivenRecorded, [Next]_vars
    PROVE  DrivenRecorded'
  <1>0. now \in Nat /\ LatestUtc \in Nat /\ \A i \in driven : i.expiry \in Nat
    BY IntentType, BoundAssumption DEF TypeOK, ClockTypes, HistoryTypes, Intents
  <1>1. CASE QuietStep
    BY <1>0, <1>1 DEF QuietStep, DrivenRecorded, LiveIntents
  <1>2. CASE Restart
    BY <1>2 DEF Restart, DrivenRecorded
  <1>3. ASSUME NEW t \in Tasks, SpendStep(t) PROVE DrivenRecorded'
    <2>1. /\ driven' \subseteq driven \cup {env[t].intent} /\ now' = now
          /\ replayCache' = LiveIntents \cup
               {[intent |-> env[t].intent, until |-> ParseExpiry(env[t].intent)]}
      BY <1>3 DEF SpendStep, Spend
    <2>2. ASSUME NEW i \in driven, i.expiry \in now+1..LatestUtc
          PROVE  [intent |-> i, until |-> i.expiry] \in LiveIntents
      BY <1>0, <2>2 DEF DrivenRecorded, LiveIntents
    <2>3. ASSUME env[t].intent.expiry \in now+1..LatestUtc
          PROVE  [intent |-> env[t].intent, until |-> env[t].intent.expiry] \in replayCache'
      BY <1>0, <2>1, <2>3 DEF ParseExpiry
    <2> QED
      BY <2>1, <2>2, <2>3 DEF DrivenRecorded
  <1>4. CASE UNCHANGED vars
    BY <1>4 DEF vars, clockVars, cacheVars, historyVars, DrivenRecorded
  <1> QED
    BY <1>1, <1>2, <1>3, <1>4, StepKinds

\* An intent that passes the replay check was not used, unless it expires at
\* this very instant.
LEMMA AcceptedUnspent ==
    ASSUME TypeOK, DrivenRecorded, NEW t \in Tasks, SpendStep(t), env[t].intent \in driven,
           env[t].intent.expiry <= LatestUtc
    PROVE  now >= env[t].intent.expiry
  <1> DEFINE i == env[t].intent
  <1>1. i.expiry \in Nat /\ now \in Nat /\ LatestUtc \in Nat
    BY IntentType, BoundAssumption DEF SpendStep, TypeOK, ClockTypes
  <1>2. ~Replayed(i)
    BY DEF SpendStep, IntentRefusal, Accepted
  <1>3. \A r \in LiveIntents : r.intent # i
    BY <1>2 DEF Replayed
  <1>4. i.expiry \in now+1..LatestUtc => [intent |-> i, until |-> i.expiry] \in replayCache
    BY DEF DrivenRecorded
  <1> QED
    BY <1>1, <1>3, <1>4 DEF LiveIntents

\* While the process lives and before its expiry, an intent drives the
\* operation once, however many copies are handled at the same time and
\* whatever becomes of their locks; unless it expires so late that UTC has no
\* name for the time.
THEOREM IntentsSpentOnce == Spec => IntentSpentOnce
  <1>1. Init => DrivenRecorded
    BY DEF Init, DrivenRecorded
  <1>2. TypeOK /\ DrivenRecorded /\ [Next]_vars => DrivenRecorded'
    BY DrivenPreserved
  <1> DEFINE Once == [ /\ returned' # None
                       /\ returned'.ran
                       /\ returned'.env.intent \in driven
                       /\ returned'.env.intent.expiry <= LatestUtc
                       => now >= returned'.env.intent.expiry ]_vars
  <1>3. TypeOK /\ DrivenRecorded /\ [Next]_vars => Once
    <2> SUFFICES ASSUME TypeOK, DrivenRecorded, Next,
                        returned' # None, returned'.ran, returned'.env.intent \in driven,
                        returned'.env.intent.expiry <= LatestUtc
                 PROVE  now >= returned'.env.intent.expiry
      OBVIOUS
    <2>1. CASE QuietStep
      BY <2>1 DEF QuietStep
    <2>2. CASE Restart
      BY <2>2 DEF Restart
    <2>3. ASSUME NEW t \in Tasks, SpendStep(t)
          PROVE  now >= returned'.env.intent.expiry
      BY <2>3, AcceptedUnspent DEF SpendStep
    <2> QED
      BY <2>1, <2>2, <2>3, StepKinds
  <1> QED
    BY <1>1, <1>2, <1>3, TypeCorrect, PTL DEF Spec, IntentSpentOnce

-----------------------------------------------------------------------------
(* What is in a session.                                                   *)

\* The strengthening of SessionsSound: a task about to open a session holds
\* the card its intent was verified against.
PeerPinned == \A t \in Tasks : pc[t] = "open" => card[t].key = env[t].intent.signer

\* Only PeerVerified leads to `open', and it checks the signer there and then;
\* between it and the use of the card the task does not suspend.
LEMMA PinnedPreserved ==
    ASSUME TypeOK, PeerPinned, [Next]_vars
    PROVE  PeerPinned'
  <1> USE DEF PeerPinned, TypeOK, TaskTypes
  <1>1. CASE \E t \in Tasks, e \in Envelopes : HandleEnvelope(t, e)
    BY <1>1 DEF HandleEnvelope, Idle
  <1>2. CASE \/ \E e \in Envelopes : RejectHeader(e)
             \/ \E s \in Sids : Abort(s)
             \/ Tick
             \/ UNCHANGED vars
    BY <1>2 DEF RejectHeader, Abort, Tick, vars, taskVars
  <1>3. CASE Restart
    BY <1>3 DEF Restart
  <1>4. ASSUME NEW t \in Tasks, NEW code, NEW log, NEW ran, Return(t, code, log, ran)
        PROVE  PeerPinned'
    BY <1>4 DEF Return
  <1>5. ASSUME NEW t \in Tasks, TaskStep(t) \/ Cancel(t)
        PROVE  PeerPinned'
    <2>1. CASE Wake(t)
      BY <2>1 DEF Wake
    <2>2. CASE ResolvePeer(t) \/ \E c \in Cards : RefreshPeer(t, c)
      BY <2>2 DEF ResolvePeer, RefreshPeer, CallResolvePeer
    <2>3. CASE \E c \in Cards : PeerVerified(t, c)
      BY <2>3 DEF PeerVerified
    <2>4. CASE \/ DedupeHit(t) \/ RefuseRound(t) \/ RefuseReopening(t)
               \/ ProcessFails(t) \/ ProcessKeyError(t) \/ RefuseOpening(t)
               \/ ResolveRaises(t) \/ RefuseIntent(t) \/ RefuseIncompatible(t)
               \/ ConfigRaises(t) \/ ReceiveFails(t) \/ Cancel(t)
      BY <2>4, <1>4
         DEF DedupeHit, RefuseRound, RefuseReopening, ProcessFails, ProcessKeyError,
             EndSession, RefuseOpening, ResolveRaises, RefuseIntent,
             RefuseIncompatible, ConfigRaises, ReceiveFails, Cancel, Refuse
    <2>5. CASE \/ \E c \in Cards : RefuseSignature(t, c)
               \/ \E o \in Outcomes : ProcessRound(t, o) \/ Receive(t, o)
      BY <2>5, <1>4 DEF RefuseSignature, Refuse, ProcessRound, Receive, Answer
    <2> QED
      BY <1>5, <2>1, <2>2, <2>3, <2>4, <2>5 DEF TaskStep
  <1> QED
    BY <1>1, <1>2, <1>3, <1>5 DEF Next

\* The session tables change in these ways only.
Opens(t) ==
    /\ AcceptOpening(t)
    /\ opSessions' = [opSessions EXCEPT ![env[t].sid] = <<env[t]>>]
    /\ rxSessions' = [rxSessions EXCEPT ![env[t].sid] =
                        [key |-> card[t].key, openingPhase |-> env[t].phase]]

Continues(t) ==
    /\ AcceptRound(t)
    /\ NextPhase(t)
    /\ opSessions[env[t].sid] # <<>>
    /\ opSessions' = [opSessions EXCEPT ![env[t].sid] =
                        Append(opSessions[env[t].sid], env[t])]
    /\ rxSessions' = rxSessions

Ends(s) ==
    /\ opSessions' = [opSessions EXCEPT ![s] = <<>>]
    /\ \/ rxSessions' = [rxSessions EXCEPT ![s] = None]
       \/ rxSessions' = rxSessions /\ "abort" \in Faults

\* Every step leaves the session tables alone or is one of these.
LEMMA SessionSteps ==
    ASSUME TypeOK, [Next]_vars
    PROVE  \/ UNCHANGED sessionVars
           \/ Restart
           \/ \E t \in Tasks : Opens(t) \/ Continues(t)
           \/ \E s \in Sids : Ends(s)
  <1>1. CASE UNCHANGED vars
    BY <1>1 DEF vars
  <1>2. CASE \/ \E e \in Envelopes : RejectHeader(e)
             \/ \E t \in Tasks, e \in Envelopes : HandleEnvelope(t, e)
             \/ Tick
    BY <1>2 DEF RejectHeader, HandleEnvelope, Tick
  <1>3. CASE \E s \in Sids : Abort(s)
    BY <1>3 DEF Abort, OperationAbort, Ends
  <1>4. ASSUME NEW t \in Tasks, TaskStep(t) \/ Cancel(t)
        PROVE  \/ UNCHANGED sessionVars \/ Opens(t) \/ Continues(t)
               \/ \E s \in Sids : Ends(s)
    <2>1. CASE \/ Wake(t) \/ Cancel(t) \/ DedupeHit(t) \/ RefuseRound(t)
               \/ RefuseReopening(t) \/ RefuseOpening(t) \/ ResolvePeer(t)
               \/ ResolveRaises(t) \/ RefuseIntent(t) \/ RefuseIncompatible(t)
               \/ ConfigRaises(t) \/ ReceiveFails(t)
      BY <2>1 DEF Wake, Cancel, DedupeHit, RefuseRound, RefuseReopening, RefuseOpening,
                  ResolvePeer, CallResolvePeer, ResolveRaises, RefuseIntent,
                  RefuseIncompatible, ConfigRaises, ReceiveFails, Refuse
    <2>2. CASE \E c \in Cards : PeerVerified(t, c) \/ RefreshPeer(t, c) \/ RefuseSignature(t, c)
      BY <2>2 DEF PeerVerified, RefreshPeer, CallResolvePeer, RefuseSignature, Refuse
    <2>3. CASE ProcessFails(t) \/ ProcessKeyError(t)
      <3>1. env[t].sid \in Sids
        BY <2>3, AcceptedRound DEF ProcessFails, ProcessKeyError
      <3> QED
        BY <2>3, <3>1 DEF ProcessFails, ProcessKeyError, EndSession, OperationAbort, Ends
    <2>4. ASSUME NEW o \in Outcomes, ProcessRound(t, o)
          PROVE  Continues(t) \/ \E s \in Sids : Ends(s)
      <3>1. env[t].sid \in Sids
        BY <2>4, AcceptedRound DEF ProcessRound
      <3>2. CASE o \in Finishes
        BY <2>4, <3>1, <3>2 DEF ProcessRound, OperationProcess, Ends
      <3>3. CASE o \notin Finishes
        BY <2>4, <3>1, <3>3 DEF ProcessRound, OperationProcess, Continues, TypeOK, SessionTypes
      <3> QED
        BY <3>2, <3>3
    <2>5. ASSUME NEW o \in Outcomes, Receive(t, o)
          PROVE  Opens(t) \/ UNCHANGED sessionVars
      BY <2>5 DEF Receive, OperationReceive, Opens, sessionVars, TypeOK, SessionTypes
    <2> QED
      BY <1>4, <2>1, <2>2, <2>3, <2>4, <2>5 DEF TaskStep
  <1> QED
    BY <1>1, <1>2, <1>3, <1>4 DEF Next

\* An intent that passed every check binds its envelope.
LEMMA AcceptedBinds ==
    ASSUME NEW e, IntentRefusal(e) = Accepted
    PROVE  e.intent.sid = e.sid /\ e.intent.payload = HashPayload(e.payload)
  BY DEF IntentRefusal, Accepted

\* A fresh session holds one envelope, of the phase that opened it.
LEMMA OpensSound ==
    ASSUME TypeOK, PeerPinned, SessionsSound, NEW t \in Tasks, Opens(t)
    PROVE  SessionsSound'
  <1> DEFINE u == env[t].sid
             key == card[t].key
             rx == [key |-> key, openingPhase |-> env[t].phase]
  <1>1. /\ u \in Sids /\ env[t] \in Envelopes /\ env[t].intent # None /\ card[t] \in Cards
        /\ env[t].intent.signer = key
    BY AcceptedOpening DEF Opens, PeerPinned, At
  <1>2. BoundTo(env[t], u, key)
    BY <1>1, AcceptedBinds DEF Opens, AcceptOpening, BoundTo
  <1>3. rx \in RxSession /\ rx # None
    BY <1>1, NoneAssumption DEF RxSession, Keys, Phases
  <1>4. /\ opSessions'[u] = <<env[t]>> /\ rxSessions'[u] = rx
        /\ \A s \in Sids \ {u} : opSessions'[s] = opSessions[s] /\ rxSessions'[s] = rxSessions[s]
    BY <1>1 DEF Opens, TypeOK, SessionTypes
  <1>5. /\ rx.key = key /\ rx.openingPhase = env[t].phase
        /\ Len(<<env[t]>>) = 1 /\ <<env[t]>>[1] = env[t]
    OBVIOUS
  <1> HIDE DEF u, key, rx
  <1> SUFFICES ASSUME NEW s \in Sids, opSessions'[s] # <<>>
               PROVE  /\ rxSessions'[s] # None
                      /\ opSessions'[s][1].phase = rxSessions'[s].openingPhase
                      /\ \A n \in 1..Len(opSessions'[s]) :
                           /\ BoundTo(opSessions'[s][n], s, rxSessions'[s].key)
                           /\ n > 1 => opSessions'[s][n].phase # rxSessions'[s].openingPhase
    BY DEF SessionsSound, BoundTo
  <1>6. CASE s = u
    BY <1>2, <1>3, <1>4, <1>5, <1>6
  <1>7. CASE s # u
    BY <1>4, <1>7 DEF SessionsSound
  <1> QED
    BY <1>6, <1>7

\* An envelope that extends a session is signed by the pinned key and is of
\* another phase than the first.
LEMMA ContinuesSound ==
    ASSUME TypeOK, SessionsSound, NEW t \in Tasks, Continues(t)
    PROVE  SessionsSound'
  <1> DEFINE u == env[t].sid
             old == opSessions[u]
             new == Append(old, env[t])
  <1>1. u \in Sids /\ env[t] \in Envelopes /\ env[t].intent # None
    BY AcceptedRound DEF Continues
  <1>2. BoundTo(env[t], u, rxSessions[u].key) /\ env[t].phase # rxSessions[u].openingPhase
    <2>1. IntentRefusal(env[t]) = Accepted /\ env[t].intent.signer = rxSessions[u].key
      BY <1>1 DEF Continues, AcceptRound, RoundRefusal, ParseFlaws, Accepted
    <2> QED
      BY <1>1, <2>1, AcceptedBinds DEF BoundTo, Continues, NextPhase
  <1>3. old \in Seq(Envelopes) /\ old # <<>>
    BY <1>1 DEF Continues, TypeOK, SessionTypes
  <1>4. /\ opSessions'[u] = new /\ rxSessions' = rxSessions
        /\ \A s \in Sids \ {u} : opSessions'[s] = opSessions[s]
    BY <1>1 DEF Continues, TypeOK, SessionTypes
  <1>5. /\ Len(new) = Len(old) + 1 /\ new[Len(old) + 1] = env[t]
        /\ \A n \in 1..Len(old) : new[n] = old[n]
        /\ Len(old) \in Nat \ {0}
    BY <1>1, <1>3
  <1>6. /\ rxSessions[u] # None
        /\ old[1].phase = rxSessions[u].openingPhase
        /\ \A n \in 1..Len(old) :
             /\ BoundTo(old[n], u, rxSessions[u].key)
             /\ n > 1 => old[n].phase # rxSessions[u].openingPhase
    BY <1>1, <1>3 DEF SessionsSound
  <1> HIDE DEF u, old, new
  <1> SUFFICES ASSUME NEW s \in Sids, opSessions'[s] # <<>>
               PROVE  /\ rxSessions'[s] # None
                      /\ opSessions'[s][1].phase = rxSessions'[s].openingPhase
                      /\ \A n \in 1..Len(opSessions'[s]) :
                           /\ BoundTo(opSessions'[s][n], s, rxSessions'[s].key)
                           /\ n > 1 => opSessions'[s][n].phase # rxSessions'[s].openingPhase
    BY DEF SessionsSound, BoundTo
  <1>7. CASE s = u
    <2>1. new[1].phase = rxSessions[u].openingPhase
      BY <1>5, <1>6
    <2>2. ASSUME NEW n \in 1..Len(new)
          PROVE  /\ BoundTo(new[n], u, rxSessions[u].key)
                 /\ n > 1 => new[n].phase # rxSessions[u].openingPhase
      <3>1. CASE n \in 1..Len(old)
        BY <1>5, <1>6, <3>1
      <3>2. CASE n = Len(old) + 1
        BY <1>2, <1>5, <3>2 DEF u
      <3> QED
        BY <1>5, <3>1, <3>2
    <2> QED
      BY <1>4, <1>6, <1>7, <2>1, <2>2
  <1>8. CASE s # u
    BY <1>4, <1>8 DEF SessionsSound
  <1> QED
    BY <1>7, <1>8

\* A session that is gone has nothing to be sound about.
LEMMA EndsSound ==
    ASSUME TypeOK, SessionsSound, NEW u \in Sids, Ends(u)
    PROVE  SessionsSound'
  <1>1. /\ opSessions'[u] = <<>>
        /\ \A s \in Sids \ {u} : opSessions'[s] = opSessions[s] /\ rxSessions'[s] = rxSessions[s]
    BY DEF Ends, TypeOK, SessionTypes
  <1> QED
    BY <1>1 DEF SessionsSound, BoundTo

\* The invariant is inductive, given PeerPinned.
LEMMA SoundPreserved ==
    ASSUME TypeOK, PeerPinned, SessionsSound, [Next]_vars
    PROVE  SessionsSound'
  <1>1. CASE UNCHANGED sessionVars
    BY <1>1 DEF sessionVars, SessionsSound, BoundTo
  <1>2. CASE Restart
    BY <1>2 DEF Restart, SessionsSound
  <1> QED
    BY <1>1, <1>2, SessionSteps, OpensSound, ContinuesSound, EndsSound

\* Every session of the operation was computed from one opening message and
\* later messages of other phases, all of them bound to the session by intents
\* of the key that opened it, in every behaviour.
THEOREM SessionsAreSound == Spec => []SessionsSound
  <1>1. Init => PeerPinned /\ SessionsSound
    BY DEF Init, PeerPinned, SessionsSound
  <1>2. TypeOK /\ PeerPinned /\ SessionsSound /\ [Next]_vars => (PeerPinned /\ SessionsSound)'
    BY PinnedPreserved, SoundPreserved
  <1> QED
    BY <1>1, <1>2, TypeCorrect, PTL DEF Spec

-----------------------------------------------------------------------------
(* The two session tables.                                                 *)

\* No step changes one session table and not the other, aborts apart.
LEMMA LayersPreserved ==
    ASSUME TypeOK, LayersAgree, [Next]_vars
    PROVE  LayersAgree'
  <1> SUFFICES ASSUME "abort" \notin Faults, NEW s \in Sids
               PROVE  rxSessions'[s] = None <=> opSessions'[s] = <<>>
    BY DEF LayersAgree
  <1>1. rxSessions[s] = None <=> opSessions[s] = <<>>
    BY DEF LayersAgree
  <1>2. CASE UNCHANGED sessionVars
    BY <1>1, <1>2 DEF sessionVars
  <1>3. CASE Restart
    BY <1>3 DEF Restart
  <1>4. ASSUME NEW t \in Tasks, Opens(t)
        PROVE  rxSessions'[s] = None <=> opSessions'[s] = <<>>
    <2>1. env[t] \in Envelopes /\ env[t].sid \in Sids /\ card[t] \in Cards
      BY <1>4, AcceptedOpening DEF Opens
    <2>2. [key |-> card[t].key, openingPhase |-> env[t].phase] # None
      BY <2>1, NoneAssumption DEF Keys, Phases
    <2>3. <<env[t]>> # <<>>
      OBVIOUS
    <2> QED
      BY <1>1, <1>4, <2>1, <2>2, <2>3 DEF Opens, TypeOK, SessionTypes
  <1>5. ASSUME NEW t \in Tasks, Continues(t)
        PROVE  rxSessions'[s] = None <=> opSessions'[s] = <<>>
    <2>1. env[t] \in Envelopes /\ env[t].sid \in Sids
      BY <1>5, AcceptedRound DEF Continues
    <2>2. Append(opSessions[env[t].sid], env[t]) # <<>>
      BY <2>1 DEF TypeOK, SessionTypes
    <2> QED
      BY <1>1, <1>5, <2>1, <2>2
         DEF Continues, AcceptRound, Round, TypeOK, SessionTypes
  <1>6. ASSUME NEW u \in Sids, Ends(u)
        PROVE  rxSessions'[s] = None <=> opSessions'[s] = <<>>
    BY <1>1, <1>6 DEF Ends, TypeOK, SessionTypes
  <1> QED
    BY <1>2, <1>3, <1>4, <1>5, <1>6, SessionSteps

\* Unless the application aborts sessions itself, the protocol core and the
\* operation list the same sessions, in every behaviour.
THEOREM LayersAlwaysAgree == Spec => []LayersAgree
  <1>1. Init => LayersAgree
    BY DEF Init, LayersAgree
  <1>2. TypeOK /\ LayersAgree /\ [Next]_vars => LayersAgree'
    BY LayersPreserved
  <1> QED
    BY <1>1, <1>2, TypeCorrect, PTL DEF Spec

-----------------------------------------------------------------------------
(* What is in the reply cache.                                             *)

\* A cached reply was computed from a message with the key it is found under.
ReplyOfItsKey(d) ==
    d.code = "REPLY" =>
        \E last \in Envelopes :
            /\ d.log # <<>>
            /\ last = d.log[Len(d.log)]
            /\ d.key = RoundKey(last)

\* What the operation has just been given last is what its reply is filed under.
LEMMA AnswerFiled ==
    ASSUME TypeOK, NEW t \in Tasks, env[t] \in Envelopes, NEW outcome,
           NEW log \in Seq(Envelopes), log # <<>>, log[Len(log)] = env[t],
           Answer(t, outcome, log),
           \A d \in dedupeCache : ReplyOfItsKey(d)
    PROVE  \A d \in dedupeCache' : ReplyOfItsKey(d)
  <1> DEFINE code  == IF outcome \in Answers THEN "REPLY" ELSE "NO_REPLY"
             reply == IF outcome \in Answers THEN log ELSE <<>>
             entry == [key |-> RoundKey(env[t]), expires |-> now + DedupeTTL,
                       code |-> code, log |-> reply]
  <1>1. dedupeCache' = { d \in dedupeCache : d.key # RoundKey(env[t]) } \cup {entry}
    BY DEF Answer
  <1>2. ReplyOfItsKey(entry)
    BY DEF ReplyOfItsKey
  <1> QED
    BY <1>1, <1>2

\* No step files a reply under another key.
LEMMA RepliesPreserved ==
    ASSUME TypeOK, \A d \in dedupeCache : ReplyOfItsKey(d), [Next]_vars
    PROVE  \A d \in dedupeCache' : ReplyOfItsKey(d)
  <1>1. CASE dedupeCache' \subseteq dedupeCache
    BY <1>1
  <1>2. ASSUME NEW t \in Tasks, NEW o \in Outcomes, ProcessRound(t, o)
        PROVE  \A d \in dedupeCache' : ReplyOfItsKey(d)
    <2> DEFINE old == opSessions[env[t].sid]
    <2>1. env[t] \in Envelopes /\ old \in Seq(Envelopes)
      BY <1>2, AcceptedRound DEF ProcessRound, TypeOK, SessionTypes
    <2>2. Answer(t, o, Append(old, env[t]))
      BY <1>2 DEF ProcessRound
    <2> HIDE DEF old
    <2>3. /\ Append(old, env[t]) \in Seq(Envelopes)
          /\ Append(old, env[t]) # <<>>
          /\ Append(old, env[t])[Len(Append(old, env[t]))] = env[t]
      BY <2>1
    <2> QED
      BY <2>1, <2>2, <2>3, AnswerFiled
  <1>3. ASSUME NEW t \in Tasks, NEW o \in Outcomes, Receive(t, o)
        PROVE  \A d \in dedupeCache' : ReplyOfItsKey(d)
    <2>1. env[t] \in Envelopes /\ Answer(t, o, <<env[t]>>)
      BY <1>3, AcceptedOpening DEF Receive
    <2>2. <<env[t]>> \in Seq(Envelopes) /\ <<env[t]>> # <<>> /\ <<env[t]>>[Len(<<env[t]>>)] = env[t]
      BY <2>1
    <2> QED
      BY <2>1, <2>2, AnswerFiled
  <1>4. CASE \/ \E e \in Envelopes : RejectHeader(e)
             \/ \E t \in Tasks, e \in Envelopes : HandleEnvelope(t, e)
             \/ \E s \in Sids : Abort(s)
             \/ Tick \/ Restart \/ UNCHANGED vars
    BY <1>1, <1>4 DEF RejectHeader, HandleEnvelope, Abort, Tick, Restart, LiveRounds, vars,
                      cacheVars
  <1>5. ASSUME NEW t \in Tasks, TaskStep(t) \/ Cancel(t)
        PROVE  \A d \in dedupeCache' : ReplyOfItsKey(d)
    <2>1. CASE \/ Wake(t) \/ DedupeHit(t) \/ Cancel(t) \/ RefuseRound(t)
               \/ RefuseReopening(t) \/ ProcessFails(t) \/ ProcessKeyError(t)
      BY <1>1, <2>1 DEF Wake, DedupeHit, Cancel, RefuseRound, RefuseReopening, ProcessFails,
                        ProcessKeyError, EndSession, LiveRounds, cacheVars
    <2>2. CASE \/ RefuseOpening(t) \/ ResolvePeer(t) \/ ResolveRaises(t) \/ RefuseIntent(t)
               \/ RefuseIncompatible(t) \/ ConfigRaises(t) \/ ReceiveFails(t)
      BY <1>1, <2>2 DEF RefuseOpening, ResolvePeer, CallResolvePeer, ResolveRaises,
                        RefuseIntent, RefuseIncompatible, ConfigRaises, ReceiveFails, cacheVars
    <2>3. CASE \E c \in Cards : PeerVerified(t, c) \/ RefreshPeer(t, c) \/ RefuseSignature(t, c)
      BY <1>1, <2>3 DEF PeerVerified, RefreshPeer, CallResolvePeer, RefuseSignature, cacheVars
    <2> QED
      BY <1>2, <1>3, <1>5, <2>1, <2>2, <2>3 DEF TaskStep
  <1> QED
    BY <1>4, <1>5 DEF Next

\* Names of one piece are joined to a key of three.
LEMMA ThreePieces ==
    ASSUME NEW a, NEW b, NEW c
    PROVE  <<a>> \o <<b>> \o <<c>> = <<a, b, c>>
  <1> DEFINE S == {a, b, c}
             ab == <<a>> \o <<b>>
             abc == ab \o <<c>>
  <1>1. <<a>> \in Seq(S) /\ <<b>> \in Seq(S) /\ <<c>> \in Seq(S) /\ <<a, b, c>> \in Seq(S)
    OBVIOUS
  <1>2. /\ Len(<<a>>) = 1 /\ Len(<<b>>) = 1 /\ Len(<<c>>) = 1 /\ Len(<<a, b, c>>) = 3
        /\ <<a>>[1] = a /\ <<b>>[1] = b /\ <<c>>[1] = c
        /\ <<a, b, c>>[1] = a /\ <<a, b, c>>[2] = b /\ <<a, b, c>>[3] = c
    OBVIOUS
  <1> HIDE DEF S
  <1>3. ab \in Seq(S) /\ Len(ab) = 2 /\ ab[1] = a /\ ab[2] = b
    <2>1. /\ ab \in Seq(S) /\ Len(ab) = Len(<<a>>) + Len(<<b>>)
          /\ \A i \in 1 .. Len(<<a>>) + Len(<<b>>) :
               ab[i] = IF i <= Len(<<a>>) THEN <<a>>[i] ELSE <<b>>[i - Len(<<a>>)]
      BY <1>1, ConcatProperties
    <2> HIDE DEF ab
    <2> QED
      BY <1>2, <2>1
  <1> HIDE DEF ab
  <1>4. abc \in Seq(S) /\ Len(abc) = 3 /\ abc[1] = a /\ abc[2] = b /\ abc[3] = c
    <2> DEFINE cs == <<c>>
    <2>1. cs \in Seq(S) /\ Len(cs) = 1 /\ cs[1] = c
      BY <1>1, <1>2
    <2> HIDE DEF cs
    <2>2. /\ ab \o cs \in Seq(S) /\ Len(ab \o cs) = Len(ab) + Len(cs)
          /\ \A i \in 1 .. Len(ab) + Len(cs) :
               (ab \o cs)[i] = IF i <= Len(ab) THEN ab[i] ELSE cs[i - Len(ab)]
      BY <1>3, <2>1, ConcatProperties
    <2>3. abc = ab \o cs
      BY DEF cs
    <2> HIDE DEF abc
    <2>4. /\ abc \in Seq(S) /\ Len(abc) = 3
          /\ \A i \in 1 .. 3 : abc[i] = IF i <= 2 THEN ab[i] ELSE cs[i - 2]
      BY <1>3, <2>1, <2>2, <2>3
    <2>5. abc[1] = ab[1] /\ abc[2] = ab[2] /\ abc[3] = cs[1]
      BY <2>4
    <2> QED
      BY <1>3, <2>1, <2>4, <2>5
  <1> HIDE DEF abc
  <1>5. \A i \in 1 .. 3 : abc[i] = <<a, b, c>>[i]
    BY <1>2, <1>4
  <1>6. abc = <<a, b, c>>
    BY <1>1, <1>2, <1>4, <1>5, SeqEqual
  <1> QED
    BY <1>6 DEF abc, ab

\* A key of three pieces is cut in one way only: what shares the key of a plain
\* envelope is of its session, phase and hash.
LEMMA PlainKeys ==
    ASSUME NEW e \in Envelopes, NEW f \in Envelopes, Plain(e), RoundKey(f) = RoundKey(e)
    PROVE  f.sid = e.sid /\ f.phase = e.phase /\ HashPayload(f.payload) = HashPayload(e.payload)
  <1> DEFINE s == Pieces(f.sid)  p == Pieces(f.phase)  h == HashPayload(f.payload)
  <1>1. f.sid \in Sids /\ f.phase \in Phases
    BY EnvelopeAssumption DEF Phases
  <1>2. /\ s \in Seq({ s[n] : n \in DOMAIN s }) \ {<<>>} /\ (Len(s) = 1 => s = <<f.sid>>)
        /\ p \in Seq({ p[n] : n \in DOMAIN p }) \ {<<>>} /\ (Len(p) = 1 => p = <<f.phase>>)
    BY <1>1, PieceAssumption DEF IsCut
  <1>3. (s \o p) \o <<h>> = <<e.sid, e.phase, HashPayload(e.payload)>>
    BY ThreePieces DEF Plain, RoundKey
  <1> HIDE DEF s, p, h
  <1> DEFINE S == { s[n] : n \in DOMAIN s } \cup { p[n] : n \in DOMAIN p } \cup {h}
  <1>4. s \in Seq(S) /\ p \in Seq(S) /\ <<h>> \in Seq(S) /\ Len(<<h>>) = 1
    <2>1. s \in Seq(S) /\ p \in Seq(S)
      BY <1>2, SeqMonotonic
    <2>2. <<h>> \in Seq(S) /\ Len(<<h>>) = 1
      OBVIOUS
    <2> QED
      BY <2>1, <2>2
  <1> HIDE DEF S
  <1>5. Len(s) \in Nat \ {0} /\ Len(p) \in Nat \ {0}
    BY <1>2, <1>4
  <1>6. s \o p \in Seq(S) /\ Len((s \o p) \o <<h>>) = Len(s) + Len(p) + 1
    BY <1>4, ConcatProperties
  <1>7. Len((s \o p) \o <<h>>) = 3
    <2>1. Len(<<e.sid, e.phase, HashPayload(e.payload)>>) = 3
      OBVIOUS
    <2> QED
      BY <1>3, <2>1
  <1>8. Len(s) = 1 /\ Len(p) = 1
    <2> DEFINE m == Len(s)  n == Len(p)
    <2>1. m \in Nat \ {0} /\ n \in Nat \ {0} /\ m + n + 1 = 3
      BY <1>5, <1>6, <1>7
    <2> HIDE DEF m, n
    <2>2. m = 1 /\ n = 1
      BY <2>1
    <2> QED
      BY <2>2 DEF m, n
  <1>9. (s \o p) \o <<h>> = <<f.sid, f.phase, h>>
    BY <1>2, <1>8, ThreePieces
  <1> QED
    BY <1>3, <1>9 DEF h

\* A retried or repeated envelope that hits the reply cache gets the answer the
\* operation gave to that very session, phase and hash, in every behaviour and
\* whatever names the other envelopes bear.
THEOREM CachedRepliesAreSound == Spec => []CachedRepliesSound
  <1> DEFINE Filed == \A d \in dedupeCache : ReplyOfItsKey(d)
  <1>1. Init => Filed
    BY DEF Init
  <1>2. TypeOK /\ Filed /\ [Next]_vars => Filed'
    BY RepliesPreserved DEF ReplyOfItsKey, RoundKey
  <1>3. Filed => CachedRepliesSound
    BY PlainKeys DEF ReplyOfItsKey, CachedRepliesSound
  <1> QED
    BY <1>1, <1>2, <1>3, TypeCorrect, PTL DEF Spec

=============================================================================
