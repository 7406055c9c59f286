----------------------------- MODULE LockProofs -----------------------------
(***************************************************************************)
(* What the session lock is for, proved from one hypothesis: no lock is    *)
(* dropped from the registry while a task waits in its queue.  That is     *)
(* what the comment at _core.py:255 says (`drop the entry if nothing else  *)
(* is waiting on it'), and not what the code does: lock.locked() is false  *)
(* between a release and the waiter's wake-up, and the run lock_race shows *)
(* what follows.  The theorems show that this is the only hole: as long as *)
(* the comment is true of a behaviour, work on a session is serialized, no *)
(* session starts over, no remembered round runs twice, only the signer    *)
(* who opened a session moves it, and no lock of a session that is gone    *)
(* stays registered.  It is true of every behaviour in which no card is    *)
(* fetched while an envelope is handled.                                   *)
(***************************************************************************)
EXTENDS ReceiverProofs

\* A step drops no lock that a task waits for after the step (_core.py:255).
KeepsWaitedLocks ==
    \A s \in Sids :
        sessionLocks[s] # None /\ waiters'[sessionLocks[s]] # <<>>
        => sessionLocks'[s] = sessionLocks[s]

WaitedLocksStay == [][KeepsWaitedLocks]_vars

-----------------------------------------------------------------------------
(* The inductive invariant.                                                *)

\* A task refers to the lock that is registered for its session.
Registered ==
    \A t \in Tasks : pc[t] # "idle" => lock[t] = sessionLocks[env[t].sid]

\* Two sessions have two locks.
OwnLocks ==
    \A s, u \in Sids :
        sessionLocks[s] # None /\ sessionLocks[s] = sessionLocks[u] => s = u

\* Whoever is queued is in the queue of its lock.
IsIn(t, q) == \E n \in 1..Len(q) : q[n] = t

Waits == \A t \in Tasks : pc[t] = "queued" => IsIn(t, waiters[lock[t]])

\* A lock has one holder.
OneHolder ==
    \A t, u \in Tasks :
        pc[t] \in InSection /\ pc[u] \in InSection /\ lock[t] = lock[u] => t = u

\* Between its look at the two tables and the end of an opening, with a card
\* fetch in between, nobody opens the session or, if it is plain, answers the
\* round.
AfterLookup == {"resolving", "refreshing", "open"}

OpeningFree ==
    \A t \in Tasks : pc[t] \in AfterLookup =>
        rxSessions[env[t].sid] = None /\ (Plain(env[t]) => CachedRounds(env[t]) = {})

LockInv ==
    /\ Registered
    /\ OwnLocks
    /\ Waits
    /\ OneHolder
    /\ OpeningFree
    /\ LockRegistryBounded

\* The lock serializes a session because its tasks share the registered lock.
LEMMA LockSerializes ==
    ASSUME Registered, OneHolder
    PROVE  SessionSerialized
  BY DEF Registered, OneHolder, SessionSerialized, InSection

-----------------------------------------------------------------------------
(* Queues.                                                                 *)

\* Whoever else leaves, or is served, the rest keep waiting.
LEMMA StaysInWithout ==
    ASSUME NEW q \in Seq(Tasks), NEW t, NEW u, u # t, IsIn(u, q)
    PROVE  IsIn(u, Without(q, t))
  <1>1. CASE \E n \in 1..Len(q) : q[n] = t
    <2> DEFINE n == CHOOSE n \in 1..Len(q) : q[n] = t
               front == SubSeq(q, 1, n - 1)
               rest  == SubSeq(q, n + 1, Len(q))
    <2>1. n \in 1..Len(q) /\ q[n] = t
      BY <1>1
    <2>2. Without(q, t) = front \o rest
      BY <1>1 DEF Without
    <2> HIDE DEF n
    <2>3. PICK m \in 1..Len(q) : q[m] = u
      BY DEF IsIn
    <2>4. /\ front \in Seq(Tasks) /\ Len(front) = n - 1
          /\ \A k \in 1..n-1 : front[k] = q[k]
      BY <2>1
    <2>5. /\ rest \in Seq(Tasks) /\ Len(rest) = Len(q) - n
          /\ \A k \in 1..Len(q)-n : rest[k] = q[n + k]
      BY <2>1
    <2> HIDE DEF front, rest
    <2>6. /\ Len(front \o rest) = Len(q) - 1
          /\ \A k \in 1..Len(q)-1 :
               (front \o rest)[k] = IF k < n THEN q[k] ELSE q[k + 1]
      <3>1. /\ Len(front \o rest) = Len(front) + Len(rest)
            /\ \A k \in 1..Len(front) + Len(rest) :
                 (front \o rest)[k] = IF k <= Len(front) THEN front[k] ELSE rest[k - Len(front)]
        BY <2>4, <2>5, ConcatProperties
      <3> QED
        BY <2>1, <2>4, <2>5, <3>1
    <2>7. CASE m < n
      <3>1. m \in 1..Len(q)-1
        BY <2>1, <2>7
      <3>2. (front \o rest)[m] = u
        BY <2>3, <2>6, <2>7, <3>1
      <3> QED
        BY <2>2, <2>6, <3>1, <3>2 DEF IsIn
    <2>8. CASE m > n
      <3>1. m - 1 \in 1..Len(q)-1 /\ ~(m - 1 < n) /\ (m - 1) + 1 = m
        BY <2>1, <2>8
      <3>2. (front \o rest)[m - 1] = u
        BY <2>3, <2>6, <3>1
      <3> QED
        BY <2>2, <2>6, <3>1, <3>2 DEF IsIn
    <2> QED
      BY <2>1, <2>3, <2>7, <2>8
  <1>2. CASE ~ \E n \in 1..Len(q) : q[n] = t
    BY <1>2 DEF Without
  <1> QED
    BY <1>1, <1>2

LEMMA StaysInTail ==
    ASSUME NEW q \in Seq(Tasks), q # <<>>, NEW u, u # Head(q), IsIn(u, q)
    PROVE  IsIn(u, Tail(q))
  <1>1. PICK n \in 1..Len(q) : q[n] = u
    BY DEF IsIn
  <1>2. n - 1 \in 1..Len(Tail(q)) /\ Tail(q)[n - 1] = q[n]
    BY <1>1
  <1> QED
    BY <1>1, <1>2 DEF IsIn

\* A newcomer goes to the end and displaces nobody.
LEMMA StaysInAppend ==
    ASSUME NEW q \in Seq(Tasks), NEW t \in Tasks, NEW u, u = t \/ IsIn(u, q)
    PROVE  IsIn(u, Append(q, t))
  <1>1. /\ Len(Append(q, t)) = Len(q) + 1 /\ Append(q, t)[Len(q) + 1] = t
        /\ \A n \in 1..Len(q) : Append(q, t)[n] = q[n]
    OBVIOUS
  <1> QED
    BY <1>1 DEF IsIn

-----------------------------------------------------------------------------
(* The kinds of steps, as the locks see them.                              *)

\* Tasks, locks, receiver sessions and reply cache stay as they are.
Stands == UNCHANGED <<running, pc, env, lock, lockVars, rxSessions, dedupeCache>>

\* A task goes on inside the section; past the lookup it only came by finding
\* neither a session nor an answer.  It keeps the event loop unless a card has
\* to be fetched.
Moves(t) ==
    /\ pc[t] \in InSection
    /\ pc[t] = "section" => Opening(t)
    /\ \E place \in AfterLookup : pc' = [pc EXCEPT ![t] = place]
    /\ running' = t \/ "card_fetch" \in Faults
    /\ UNCHANGED <<env, lock, lockVars, rxSessions, dedupeCache>>

\* A task's handler returns.  Only from inside the section does it leave
\* anything behind, and then for its own session and round.
Leaves(t) ==
    /\ pc[t] # "idle"
    /\ DropLock(t)
    /\ pc'   = [pc   EXCEPT ![t] = "idle"]
    /\ env'  = [env  EXCEPT ![t] = None]
    /\ lock' = [lock EXCEPT ![t] = None]
    /\ \/ waiters' = waiters
       \/ waiters' = [waiters EXCEPT ![lock[t]] = Without(waiters[lock[t]], t)]
    /\ \A s \in Sids \ {env[t].sid} : rxSessions'[s] = rxSessions[s]
    /\ \A d \in dedupeCache' : d \in dedupeCache \/ d.key = RoundKey(env[t])
    /\ pc[t] \in InSection \/ UNCHANGED <<rxSessions, dedupeCache>>

\* Every step of a handler is one of these.
LEMMA HandlerLockSteps ==
    ASSUME TypeOK, NEW t \in Tasks, TaskStep(t) \/ Cancel(t)
    PROVE  Wake(t) \/ Moves(t) \/ Leaves(t)
  <1>1. CASE DedupeHit(t)
    BY <1>1 DEF DedupeHit, At, Return, Leaves, InSection, cacheVars, sessionVars
  <1>2. CASE Cancel(t)
    BY <1>2 DEF Cancel, Suspended, Return, Leaves, cacheVars, sessionVars
  <1>3. CASE \/ RefuseRound(t) \/ RefuseReopening(t) \/ RefuseOpening(t)
             \/ RefuseIntent(t) \/ RefuseIncompatible(t) \/ ConfigRaises(t)
    <2>1. pc[t] \in InSection /\ UNCHANGED dedupeCache /\ \E code : Refuse(t, code)
      BY <1>3 DEF RefuseRound, RefuseReopening, RefuseOpening, RefuseIntent,
                  RefuseIncompatible, ConfigRaises, AcceptRound, AcceptOpening, Round,
                  Opening, NewRound, At, InSection, cacheVars
    <2> QED
      BY <2>1 DEF Refuse, Return, Leaves, InSection, sessionVars
  <1>4. CASE ResolveRaises(t) \/ \E c \in Cards : RefuseSignature(t, c)
    <2>1. pc[t] \in InSection /\ UNCHANGED dedupeCache /\ \E code : Refuse(t, code)
      BY <1>4 DEF ResolveRaises, RefuseSignature, Resumed, InSection, cacheVars
    <2> QED
      BY <2>1 DEF Refuse, Return, Leaves, InSection, sessionVars
  <1>5. CASE ResolvePeer(t)
    BY <1>5 DEF ResolvePeer, CallResolvePeer, Opening, NewRound, At, Moves, AfterLookup,
                InSection, lockVars, cacheVars, sessionVars
  <1>6. CASE \E c \in Cards : PeerVerified(t, c) \/ RefreshPeer(t, c)
    BY <1>6 DEF PeerVerified, RefreshPeer, CallResolvePeer, Resumed, Moves, AfterLookup,
                InSection, lockVars, cacheVars, sessionVars
  <1>7. CASE ProcessFails(t) \/ ProcessKeyError(t)
    <2>1. AcceptRound(t) /\ \E code, ran : EndSession(t, code, ran)
      BY <1>7 DEF ProcessFails, ProcessKeyError
    <2>2. pc[t] = "section" /\ env[t].sid \in Sids
      BY <2>1, AcceptedRound DEF At
    <2> QED
      BY <2>1, <2>2 DEF EndSession, Return, Leaves, InSection, TypeOK, SessionTypes
  <1>8. ASSUME NEW o, NEW log, Answer(t, o, log), pc[t] \in {"section", "open"},
               \A s \in Sids \ {env[t].sid} : rxSessions'[s] = rxSessions[s]
        PROVE  Leaves(t)
    BY <1>8 DEF Answer, Return, Leaves, InSection
  <1>9. ASSUME NEW o \in Outcomes, ProcessRound(t, o) PROVE Leaves(t)
    <2>1. pc[t] = "section" /\ env[t].sid \in Sids
      BY <1>9, AcceptedRound DEF ProcessRound, At
    <2>2. \A s \in Sids \ {env[t].sid} : rxSessions'[s] = rxSessions[s]
      BY <1>9, <2>1 DEF ProcessRound, TypeOK, SessionTypes
    <2> QED
      BY <1>8, <1>9, <2>1, <2>2 DEF ProcessRound
  <1>10. ASSUME NEW o \in Outcomes, Receive(t, o) PROVE Leaves(t)
    <2>1. pc[t] = "open" /\ env[t].sid \in Sids
      BY <1>10, AcceptedOpening DEF Receive, At
    <2>2. \A s \in Sids \ {env[t].sid} : rxSessions'[s] = rxSessions[s]
      BY <1>10, <2>1 DEF Receive, TypeOK, SessionTypes
    <2> QED
      BY <1>8, <1>10, <2>1, <2>2 DEF Receive
  <1>11. CASE ReceiveFails(t)
    BY <1>11 DEF ReceiveFails, AcceptOpening, At, Return, Leaves, InSection, sessionVars
  <1> QED
    BY <1>1, <1>2, <1>3, <1>4, <1>5, <1>6, <1>7, <1>9, <1>10, <1>11 DEF TaskStep

\* Every step is one of these, an arrival or a restart.
LEMMA LockSteps ==
    ASSUME TypeOK, [Next]_vars
    PROVE  \/ Stands \/ Restart
           \/ \E t \in Tasks, e \in Envelopes : HandleEnvelope(t, e)
           \/ \E t \in Tasks : Wake(t) \/ Moves(t) \/ Leaves(t)
  <1>1. CASE \/ \E e \in Envelopes : RejectHeader(e)
             \/ \E s \in Sids : Abort(s)
             \/ Tick \/ UNCHANGED vars
    BY <1>1 DEF RejectHeader, Abort, Tick, Stands, vars, taskVars, cacheVars, sessionVars,
                lockVars
  <1>2. ASSUME NEW t \in Tasks, TaskStep(t) \/ Cancel(t)
        PROVE  Wake(t) \/ Moves(t) \/ Leaves(t)
    BY <1>2, HandlerLockSteps
  <1> QED
    BY <1>1, <1>2 DEF Next

\* Whatever becomes of the registry, a lock has one holder: it is taken only
\* when nobody holds it.
LEMMA HolderKept ==
    ASSUME TypeOK, OneHolder, [Next]_vars
    PROVE  OneHolder'
  <1>1. CASE Stands \/ UNCHANGED vars
    BY <1>1 DEF Stands, vars, taskVars, OneHolder
  <1>2. CASE Restart
    BY <1>2 DEF Restart, OneHolder, InSection
  <1>3. ASSUME NEW t \in Tasks, NEW e \in Envelopes, HandleEnvelope(t, e)
        PROVE  OneHolder'
    <2> DEFINE l == LockFor(e.sid)
    <2>1. /\ lock' = [lock EXCEPT ![t] = l]
          /\ \/ ~Held(l) /\ pc' = [pc EXCEPT ![t] = "section"]
             \/ pc' = [pc EXCEPT ![t] = "queued"]
      BY <1>3 DEF HandleEnvelope
    <2> HIDE DEF l
    <2> QED
      BY <2>1 DEF OneHolder, Held, InSection, TypeOK, TaskTypes
  <1>4. ASSUME NEW t \in Tasks, Wake(t) PROVE OneHolder'
    BY <1>4 DEF Wake, OneHolder, Held, InSection, TypeOK, TaskTypes
  <1>5. ASSUME NEW t \in Tasks, Moves(t) PROVE OneHolder'
    <2>1. /\ pc[t] \in InSection /\ lock' = lock
          /\ \A u \in Tasks \ {t} : pc'[u] = pc[u]
      BY <1>5 DEF Moves, TypeOK, TaskTypes
    <2> QED
      BY <2>1 DEF OneHolder
  <1>6. ASSUME NEW t \in Tasks, Leaves(t) PROVE OneHolder'
    BY <1>6 DEF Leaves, OneHolder, InSection, TypeOK, TaskTypes
  <1> QED
    BY <1>1, <1>2, <1>3, <1>4, <1>5, <1>6, LockSteps

-----------------------------------------------------------------------------
(* The invariant is inductive.                                             *)

\* Steps the locks do not see.
LEMMA StandsKeeps ==
    ASSUME LockInv, Stands
    PROVE  LockInv'
  BY DEF LockInv, Stands, lockVars, Registered, OwnLocks, Waits, IsIn, OneHolder,
         OpeningFree, CachedRounds, Plain, RoundKey, LockRegistryBounded

\* A task that goes on has looked at both tables already or just now.
LEMMA MovesKeeps ==
    ASSUME TypeOK, LockInv, NEW t \in Tasks, Moves(t)
    PROVE  LockInv'
  <1>1. /\ UNCHANGED <<env, lock, sessionLocks, waiters, rxSessions, dedupeCache>>
        /\ \A u \in Tasks \ {t} : pc'[u] = pc[u]
        /\ pc[t] \in InSection /\ pc'[t] \in AfterLookup
        /\ pc[t] \notin AfterLookup => Opening(t)
    BY DEF Moves, lockVars, TypeOK, TaskTypes, InSection, AfterLookup
  <1>2. ASSUME NEW u \in Tasks
        PROVE  /\ pc'[u] \in InSection => pc[u] \in InSection
               /\ pc'[u] # "idle" => pc[u] # "idle"
               /\ pc[u] # "idle" => pc'[u] # "idle"
               /\ pc'[u] = "queued" => pc[u] = "queued"
    <2>1. CASE u = t
      BY <1>1, <2>1 DEF InSection, AfterLookup
    <2>2. CASE u # t
      BY <1>1, <2>2
    <2> QED
      BY <2>1, <2>2
  <1>3. Registered' /\ OwnLocks'
    BY <1>1, <1>2 DEF LockInv, Registered, OwnLocks
  <1>4. Waits'
    BY <1>1, <1>2 DEF LockInv, Waits, IsIn
  <1>5. OneHolder'
    BY <1>1, <1>2 DEF LockInv, OneHolder
  <1>6. LockRegistryBounded'
    BY <1>1, <1>2 DEF LockInv, LockRegistryBounded
  <1>7. OpeningFree'
    BY <1>1 DEF LockInv, OpeningFree, Opening, NewRound, CachedRounds, Plain, RoundKey
  <1> QED
    BY <1>3, <1>4, <1>5, <1>6, <1>7 DEF LockInv

\* The head of a queue takes its lock only when nobody holds it.
LEMMA WakeKeeps ==
    ASSUME TypeOK, LockInv, NEW t \in Tasks, Wake(t)
    PROVE  LockInv'
  <1>1. /\ pc[t] = "queued" /\ ~Held(lock[t])
        /\ pc' = [pc EXCEPT ![t] = "section"]
        /\ UNCHANGED <<env, lock, sessionLocks, rxSessions>>
        /\ dedupeCache' = LiveRounds
        /\ waiters' = [waiters EXCEPT ![lock[t]] = Tail(waiters[lock[t]])]
        /\ waiters[lock[t]] # <<>> /\ Head(waiters[lock[t]]) = t
    BY DEF Wake, sessionVars
  <1>2. lock[t] \in LockIds /\ \A l \in LockIds : waiters[l] \in Seq(Tasks)
    BY <1>1, BusyTask DEF TypeOK, LockTypes
  <1>3. Registered' /\ OwnLocks' /\ LockRegistryBounded'
    BY <1>1 DEF LockInv, Registered, OwnLocks, LockRegistryBounded, TypeOK, TaskTypes
  <1>4. Waits'
    <2> SUFFICES ASSUME NEW u \in Tasks, pc'[u] = "queued"
                 PROVE  IsIn(u, waiters'[lock[u]])
      BY <1>1 DEF Waits, IsIn
    <2>1. u # t /\ pc[u] = "queued" /\ IsIn(u, waiters[lock[u]])
      BY <1>1 DEF TypeOK, TaskTypes, LockInv, Waits
    <2>2. CASE lock[u] = lock[t]
      <3>1. waiters'[lock[u]] = Tail(waiters[lock[t]])
        BY <1>1, <1>2, <2>2 DEF TypeOK, LockTypes
      <3> QED
        BY <1>1, <1>2, <2>1, <2>2, <3>1, StaysInTail
    <2>3. CASE lock[u] # lock[t]
      <3>1. waiters'[lock[u]] = waiters[lock[u]]
        BY <1>1, <1>2, <2>1, <2>3, BusyTask DEF TypeOK, LockTypes
      <3> QED
        BY <2>1, <3>1
    <2> QED
      BY <2>2, <2>3
  <1>5. OneHolder'
    BY <1>1 DEF LockInv, OneHolder, Held, TypeOK, TaskTypes, InSection
  <1>6. OpeningFree'
    BY <1>1 DEF LockInv, OpeningFree, AfterLookup, CachedRounds, LiveRounds, Plain, RoundKey,
                TypeOK, TaskTypes
  <1> QED
    BY <1>3, <1>4, <1>5, <1>6 DEF LockInv

\* A newcomer refers to the registered lock, or registers one that no session
\* and no task has; it takes the lock only when nobody holds it.
LEMMA ArrivalKeeps ==
    ASSUME TypeOK, LockInv, NEW t \in Tasks, NEW e \in Envelopes, HandleEnvelope(t, e)
    PROVE  LockInv'
  <1> DEFINE l == LockFor(e.sid)
  <1>1. /\ pc[t] = "idle" /\ e.sid \in Sids
        /\ sessionLocks' = [sessionLocks EXCEPT ![e.sid] = l]
        /\ env' = [env EXCEPT ![t] = e] /\ lock' = [lock EXCEPT ![t] = l]
        /\ rxSessions' = rxSessions /\ dedupeCache' \subseteq dedupeCache
        /\ \/ ~Held(l) /\ pc' = [pc EXCEPT ![t] = "section"] /\ waiters' = waiters
           \/ /\ pc' = [pc EXCEPT ![t] = "queued"]
              /\ waiters' = [waiters EXCEPT ![l] = Append(waiters[l], t)]
    BY EnvelopeAssumption DEF HandleEnvelope, Idle, sessionVars, LiveRounds
  <1>2. \/ sessionLocks[e.sid] # None /\ l = sessionLocks[e.sid]
        \/ sessionLocks[e.sid] = None /\ l \in UnusedLocks
    BY DEF LockFor, HandleEnvelope
  <1> HIDE DEF l
  <1>3. l \in LockIds /\ l # None
    BY <1>1, <1>2, NoneAssumption DEF UnusedLocks, TypeOK, LockTypes, LockOrNone
  <1>4. /\ sessionLocks'[e.sid] = l
        /\ \A s \in Sids \ {e.sid} : sessionLocks'[s] = sessionLocks[s]
        /\ env'[t] = e /\ lock'[t] = l /\ pc'[t] \in {"section", "queued"}
        /\ \A u \in Tasks \ {t} :
             env'[u] = env[u] /\ lock'[u] = lock[u] /\ pc'[u] = pc[u]
    BY <1>1 DEF TypeOK, LockTypes, TaskTypes
  <1>5. Registered'
    <2> SUFFICES ASSUME NEW u \in Tasks \ {t}, pc[u] # "idle"
                 PROVE  lock[u] = sessionLocks'[env[u].sid]
      BY <1>4 DEF Registered
    <2>1. /\ lock[u] = sessionLocks[env[u].sid] /\ env[u].sid \in Sids
          /\ lock[u] # None
      BY BusyTask DEF LockInv, Registered, TypeOK, TaskTypes
    <2> QED
      BY <1>2, <1>4, <2>1
  <1>6. OwnLocks'
    BY <1>2, <1>4 DEF LockInv, OwnLocks, UnusedLocks
  <1>7. Waits'
    <2> SUFFICES ASSUME NEW u \in Tasks, pc'[u] = "queued"
                 PROVE  IsIn(u, waiters'[lock'[u]])
      BY DEF Waits, IsIn
    <2>1. waiters[l] \in Seq(Tasks)
      BY <1>3 DEF TypeOK, LockTypes
    <2>2. CASE u = t
      <3>1. waiters'[l] = Append(waiters[l], t)
        BY <1>1, <1>3, <2>2 DEF TypeOK, TaskTypes, LockTypes
      <3> QED
        BY <1>4, <2>1, <2>2, <3>1, StaysInAppend
    <2>3. CASE u # t
      <3>1. IsIn(u, waiters[lock[u]]) /\ lock'[u] = lock[u] /\ lock[u] \in LockIds
        BY <1>4, <2>3, BusyTask DEF LockInv, Waits
      <3>2. \/ waiters'[lock[u]] = waiters[lock[u]]
            \/ lock[u] = l /\ waiters'[l] = Append(waiters[l], t)
        BY <1>1, <1>3, <3>1 DEF TypeOK, LockTypes
      <3> QED
        BY <2>1, <3>1, <3>2, StaysInAppend
    <2> QED
      BY <2>2, <2>3
  <1>8. OneHolder'
    <2>1. \A u \in Tasks \ {t} :
            pc'[t] \in InSection /\ pc'[u] \in InSection => lock'[u] # lock'[t]
      BY <1>1, <1>4 DEF Held, InSection, TypeOK, TaskTypes
    <2> QED
      BY <1>4, <2>1 DEF LockInv, OneHolder
  <1>9. OpeningFree'
    <2> SUFFICES ASSUME NEW u \in Tasks, pc'[u] \in AfterLookup
                 PROVE  /\ rxSessions'[env'[u].sid] = None
                        /\ Plain(env'[u]) => CachedRounds(env[u])' = {}
      BY DEF OpeningFree, Plain
    <2>1. u # t /\ pc'[u] = pc[u] /\ env'[u] = env[u]
      BY <1>4 DEF AfterLookup
    <2>2. rxSessions[env[u].sid] = None /\ (Plain(env[u]) => CachedRounds(env[u]) = {})
      BY <2>1 DEF LockInv, OpeningFree
    <2>3. dedupeCache' \subseteq dedupeCache /\ rxSessions' = rxSessions
      BY <1>1
    <2>4. CachedRounds(env[u])' \subseteq CachedRounds(env[u])
      BY <2>1, <2>3 DEF CachedRounds, RoundKey
    <2> QED
      BY <2>1, <2>2, <2>3, <2>4
  <1>10. LockRegistryBounded'
    <2> SUFFICES ASSUME NEW s \in Sids, s # e.sid, sessionLocks[s] # None
                 PROVE  \/ rxSessions[s] # None
                        \/ \E u \in Tasks : pc'[u] # "idle" /\ env'[u].sid = s
      BY <1>1, <1>4 DEF LockRegistryBounded
    <2>1. CASE \E u \in Tasks : pc[u] # "idle" /\ env[u].sid = s
      BY <1>1, <1>4, <2>1
    <2> QED
      BY <2>1 DEF LockInv, LockRegistryBounded
  <1> QED
    BY <1>5, <1>6, <1>7, <1>8, <1>9, <1>10 DEF LockInv

\* Whoever leaves forgets the lock only when nobody else refers to it: a
\* holder is looked for, and a waiter would keep the lock by the hypothesis.
LEMMA LeavesKeeps ==
    ASSUME TypeOK, LockInv, KeepsWaitedLocks, NEW t \in Tasks, Leaves(t)
    PROVE  LockInv'
  <1> DEFINE s == env[t].sid
             l == lock[t]
  <1>1. s \in Sids /\ l \in LockIds /\ l # None /\ l = sessionLocks[s]
    BY BusyTask DEF Leaves, LockInv, Registered, TypeOK, TaskTypes
  <1>2. /\ \A u \in Tasks \ {t} :
             env'[u] = env[u] /\ lock'[u] = lock[u] /\ pc'[u] = pc[u]
        /\ pc'[t] = "idle"
    BY DEF Leaves, TypeOK, TaskTypes
  <1>3. /\ \A v \in Sids \ {s} : sessionLocks'[v] = sessionLocks[v]
        /\ sessionLocks'[s] =
             IF ~HeldByAnother(l, t) /\ rxSessions'[s] = None THEN None ELSE l
    BY <1>1 DEF Leaves, DropLock, TypeOK, LockTypes
  <1>4. /\ \A v \in Sids \ {s} : rxSessions'[v] = rxSessions[v]
        /\ \A d \in dedupeCache' : d \in dedupeCache \/ d.key = RoundKey(env[t])
        /\ pc[t] \in InSection \/ (rxSessions' = rxSessions /\ dedupeCache' = dedupeCache)
    BY DEF Leaves
  <1>5. waiters' = waiters \/ waiters' = [waiters EXCEPT ![l] = Without(waiters[l], t)]
    BY DEF Leaves
  <1> HIDE DEF s, l
  <1>6. Waits'
    <2> SUFFICES ASSUME NEW u \in Tasks \ {t}, pc[u] = "queued"
                 PROVE  IsIn(u, waiters'[lock[u]])
      BY <1>2 DEF Waits, IsIn
    <2>1. IsIn(u, waiters[lock[u]]) /\ lock[u] \in LockIds
      BY BusyTask DEF LockInv, Waits
    <2>2. \/ waiters'[lock[u]] = waiters[lock[u]]
          \/ lock[u] = l /\ waiters'[l] = Without(waiters[l], t)
      BY <1>1, <1>5, <2>1 DEF TypeOK, LockTypes
    <2>3. waiters[l] \in Seq(Tasks)
      BY <1>1 DEF TypeOK, LockTypes
    <2> QED
      BY <2>1, <2>2, <2>3, StaysInWithout
  <1>7. ASSUME NEW u \in Tasks \ {t}, pc[u] # "idle", env[u].sid = s
        PROVE  sessionLocks'[s] = l
    <2>1. lock[u] = l
      BY <1>1, <1>7 DEF LockInv, Registered
    <2>2. CASE pc[u] \in InSection
      BY <1>3, <2>1, <2>2 DEF HeldByAnother
    <2>3. CASE pc[u] = "queued"
      <3>1. IsIn(u, waiters'[l])
        BY <1>2, <1>6, <2>1, <2>3 DEF Waits, IsIn
      <3>2. waiters'[l] # <<>>
        BY <3>1 DEF IsIn
      <3> QED
        BY <1>1, <3>2 DEF KeepsWaitedLocks
    <2> QED
      BY <1>7, <2>2, <2>3 DEF TypeOK, TaskTypes
  <1>8. Registered'
    <2> SUFFICES ASSUME NEW u \in Tasks \ {t}, pc[u] # "idle"
                 PROVE  lock[u] = sessionLocks'[env[u].sid]
      BY <1>2 DEF Registered
    <2>1. lock[u] = sessionLocks[env[u].sid] /\ env[u].sid \in Sids
      BY BusyTask DEF LockInv, Registered
    <2> QED
      BY <1>1, <1>3, <1>7, <2>1
  <1>9. OwnLocks'
    BY <1>1, <1>3 DEF LockInv, OwnLocks
  <1>10. OneHolder'
    BY <1>2 DEF LockInv, OneHolder, InSection
  <1>11. OpeningFree'
    <2> SUFFICES ASSUME NEW u \in Tasks \ {t}, pc[u] \in AfterLookup
                 PROVE  /\ rxSessions'[env[u].sid] = None
                        /\ Plain(env[u]) => CachedRounds(env[u])' = {}
      BY <1>2 DEF OpeningFree, AfterLookup, CachedRounds, Plain, RoundKey
    <2>1. /\ rxSessions[env[u].sid] = None /\ (Plain(env[u]) => CachedRounds(env[u]) = {})
          /\ env[u].sid \in Sids /\ pc[u] \in InSection
      BY BusyTask DEF LockInv, OpeningFree, AfterLookup, InSection
    <2>2. CASE pc[t] \in InSection
      <3>1. env[u].sid # s
        BY <2>1, <2>2, LockSerializes DEF LockInv, SessionSerialized, s
      <3>2. Plain(env[u]) => RoundKey(env[u]) # RoundKey(env[t])
        <4>1. env[u] \in Envelopes /\ env[t] \in Envelopes
          BY <2>1, <2>2, BusyTask DEF InSection
        <4>2. Plain(env[u]) /\ RoundKey(env[t]) = RoundKey(env[u]) => env[t].sid = env[u].sid
          BY <4>1, PlainKeys
        <4> QED
          BY <3>1, <4>2 DEF s
      <3> QED
        BY <1>2, <1>4, <2>1, <3>1, <3>2 DEF CachedRounds
    <2>3. CASE pc[t] \notin InSection
      BY <1>2, <1>4, <2>1, <2>3 DEF CachedRounds
    <2> QED
      BY <2>2, <2>3
  <1>12. LockRegistryBounded'
    <2> SUFFICES ASSUME NEW v \in Sids, sessionLocks'[v] # None, rxSessions'[v] = None
                 PROVE  \E u \in Tasks : pc'[u] # "idle" /\ env'[u].sid = v
      BY DEF LockRegistryBounded
    <2>1. CASE v = s
      <3>1. PICK u \in Tasks \ {t} : lock[u] = l /\ pc[u] \in InSection
        BY <1>3, <2>1 DEF HeldByAnother
      <3>2. env[u].sid = s
        BY <1>1, <3>1, BusyTask DEF LockInv, Registered, OwnLocks, InSection
      <3> QED
        BY <1>2, <2>1, <3>1, <3>2 DEF InSection
    <2>2. CASE v # s
      <3>1. PICK u \in Tasks : pc[u] # "idle" /\ env[u].sid = v
        BY <1>3, <1>4, <2>2 DEF LockInv, LockRegistryBounded
      <3> QED
        BY <1>2, <2>2, <3>1 DEF s
    <2> QED
      BY <2>1, <2>2
  <1> QED
    BY <1>6, <1>8, <1>9, <1>10, <1>11, <1>12 DEF LockInv

\* No step breaks the invariant, as long as no lock is dropped under a waiter.
LEMMA LockPreserved ==
    ASSUME TypeOK, LockInv, [Next]_vars, [KeepsWaitedLocks]_vars
    PROVE  LockInv'
  <1>1. CASE UNCHANGED vars
    BY <1>1, StandsKeeps DEF Stands, vars, taskVars, cacheVars, sessionVars, lockVars
  <1>2. CASE KeepsWaitedLocks
    <2>1. CASE Restart
      BY <2>1 DEF Restart, LockInv, Registered, OwnLocks, Waits, OneHolder, OpeningFree,
                  LockRegistryBounded, InSection, AfterLookup
    <2> QED
      BY <1>2, <2>1, LockSteps, StandsKeeps, MovesKeeps, WakeKeeps, ArrivalKeeps, LeavesKeeps
  <1> QED
    BY <1>1, <1>2

\* A process starts with no task and no lock.
LEMMA LockInit == Init => LockInv
  BY DEF Init, LockInv, Registered, OwnLocks, Waits, OneHolder, OpeningFree,
         LockRegistryBounded, InSection, AfterLookup

\* The invariant holds in every behaviour that drops no lock under a waiter.
LEMMA LockInvariant == Spec /\ WaitedLocksStay => [](TypeOK /\ LockInv)
  <1>1. Init => LockInv
    BY LockInit
  <1>2. TypeOK /\ LockInv /\ [Next]_vars /\ [KeepsWaitedLocks]_vars => LockInv'
    BY LockPreserved
  <1> QED
    BY <1>1, <1>2, TypeCorrect, PTL DEF Spec, WaitedLocksStay

-----------------------------------------------------------------------------
(* When the hypothesis holds.                                              *)

\* A handler that has started runs to its end, so nobody queues.
RunsThrough ==
    /\ \A t \in Tasks : pc[t] # "idle" => running = t
    /\ \A l \in LockIds : waiters[l] = <<>>

\* While resolve_peer answers from its cache nothing in the section suspends.
LEMMA RunsThroughPreserved ==
    ASSUME "card_fetch" \notin Faults, TypeOK, RunsThrough, [Next]_vars
    PROVE  RunsThrough'
  <1>1. CASE Stands
    BY <1>1 DEF Stands, lockVars, RunsThrough
  <1>2. CASE Restart
    BY <1>2 DEF Restart, RunsThrough
  <1>3. ASSUME NEW t \in Tasks, NEW e \in Envelopes, HandleEnvelope(t, e)
        PROVE  RunsThrough'
    <2> DEFINE l == LockFor(e.sid)
    <2>1. \A u \in Tasks : pc[u] = "idle"
      BY <1>3, NoneAssumption DEF HandleEnvelope, Idle, RunsThrough
    <2>2. l \in LockIds
      BY <1>3, EnvelopeAssumption
         DEF HandleEnvelope, LockFor, UnusedLocks, TypeOK, LockTypes, LockOrNone
    <2>3. ~Held(l) /\ waiters[l] = <<>>
      BY <2>1, <2>2 DEF Held, InSection, RunsThrough
    <2> HIDE DEF l
    <2>4. pc' = [pc EXCEPT ![t] = "section"] /\ running' = t /\ waiters' = waiters
      BY <1>3, <2>3 DEF HandleEnvelope, l
    <2> QED
      BY <2>1, <2>4 DEF RunsThrough, TypeOK, TaskTypes
  <1>4. ASSUME NEW t \in Tasks, Wake(t) PROVE FALSE
    <2>1. lock[t] \in LockIds
      BY <1>4, BusyTask DEF Wake
    <2> QED
      BY <1>4, <2>1 DEF Wake, RunsThrough
  <1>5. ASSUME NEW t \in Tasks, Moves(t) PROVE RunsThrough'
    <2>1. \A u \in Tasks \ {t} : pc[u] = "idle"
      BY <1>5, NoneAssumption DEF Moves, InSection, RunsThrough
    <2> QED
      BY <1>5, <2>1 DEF Moves, lockVars, RunsThrough, TypeOK, TaskTypes
  <1>6. ASSUME NEW t \in Tasks, Leaves(t) PROVE RunsThrough'
    <2>1. \A u \in Tasks \ {t} : pc[u] = "idle"
      BY <1>6 DEF Leaves, RunsThrough
    <2>2. \A u \in Tasks : pc'[u] = "idle"
      BY <1>6, <2>1 DEF Leaves, TypeOK, TaskTypes
    <2>3. Without(<<>>, t) = <<>>
      BY DEF Without
    <2>4. lock[t] \in LockIds
      BY <1>6, BusyTask DEF Leaves
    <2>5. \A l \in LockIds : waiters'[l] = <<>>
      BY <1>6, <2>3, <2>4 DEF Leaves, RunsThrough, TypeOK, LockTypes
    <2> QED
      BY <2>2, <2>5 DEF RunsThrough
  <1> QED
    BY <1>1, <1>2, <1>3, <1>4, <1>5, <1>6, LockSteps

\* As long as no card is fetched while an envelope is handled, because
\* resolve_peer finds it in its cache, the comment is true of the code: what
\* opens the hole is the suspension inside the section (_core.py:508-510).
THEOREM KnownCardsKeepLocks ==
    ASSUME "card_fetch" \notin Faults
    PROVE  Spec => WaitedLocksStay
  <1>1. Init => RunsThrough
    BY DEF Init, RunsThrough
  <1>2. TypeOK /\ RunsThrough /\ [Next]_vars => RunsThrough'
    BY RunsThroughPreserved
  <1>3. TypeOK /\ RunsThrough' => [KeepsWaitedLocks]_vars
    BY DEF RunsThrough, KeepsWaitedLocks, TypeOK, LockTypes, LockOrNone
  <1> QED
    BY <1>1, <1>2, <1>3, TypeCorrect, PTL DEF Spec, WaitedLocksStay

-----------------------------------------------------------------------------
(* What the lock guarantees.                                               *)

\* Unless a lock is dropped under a waiter, at most one task is inside the
\* section of a session, its card fetches included (_core.py:245).
THEOREM SessionsSerialized == Spec /\ WaitedLocksStay => []SessionSerialized
  <1>1. TypeOK /\ LockInv => SessionSerialized
    BY LockSerializes DEF LockInv
  <1> QED
    BY <1>1, LockInvariant, PTL

\* Unless a lock is dropped under a waiter, the registry holds the locks of
\* sessions that are open or being handled and no others (_core.py:255-257).
THEOREM LockRegistryStaysBounded == Spec /\ WaitedLocksStay => []LockRegistryBounded
  <1>1. TypeOK /\ LockInv => LockRegistryBounded
    BY DEF LockInv
  <1> QED
    BY <1>1, LockInvariant, PTL

\* An opening finds its session closed, so it resets none; a round appends.
LEMMA NoStepResets ==
    ASSUME TypeOK, LockInv, SessionsSound, [Next]_vars,
           NEW s \in Sids, opSessions[s] # <<>>, opSessions'[s] \notin {<<>>, opSessions[s]}
    PROVE  Extends(opSessions'[s], opSessions[s])
  <1>1. ~UNCHANGED sessionVars /\ ~Restart /\ \A u \in Sids : ~Ends(u)
    BY DEF sessionVars, Restart, Ends, TypeOK, SessionTypes
  <1>2. ASSUME NEW t \in Tasks, Opens(t) PROVE FALSE
    <2>1. env[t].sid = s
      BY <1>2, AcceptedOpening DEF Opens, TypeOK, SessionTypes
    <2>2. rxSessions[s] = None
      BY <1>2, <2>1 DEF Opens, AcceptOpening, At, LockInv, OpeningFree, AfterLookup
    <2> QED
      BY <2>2 DEF SessionsSound
  <1>3. ASSUME NEW t \in Tasks, Continues(t)
        PROVE  Extends(opSessions'[s], opSessions[s])
    <2> DEFINE old == opSessions[s]
               new == Append(old, env[t])
    <2>1. env[t].sid = s /\ env[t] \in Envelopes /\ old \in Seq(Envelopes)
      BY <1>3, AcceptedRound DEF Continues, TypeOK, SessionTypes
    <2>2. opSessions'[s] = new
      BY <1>3, <2>1 DEF Continues, TypeOK, SessionTypes
    <2> HIDE DEF old
    <2>3. Len(new) > Len(old) /\ SubSeq(new, 1, Len(old)) = old
      <3>1. /\ Len(new) = Len(old) + 1 /\ Len(old) \in Nat
            /\ \A n \in 1..Len(old) : new[n] = old[n]
        BY <2>1
      <3>2. /\ SubSeq(new, 1, Len(old)) \in Seq(Envelopes)
            /\ Len(SubSeq(new, 1, Len(old))) = Len(old)
            /\ \A n \in 1..Len(old) : SubSeq(new, 1, Len(old))[n] = new[n]
        BY <2>1, <3>1
      <3> QED
        BY <2>1, <3>1, <3>2
    <2> QED
      BY <2>2, <2>3 DEF Extends, old
  <1> QED
    BY <1>1, <1>2, <1>3, SessionSteps

\* Unless a lock is dropped under a waiter, an open session goes forward or
\* ends, whatever openings arrive for it meanwhile (_core.py:55-57).
THEOREM SessionsNeverReset == Spec /\ WaitedLocksStay => NoSessionReset
  <1> DEFINE Forward ==
        [ \A s \in Sids :
            opSessions[s] # <<>> /\ opSessions'[s] \notin {<<>>, opSessions[s]}
            => Extends(opSessions'[s], opSessions[s]) ]_vars
  <1>1. TypeOK /\ LockInv /\ SessionsSound /\ [Next]_vars => Forward
    BY NoStepResets
  <1> QED
    BY <1>1, LockInvariant, SessionsAreSound, PTL DEF Spec, NoSessionReset

\* A step that takes an envelope past every check, moves no other session and
\* reports the envelope.
Acts(t) ==
    /\ AcceptRound(t) \/ AcceptOpening(t)
    /\ \A s \in Sids \ {env[t].sid} :
         rxSessions'[s] = rxSessions[s] /\ opSessions'[s] = opSessions[s]
    /\ returned' # None /\ returned'.env = env[t]

\* A step that neither runs the operation nor moves a session.
Rests == UNCHANGED sessionVars /\ (returned' # None => ~returned'.ran)

\* What a handler returns is an answer, and it names the envelope.
LEMMA ReturnReports ==
    ASSUME NEW t \in Tasks, env[t] \in Envelopes, NEW code \in OperationCodes,
           NEW log \in Seq(Envelopes), NEW ran \in BOOLEAN, Return(t, code, log, ran)
    PROVE  returned' # None /\ returned'.env = env[t]
  BY NoneAssumption DEF Return

\* Only accepted envelopes run the operation or move a session.
LEMMA ActSteps ==
    ASSUME TypeOK, Next
    PROVE  \/ Rests \/ Restart
           \/ \E t \in Tasks : Acts(t)
           \/ \E s \in Sids : Abort(s)
  <1>1. CASE \/ \E e \in Envelopes : RejectHeader(e)
             \/ \E t \in Tasks, e \in Envelopes : HandleEnvelope(t, e)
             \/ Tick
    BY <1>1 DEF RejectHeader, HandleEnvelope, Tick, Rests
  <1>2. ASSUME NEW t \in Tasks, TaskStep(t) \/ Cancel(t)
        PROVE  Rests \/ Acts(t)
    <2>1. CASE Wake(t) \/ Cancel(t) \/ DedupeHit(t)
      BY <2>1 DEF Wake, Cancel, DedupeHit, Return, Rests, sessionVars
    <2>2. CASE \/ ResolvePeer(t)
               \/ \E c \in Cards : PeerVerified(t, c) \/ RefreshPeer(t, c)
      BY <2>2 DEF ResolvePeer, PeerVerified, RefreshPeer, CallResolvePeer, Rests
    <2>3. CASE \/ RefuseRound(t) \/ RefuseReopening(t) \/ RefuseOpening(t)
               \/ RefuseIntent(t) \/ RefuseIncompatible(t) \/ ConfigRaises(t)
               \/ ResolveRaises(t)
               \/ \E c \in Cards : RefuseSignature(t, c)
      BY <2>3 DEF RefuseRound, RefuseReopening, RefuseOpening, RefuseIntent,
                  RefuseIncompatible, ConfigRaises, ResolveRaises, RefuseSignature, Refuse,
                  Return, Rests
    <2>4. CASE ProcessFails(t) \/ ProcessKeyError(t)
      <3>1. AcceptRound(t) /\ env[t] \in Envelopes /\ env[t].sid \in Sids
        BY <2>4, AcceptedRound DEF ProcessFails, ProcessKeyError
      <3>2. ASSUME NEW code \in OperationCodes, NEW ran \in BOOLEAN, EndSession(t, code, ran)
            PROVE  Acts(t)
        <4>1. Return(t, code, <<>>, ran) /\ <<>> \in Seq(Envelopes)
          BY <3>2 DEF EndSession
        <4>2. returned' # None /\ returned'.env = env[t]
          BY <3>1, <4>1, ReturnReports
        <4> QED
          BY <3>1, <3>2, <4>2 DEF EndSession, OperationAbort, Acts, TypeOK, SessionTypes
      <3>3. CASE ProcessFails(t)
        BY <3>2, <3>3 DEF ProcessFails, OperationCodes
      <3>4. CASE ProcessKeyError(t)
        BY <3>2, <3>4 DEF ProcessKeyError, OperationCodes
      <3> QED
        BY <2>4, <3>3, <3>4
    <2>5. ASSUME NEW o, NEW log \in Seq(Envelopes), Answer(t, o, log), env[t] \in Envelopes
          PROVE  returned' # None /\ returned'.env = env[t]
      <3> DEFINE code  == IF o \in Answers THEN "REPLY" ELSE "NO_REPLY"
                 reply == IF o \in Answers THEN log ELSE <<>>
      <3>1. code \in OperationCodes /\ reply \in Seq(Envelopes)
        BY DEF OperationCodes
      <3>2. Return(t, code, reply, TRUE)
        BY <2>5 DEF Answer
      <3> HIDE DEF code, reply
      <3> QED
        BY <2>5, <3>1, <3>2, ReturnReports
    <2>6. ASSUME NEW o \in Outcomes, ProcessRound(t, o) PROVE Acts(t)
      <3>1. AcceptRound(t) /\ env[t] \in Envelopes /\ env[t].sid \in Sids
        BY <2>6, AcceptedRound DEF ProcessRound
      <3>2. Append(opSessions[env[t].sid], env[t]) \in Seq(Envelopes)
        BY <3>1 DEF TypeOK, SessionTypes
      <3>3. returned' # None /\ returned'.env = env[t]
        BY <2>5, <2>6, <3>1, <3>2 DEF ProcessRound
      <3> QED
        BY <2>6, <3>1, <3>3 DEF ProcessRound, OperationProcess, Acts, TypeOK, SessionTypes
    <2>7. ASSUME NEW o \in Outcomes, Receive(t, o) PROVE Acts(t)
      <3>1. AcceptOpening(t) /\ env[t] \in Envelopes /\ env[t].sid \in Sids
        BY <2>7, AcceptedOpening DEF Receive
      <3>2. <<env[t]>> \in Seq(Envelopes)
        BY <3>1
      <3>3. returned' # None /\ returned'.env = env[t]
        BY <2>5, <2>7, <3>1, <3>2 DEF Receive
      <3> QED
        BY <2>7, <3>1, <3>3 DEF Receive, OperationReceive, Acts, TypeOK, SessionTypes
    <2>8. CASE ReceiveFails(t)
      <3>1. AcceptOpening(t) /\ env[t] \in Envelopes
        BY <2>8, AcceptedOpening DEF ReceiveFails
      <3>2. Return(t, "OPERATION_ERROR", <<>>, TRUE)
        BY <2>8 DEF ReceiveFails
      <3>3. "OPERATION_ERROR" \in OperationCodes /\ <<>> \in Seq(Envelopes)
        BY DEF OperationCodes
      <3>4. returned' # None /\ returned'.env = env[t]
        BY <3>1, <3>2, <3>3, ReturnReports
      <3> QED
        BY <2>8, <3>1, <3>4 DEF ReceiveFails, Acts, sessionVars
    <2> QED
      BY <1>2, <2>1, <2>2, <2>3, <2>4, <2>6, <2>7, <2>8 DEF TaskStep
  <1> QED
    BY <1>1, <1>2 DEF Next

\* Whoever runs the operation has found no answer to its round, and nobody has
\* given one since.
LEMMA RunsAreNew ==
    ASSUME TypeOK, LockInv, Next, returned' # None, returned'.ran
    PROVE  Plain(returned'.env) => CachedRounds(returned'.env) = {}
  <1>1. PICK t \in Tasks : Acts(t)
    BY ActSteps DEF Rests, Restart, Abort
  <1>2. CASE AcceptRound(t)
    BY <1>1, <1>2 DEF Acts, AcceptRound, Round, NewRound
  <1>3. CASE AcceptOpening(t)
    BY <1>1, <1>3 DEF Acts, AcceptOpening, At, LockInv, OpeningFree, AfterLookup
  <1> QED
    BY <1>1, <1>2, <1>3 DEF Acts

\* Unless a lock is dropped under a waiter, a plain round whose answer is
\* remembered is not run again, whatever intent it comes back under and however many
\* copies are handled at once (_core.py:268-270).
THEOREM RoundsRunOnce == Spec /\ WaitedLocksStay => RoundRunsOnce
  <1> DEFINE Once ==
        [ Delivered /\ returned'.ran /\ Plain(returned'.env)
          => \A d \in dedupeCache :
               d.key = RoundKey(returned'.env) => now >= d.expires ]_vars
  <1>1. TypeOK /\ LockInv /\ [Next]_vars => Once
    BY RunsAreNew DEF Delivered, CachedRounds
  <1> QED
    BY <1>1, LockInvariant, PTL DEF Spec, RoundRunsOnce

\* The round that moves an open session was accepted under the key pinned for
\* that session; an opening finds its session closed.
LEMMA MovesAreSigned ==
    ASSUME TypeOK, LockInv, "abort" \notin Faults, Next, InProcess,
           NEW s \in Sids, rxSessions[s] # None,
           <<rxSessions[s], opSessions[s]>>' # <<rxSessions[s], opSessions[s]>>
    PROVE  Delivered /\ BoundTo(returned'.env, s, rxSessions[s].key)
  <1>1. ~Restart
    BY DEF Restart, InProcess, TypeOK, ClockTypes
  <1>2. PICK t \in Tasks : Acts(t)
    BY <1>1, ActSteps DEF Rests, sessionVars, Abort
  <1>3. env[t].sid = s
    BY <1>2 DEF Acts
  <1>4. ~AcceptOpening(t)
    BY <1>3 DEF AcceptOpening, At, LockInv, OpeningFree, AfterLookup
  <1>5. AcceptRound(t)
    BY <1>2, <1>4 DEF Acts
  <1>6. /\ env[t].intent # None /\ env[t].intent.signer = rxSessions[s].key
        /\ IntentRefusal(env[t]) = Accepted
    BY <1>3, <1>5 DEF AcceptRound, RoundRefusal, ParseFlaws, Accepted
  <1> QED
    BY <1>2, <1>3, <1>6, AcceptedBinds DEF Acts, Delivered, BoundTo

\* Unless a lock is dropped under a waiter or the application aborts a session
\* itself, only an envelope under an intent of the key that opened a session
\* moves the session (_core.py:48-53, :303-304).
THEOREM OnlySignersMoveSessions ==
    ASSUME "abort" \notin Faults
    PROVE  Spec /\ WaitedLocksStay => OnlySignerMovesSession
  <1> DEFINE Signed ==
        [ \A s \in Sids :
            /\ rxSessions[s] # None
            /\ <<rxSessions[s], opSessions[s]>>' # <<rxSessions[s], opSessions[s]>>
            /\ InProcess
            => Delivered /\ BoundTo(returned'.env, s, rxSessions[s].key) ]_vars
  <1>1. TypeOK /\ LockInv /\ [Next]_vars => Signed
    BY MovesAreSigned
  <1> QED
    BY <1>1, LockInvariant, PTL DEF Spec, OnlySignerMovesSession

=============================================================================
