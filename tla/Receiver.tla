------------------------------ MODULE Receiver ------------------------------
(***************************************************************************)
(* The receiving half of _ProtocolCore (src/ap3/a2a/_core.py) together     *)
(* with the session table of the Operation it drives                       *)
(* (src/ap3/core/operation.py).                                            *)
(*                                                                         *)
(* Every inbound envelope is handled by an asyncio task.  A task gives up  *)
(* the event loop only where it really suspends: in the queue of its       *)
(* session's lock and inside resolve_peer.  `running' names the task that  *)
(* has the loop, so code between two suspension points is a run of steps   *)
(* no other task can enter; the clock alone moves at any time.             *)
(*                                                                         *)
(* Data are abstracted: an intent carries the hash of a payload and at     *)
(* most one `flaw' (the first refusal its fields alone would cause), and   *)
(* the state of an operation's session is the sequence of envelopes the    *)
(* operation was given.  Names are whatever a peer chose; all that matters *)
(* of one is where it holds the separator the cache keys are joined with.  *)
(***************************************************************************)
EXTENDS Naturals, Sequences

CONSTANTS
    Tasks,          \* tasks that may be handling an envelope at the same time
    Sids,           \* wire session ids
    LockIds,        \* asyncio.Lock objects; reused once nothing refers to them
    Envelopes,      \* the envelopes peers may send, any number of times each
    Cards,          \* what resolve_peer may answer: [key, compatible]
    OpenOutcomes,   \* how on_process may end for a session's first message
    RoundOutcomes,  \* ... and for a later one
    Faults,         \* which events of the environment may happen
    Pieces(_),      \* a name, cut at its separators ("|")
    HashPayload(_), \* what _hash_payload makes of a payload
    DedupeTTL,      \* lifetime of a cached reply (30 minutes in the code)
    LatestUtc,      \* the last time that can be written in UTC (datetime.max)
    MaxTime,        \* bound on the clock
    MaxRestarts,    \* bound on the number of process restarts
    None            \* the absent value

Keys    == { c.key : c \in Cards }
Phases  == { e.phase : e \in Envelopes }
Intents == { e.intent : e \in Envelopes } \ {None}

\* Flaws an intent shows on its own, each named after the answer it causes.
\* The first four are looked at only when a session is opened, except that an
\* unparsable intent is refused on every envelope; a participant that is no URL
\* (urlsplit raises ValueError) has no answer.
ParseFlaws   == {"INVALID_INTENT"}
AddressFlaws == {"WRONG_RECEIVER", "INVALID_INITIATOR_URL", "BAD_URL"}
BodyFlaws    == {"INTENT_OPERATION_MISMATCH", "INTENT_REJECTED", "NAIVE_EXPIRY"}

Answers  == {"reply", "done"}           \* outcomes with an outgoing message
Finishes == {"done", "done_silently"}   \* outcomes that end the session
Succeeds == {"reply", "silence"} \cup Finishes
Outcomes == Succeeds \cup {"error", "key_error"}

\* How an envelope that the operation was asked to handle may be answered.
OperationCodes == {"REPLY", "NO_REPLY", "OPERATION_ERROR", "SESSION_EXPIRED"}

AllFaults == {"card_fetch", "resolve_raises", "config_raises", "cancel", "abort"}

ASSUME EnvelopeAssumption ==
    \A e \in Envelopes :
        /\ e.header \in {"ap3", "foreign_operation", "unsupported_version"}
        /\ e.sid \in Sids
        /\ e.intent # None => e.intent.expiry \in Nat
ASSUME BoundAssumption ==
    /\ DedupeTTL \in Nat \ {0} /\ LatestUtc \in Nat
    /\ MaxTime \in Nat /\ MaxRestarts \in Nat
\* A name has pieces, and one that is a single piece is that piece.
IsCut(name) ==
    /\ Pieces(name) \in Seq({ Pieces(name)[n] : n \in DOMAIN Pieces(name) }) \ {<<>>}
    /\ Len(Pieces(name)) = 1 => Pieces(name) = <<name>>
ASSUME PieceAssumption ==
    (\A s \in Sids : IsCut(s)) /\ (\A p \in Phases : IsCut(p))
ASSUME OutcomeAssumption ==
    OpenOutcomes \subseteq Outcomes /\ RoundOutcomes \subseteq Outcomes
ASSUME FaultAssumption == Faults \subseteq AllFaults
ASSUME NoneAssumption ==
    /\ None \notin Tasks \cup LockIds \cup Envelopes \cup Cards
    /\ None \notin [key : Keys, openingPhase : Phases]
    /\ None \notin [env : Envelopes, code : OperationCodes, log : Seq(Envelopes), ran : BOOLEAN]

VARIABLES
    now,            \* datetime.now(timezone.utc), in ticks
    restarts,       \* process restarts so far
    running,        \* the task that has the event loop, or None
    pc,             \* where each task is
    env,            \* the envelope each task handles
    lock,           \* the lock object each task refers to
    card,           \* the peer a task's opening intent was verified against
    sessionLocks,   \* _session_locks: sid -> lock object
    waiters,        \* the FIFO of tasks suspended in each lock's acquire()
    replayCache,    \* _intent_replay_cache: accepted intents, each with the
                    \* time until which it is remembered
    dedupeCache,    \* _round_dedupe_cache: [key, expires, code, log]
    rxSessions,     \* _rx_sessions: sid -> [key, openingPhase]
    opSessions,     \* Operation._sessions: sid -> envelopes given to the
                    \* operation; <<>> when there is no session
    returned,       \* history: what the last step returned to its caller
    driven          \* history: intents the operation was called with since
                    \* the process started

clockVars   == <<now, restarts>>
taskVars    == <<running, pc, env, lock, card>>
lockVars    == <<sessionLocks, waiters>>
cacheVars   == <<replayCache, dedupeCache>>
sessionVars == <<rxSessions, opSessions>>
historyVars == <<driven>>
vars == <<clockVars, taskVars, lockVars, cacheVars, sessionVars, returned, historyVars>>

-----------------------------------------------------------------------------
(* Keys of the two caches, and what is left of each after a sweep.         *)

\* Variant for the checks: the reply cache is not told payloads apart.
RoundKeyWithoutPayload(e) == Pieces(e.sid) \o Pieces(e.phase)

\* Both keys are joined from names nobody looks into, so that two envelopes may
\* share one: "a|b" and "c" are joined to the same text as "a" and "b|c".
ReplayKey(i) == <<i.signer>> \o Pieces(i.sid) \o Pieces(i.id) \o <<i.payload>>
RoundKey(e)  == Pieces(e.sid) \o Pieces(e.phase) \o <<HashPayload(e.payload)>>

\* Variant for the checks: the sweep drops intents that are still valid.
LiveIntentsSweptEarly == { r \in replayCache : now + 1 < r.until }

LiveIntents == { r \in replayCache : now < r.until }
LiveRounds == { d \in dedupeCache : now < d.expires }

\* Variant for the checks: a silent round is taken for one never seen.
CachedRoundsWithReply(e) == { d \in dedupeCache : d.key = RoundKey(e) /\ d.log # <<>> }

CachedRounds(e) == { d \in dedupeCache : d.key = RoundKey(e) }

(* The checks of _check_intent_consistency, in the order it makes them.    *)
Accepted == "ACCEPTED"

Expired(i)  == now > i.expiry
Replayed(i) == \E r \in LiveIntents : ReplayKey(r.intent) = ReplayKey(i)

IntentRefusal(e) ==
    LET i == e.intent IN
    IF i.sid # e.sid THEN "INTENT_SESSION_MISMATCH"
    ELSE IF i.flaw = "INTENT_OPERATION_MISMATCH" THEN "INTENT_OPERATION_MISMATCH"
    ELSE IF i.flaw = "NAIVE_EXPIRY" THEN "RAISED"
    ELSE IF Expired(i) \/ i.flaw = "INTENT_REJECTED" THEN "INTENT_REJECTED"
    ELSE IF i.payload # HashPayload(e.payload) THEN "INTENT_PAYLOAD_MISMATCH"
    ELSE IF Replayed(i) THEN "REPLAY"
    ELSE Accepted

\* What _open_receiver_session refuses before it resolves the initiator.
OpeningRefusal(e) ==
    IF e.intent = None THEN "MISSING_INTENT"
    ELSE IF e.intent.flaw = "BAD_URL" THEN "RAISED"
    ELSE IF e.intent.flaw \in ParseFlaws \cup AddressFlaws THEN e.intent.flaw
    ELSE Accepted

\* What _validate_subsequent_intent refuses, the missing intent included.
RoundRefusal(e) ==
    IF e.intent = None THEN "MISSING_INTENT"
    ELSE IF e.intent.flaw \in ParseFlaws THEN e.intent.flaw
    ELSE IF e.intent.signer # rxSessions[e.sid].key THEN "BAD_SIGNATURE"
    ELSE IntentRefusal(e)

\* The replay cache is swept only by the last check and written only when
\* every check passed.
SweepIfReplayed(refusal) ==
    replayCache' = IF refusal = "REPLAY" THEN LiveIntents ELSE replayCache

\* _parse_expiry_utc: an expiry whose conversion to UTC overflows counts as now,
\* so that the next sweep forgets the intent.
ParseExpiry(i) == IF i.expiry <= LatestUtc THEN i.expiry ELSE now

Spend(i) ==
    replayCache' = LiveIntents \cup {[intent |-> i, until |-> ParseExpiry(i)]}

-----------------------------------------------------------------------------
(* Locks.  asyncio.Lock hands over in FIFO order and lets no newcomer pass *)
(* a waiter; a task holds its lock from the moment it enters the section.  *)

InSection == {"section", "resolving", "refreshing", "open"}
Suspended == {"queued", "resolving", "refreshing"}

HeldByAnother(l, t) == \E u \in Tasks \ {t} : lock[u] = l /\ pc[u] \in InSection

Held(l) == \E u \in Tasks : lock[u] = l /\ pc[u] \in InSection

\* The queue q once t has left it, wherever it stood.
Without(q, t) ==
    IF \E n \in 1..Len(q) : q[n] = t
    THEN LET n == CHOOSE n \in 1..Len(q) : q[n] = t
         IN  SubSeq(q, 1, n - 1) \o SubSeq(q, n + 1, Len(q))
    ELSE q

UnusedLocks ==
    LockIds \ ({ sessionLocks[s] : s \in Sids } \cup { lock[t] : t \in Tasks })

\* Variant for the checks: the registry is never cleaned.
DropLockNever(t) == UNCHANGED sessionLocks

\* The `finally' of _handle_as_receiver: forget the lock when it is unlocked
\* and the session is not open.  A task still queued on it is not looked for.
DropLock(t) ==
    LET s == env[t].sid IN
    sessionLocks' =
        IF /\ ~HeldByAnother(lock[t], t)
           /\ rxSessions'[s] = None
           /\ sessionLocks[s] = lock[t]
        THEN [sessionLocks EXCEPT ![s] = None]
        ELSE sessionLocks

\* The handler of task t returns: the lock is released and perhaps dropped.
Return(t, code, log, ran) ==
    /\ DropLock(t)
    /\ running' = None
    /\ pc'   = [pc   EXCEPT ![t] = "idle"]
    /\ env'  = [env  EXCEPT ![t] = None]
    /\ lock' = [lock EXCEPT ![t] = None]
    /\ card' = [card EXCEPT ![t] = None]
    /\ returned' = [env |-> env[t], code |-> code, log |-> log, ran |-> ran]
    /\ driven' = IF ran THEN driven \cup {env[t].intent} ELSE driven
    /\ UNCHANGED clockVars

\* ... with a refusal that touches neither session table nor reply cache.
Refuse(t, code) ==
    /\ UNCHANGED sessionVars
    /\ Return(t, code, <<>>, FALSE)
    /\ UNCHANGED waiters

\* ... with the result of the operation, which the reply cache remembers.
\* `log' is what the operation has been given, this envelope last.
Answer(t, outcome, log) ==
    LET code  == IF outcome \in Answers THEN "REPLY" ELSE "NO_REPLY"
        reply == IF outcome \in Answers THEN log ELSE <<>>
    IN  /\ dedupeCache' =
              { d \in dedupeCache : d.key # RoundKey(env[t]) }
                \cup { [key |-> RoundKey(env[t]), expires |-> now + DedupeTTL,
                        code |-> code, log |-> reply] }
        /\ Return(t, code, reply, TRUE)
        /\ UNCHANGED waiters

-----------------------------------------------------------------------------
(* The session table of the Operation.  A session's state is a function of *)
(* the messages it was given, so the sequence of these stands for it.      *)

\* on_process gets an empty state; a result that is done saves nothing.
OperationReceive(e, outcome) ==
    opSessions' =
        [opSessions EXCEPT ![e.sid] = IF outcome \in Finishes THEN @ ELSE <<e>>]

\* on_process gets the session's state and returns the next.
OperationProcess(e, outcome) ==
    opSessions' =
        [opSessions EXCEPT ![e.sid] = IF outcome \in Finishes THEN <<>> ELSE Append(@, e)]

OperationAbort(s) == opSessions' = [opSessions EXCEPT ![s] = <<>>]

-----------------------------------------------------------------------------
(* Arrival, up to the lock.                                                *)

Idle(t) == running = None /\ pc[t] = "idle"

\* An envelope handle_envelope answers without touching any state.
RejectHeader(e) ==
    /\ running = None
    /\ e.header # "ap3"
    /\ returned' = [env |-> e,
                    code |-> IF e.header = "foreign_operation"
                             THEN "NO_REPLY" ELSE "UNSUPPORTED_WIRE_VERSION",
                    log |-> <<>>, ran |-> FALSE]
    /\ UNCHANGED <<clockVars, taskVars, lockVars, cacheVars, sessionVars, historyVars>>

\* Variant for the checks: every envelope brings its own lock.
LockForEach(s) == CHOOSE l \in UnusedLocks : TRUE

\* The lock a new envelope of session s refers to: the registered one, or a
\* new object that is registered at once.
LockFor(s) ==
    IF sessionLocks[s] # None THEN sessionLocks[s] ELSE CHOOSE l \in UnusedLocks : TRUE

HandleEnvelope(t, e) ==
    /\ Idle(t)
    /\ e.header = "ap3"
    /\ sessionLocks[e.sid] # None \/ UnusedLocks # {}
    /\ LET l == LockFor(e.sid) IN
       /\ sessionLocks' = [sessionLocks EXCEPT ![e.sid] = l]
       /\ env'  = [env  EXCEPT ![t] = e]
       /\ lock' = [lock EXCEPT ![t] = l]
       /\ \/ /\ ~Held(l) /\ waiters[l] = <<>>
             /\ pc' = [pc EXCEPT ![t] = "section"]
             /\ running' = t
             /\ dedupeCache' = LiveRounds
             /\ UNCHANGED waiters
          \/ /\ Held(l) \/ waiters[l] # <<>>
             /\ pc' = [pc EXCEPT ![t] = "queued"]
             /\ waiters' = [waiters EXCEPT ![l] = Append(@, t)]
             /\ UNCHANGED <<running, dedupeCache>>
    /\ returned' = None
    /\ UNCHANGED <<clockVars, card, replayCache, sessionVars, historyVars>>

\* A queued task gets its lock and enters the section, which starts by
\* sweeping the reply cache.
Wake(t) ==
    /\ running = None
    /\ pc[t] = "queued"
    /\ waiters[lock[t]] # <<>>
    /\ Head(waiters[lock[t]]) = t
    /\ ~Held(lock[t])
    /\ waiters' = [waiters EXCEPT ![lock[t]] = Tail(@)]
    /\ pc' = [pc EXCEPT ![t] = "section"]
    /\ running' = t
    /\ dedupeCache' = LiveRounds
    /\ returned' = None
    /\ UNCHANGED <<clockVars, env, lock, card, sessionLocks, replayCache,
                   sessionVars, historyVars>>

-----------------------------------------------------------------------------
(* The section: _handle_as_receiver_locked.                                *)

At(t, place) == running = t /\ pc[t] = place

\* An envelope of this key was answered before: same answer, nothing else happens.
DedupeHit(t) ==
    /\ At(t, "section")
    /\ \E d \in CachedRounds(env[t]) :
         /\ UNCHANGED <<cacheVars, sessionVars>>
         /\ Return(t, d.code, d.log, FALSE)
    /\ UNCHANGED waiters

NewRound(t) ==
    /\ At(t, "section")
    /\ CachedRounds(env[t]) = {}

\* Variant for the checks: the session table is not looked up.
OpeningAlways(t) == NewRound(t)

Opening(t) == NewRound(t) /\ rxSessions[env[t].sid] = None
Round(t)   == NewRound(t) /\ rxSessions[env[t].sid] # None

\* Variant for the checks: a refused round closes the session.
RefuseRoundAndClose(t) ==
    /\ Round(t)
    /\ RoundRefusal(env[t]) # Accepted
    /\ SweepIfReplayed(RoundRefusal(env[t]))
    /\ rxSessions' = [rxSessions EXCEPT ![env[t].sid] = None]
    /\ UNCHANGED <<dedupeCache, opSessions, waiters>>
    /\ Return(t, RoundRefusal(env[t]), <<>>, FALSE)

\* An envelope of an open session whose intent is refused leaves it in place.
RefuseRound(t) ==
    /\ Round(t)
    /\ RoundRefusal(env[t]) # Accepted
    /\ SweepIfReplayed(RoundRefusal(env[t]))
    /\ UNCHANGED dedupeCache
    /\ Refuse(t, RoundRefusal(env[t]))

AcceptRound(t) ==
    /\ Round(t)
    /\ RoundRefusal(env[t]) = Accepted
    /\ Spend(env[t].intent)

\* The phase that opened the session comes again, under an intent that is
\* good and is spent by now.
RefuseReopening(t) ==
    /\ AcceptRound(t)
    /\ env[t].phase = rxSessions[env[t].sid].openingPhase
    /\ UNCHANGED dedupeCache
    /\ Refuse(t, "UNEXPECTED_PHASE")

\* Variant for the checks: any phase continues a session.
NextPhaseAny(t) == TRUE

NextPhase(t) == env[t].phase # rxSessions[env[t].sid].openingPhase

\* Operation.process returns: the receiver's session ends with the operation's.
ProcessRound(t, outcome) ==
    /\ AcceptRound(t)
    /\ NextPhase(t)
    /\ outcome \in RoundOutcomes \cap Succeeds
    /\ LET s == env[t].sid IN
       /\ opSessions[s] # <<>>
       /\ OperationProcess(env[t], outcome)
       /\ rxSessions' =
            [rxSessions EXCEPT ![s] = IF outcome \in Finishes THEN None ELSE @]
       /\ Answer(t, outcome, Append(opSessions[s], env[t]))

\* Variant for the checks: the operation does not abort a failed round.
EndSessionInCoreOnly(t, code, ran) ==
    /\ rxSessions' = [rxSessions EXCEPT ![env[t].sid] = None]
    /\ UNCHANGED <<opSessions, dedupeCache, waiters>>
    /\ Return(t, code, <<>>, ran)

\* Both tables forget the session and the peer is told `code'.
EndSession(t, code, ran) ==
    /\ rxSessions' = [rxSessions EXCEPT ![env[t].sid] = None]
    /\ OperationAbort(env[t].sid)
    /\ UNCHANGED dedupeCache
    /\ Return(t, code, <<>>, ran)
    /\ UNCHANGED waiters

\* Operation.process raises: it has aborted its own session by then.
ProcessFails(t) ==
    /\ AcceptRound(t)
    /\ NextPhase(t)
    /\ "error" \in RoundOutcomes
    /\ opSessions[env[t].sid] # <<>>
    /\ EndSession(t, "OPERATION_ERROR", TRUE)

\* Operation.process raises KeyError: it does not know the session, or
\* on_process itself raised one.
ProcessKeyError(t) ==
    /\ AcceptRound(t)
    /\ NextPhase(t)
    /\ opSessions[env[t].sid] = <<>> \/ "key_error" \in RoundOutcomes
    /\ EndSession(t, "SESSION_EXPIRED", opSessions[env[t].sid] # <<>>)

-----------------------------------------------------------------------------
(* Opening a session: _open_receiver_session.                              *)

RefuseOpening(t) ==
    /\ Opening(t)
    /\ OpeningRefusal(env[t]) # Accepted
    /\ UNCHANGED cacheVars
    /\ Refuse(t, OpeningRefusal(env[t]))

\* A call of resolve_peer either has its answer in the cache, and the task
\* keeps the event loop, or fetches the card, and the task suspends.
CallResolvePeer(t, place) ==
    /\ pc' = [pc EXCEPT ![t] = place]
    /\ \/ running' = t
       \/ running' = None /\ "card_fetch" \in Faults
    /\ returned' = None
    /\ UNCHANGED <<clockVars, env, lock, card, lockVars, cacheVars, sessionVars,
                   historyVars>>

ResolvePeer(t) ==
    /\ Opening(t)
    /\ OpeningRefusal(env[t]) = Accepted
    /\ CallResolvePeer(t, "resolving")

Resumed(t, place) == pc[t] = place /\ running \in {t, None}

\* Variant for the checks: the verified card is not kept.
PeerVerifiedUnpinned(t, c) ==
    /\ Resumed(t, "resolving") \/ Resumed(t, "refreshing")
    /\ c.key = env[t].intent.signer
    /\ pc' = [pc EXCEPT ![t] = "open"]
    /\ running' = t
    /\ returned' = None
    /\ UNCHANGED <<clockVars, env, lock, card, lockVars, cacheVars, sessionVars,
                   historyVars>>

\* The card verifies the intent's signature.
PeerVerified(t, c) ==
    /\ Resumed(t, "resolving") \/ Resumed(t, "refreshing")
    /\ c.key = env[t].intent.signer
    /\ pc'   = [pc   EXCEPT ![t] = "open"]
    /\ card' = [card EXCEPT ![t] = c]
    /\ running' = t
    /\ returned' = None
    /\ UNCHANGED <<clockVars, env, lock, lockVars, cacheVars, sessionVars, historyVars>>

\* Variant for the checks: ask again and again.
RefreshPeerAgain(t, c) ==
    /\ Resumed(t, "resolving") \/ Resumed(t, "refreshing")
    /\ c.key # env[t].intent.signer
    /\ CallResolvePeer(t, "refreshing")

\* The cached card does not: ask once for a fresh one.
RefreshPeer(t, c) ==
    /\ Resumed(t, "resolving")
    /\ c.key # env[t].intent.signer
    /\ CallResolvePeer(t, "refreshing")

RefuseSignature(t, c) ==
    /\ Resumed(t, "refreshing")
    /\ c.key # env[t].intent.signer
    /\ UNCHANGED cacheVars
    /\ Refuse(t, "BAD_SIGNATURE")

\* resolve_peer raises and nothing catches it on the way out.
ResolveRaises(t) ==
    /\ Resumed(t, "resolving") \/ Resumed(t, "refreshing")
    /\ "resolve_raises" \in Faults
    /\ UNCHANGED cacheVars
    /\ Refuse(t, "RAISED")

RefuseIntent(t) ==
    /\ At(t, "open")
    /\ IntentRefusal(env[t]) # Accepted
    /\ SweepIfReplayed(IntentRefusal(env[t]))
    /\ UNCHANGED dedupeCache
    /\ Refuse(t, IntentRefusal(env[t]))

AcceptOpening(t) ==
    /\ At(t, "open")
    /\ IntentRefusal(env[t]) = Accepted
    /\ Spend(env[t].intent)

RefuseIncompatible(t) ==
    /\ AcceptOpening(t)
    /\ ~card[t].compatible
    /\ UNCHANGED dedupeCache
    /\ Refuse(t, "INCOMPATIBLE_PEER")

\* config_provider raises and nothing catches it either.
ConfigRaises(t) ==
    /\ AcceptOpening(t)
    /\ card[t].compatible
    /\ "config_raises" \in Faults
    /\ UNCHANGED dedupeCache
    /\ Refuse(t, "RAISED")

\* Operation.receive returns.  Unless it is done, both tables record the
\* session, in place of whatever they held for that sid.
Receive(t, outcome) ==
    /\ AcceptOpening(t)
    /\ card[t].compatible
    /\ outcome \in OpenOutcomes \cap Succeeds
    /\ LET s == env[t].sid IN
       /\ OperationReceive(env[t], outcome)
       /\ rxSessions' =
            [rxSessions EXCEPT ![s] =
               IF outcome \in Finishes THEN @
               ELSE [key |-> card[t].key, openingPhase |-> env[t].phase]]
    /\ Answer(t, outcome, <<env[t]>>)

\* Operation.receive raises, whatever it raises.
ReceiveFails(t) ==
    /\ AcceptOpening(t)
    /\ card[t].compatible
    /\ OpenOutcomes \cap {"error", "key_error"} # {}
    /\ UNCHANGED <<dedupeCache, sessionVars, waiters>>
    /\ Return(t, "OPERATION_ERROR", <<>>, TRUE)

-----------------------------------------------------------------------------
(* The environment.                                                        *)

\* A suspended task is cancelled: it leaves the queue or releases the lock.
Cancel(t) ==
    /\ "cancel" \in Faults
    /\ running = None
    /\ pc[t] \in Suspended
    /\ waiters' = [waiters EXCEPT ![lock[t]] = Without(@, t)]
    /\ UNCHANGED <<cacheVars, sessionVars>>
    /\ Return(t, "CANCELLED", <<>>, FALSE)

\* The application calls Operation.abort.
Abort(s) ==
    /\ "abort" \in Faults
    /\ running = None
    /\ opSessions[s] # <<>>
    /\ OperationAbort(s)
    /\ returned' = None
    /\ UNCHANGED <<clockVars, taskVars, lockVars, cacheVars, rxSessions, historyVars>>

Tick ==
    /\ now < MaxTime
    /\ now' = now + 1
    /\ returned' = None
    /\ UNCHANGED <<restarts, taskVars, lockVars, cacheVars, sessionVars, historyVars>>

\* Everything but the clock lives in memory.
Restart ==
    /\ restarts < MaxRestarts
    /\ restarts' = restarts + 1
    /\ running' = None
    /\ pc'   = [t \in Tasks |-> "idle"]
    /\ env'  = [t \in Tasks |-> None]
    /\ lock' = [t \in Tasks |-> None]
    /\ card' = [t \in Tasks |-> None]
    /\ sessionLocks' = [s \in Sids |-> None]
    /\ waiters' = [l \in LockIds |-> <<>>]
    /\ replayCache' = {}
    /\ dedupeCache' = {}
    /\ rxSessions' = [s \in Sids |-> None]
    /\ opSessions' = [s \in Sids |-> <<>>]
    /\ returned' = None
    /\ driven' = {}
    /\ UNCHANGED now

-----------------------------------------------------------------------------
Init ==
    /\ now = 0
    /\ restarts = 0
    /\ running = None
    /\ pc   = [t \in Tasks |-> "idle"]
    /\ env  = [t \in Tasks |-> None]
    /\ lock = [t \in Tasks |-> None]
    /\ card = [t \in Tasks |-> None]
    /\ sessionLocks = [s \in Sids |-> None]
    /\ waiters = [l \in LockIds |-> <<>>]
    /\ replayCache = {}
    /\ dedupeCache = {}
    /\ rxSessions = [s \in Sids |-> None]
    /\ opSessions = [s \in Sids |-> <<>>]
    /\ returned = None
    /\ driven = {}

\* The steps of a task that is handling an envelope, taken by the code itself.
TaskStep(t) ==
    \/ Wake(t)
    \/ DedupeHit(t)
    \/ RefuseRound(t) \/ RefuseReopening(t)
    \/ \E o \in Outcomes : ProcessRound(t, o)
    \/ ProcessFails(t) \/ ProcessKeyError(t)
    \/ RefuseOpening(t) \/ ResolvePeer(t)
    \/ \E c \in Cards : PeerVerified(t, c) \/ RefreshPeer(t, c) \/ RefuseSignature(t, c)
    \/ ResolveRaises(t)
    \/ RefuseIntent(t) \/ RefuseIncompatible(t) \/ ConfigRaises(t)
    \/ \E o \in Outcomes : Receive(t, o)
    \/ ReceiveFails(t)

Next ==
    \/ \E e \in Envelopes : RejectHeader(e)
    \/ \E t \in Tasks, e \in Envelopes : HandleEnvelope(t, e)
    \/ \E t \in Tasks : TaskStep(t) \/ Cancel(t)
    \/ \E s \in Sids : Abort(s)
    \/ Tick
    \/ Restart

Spec == Init /\ [][Next]_vars

\* The event loop runs every callback that is ready, in FIFO order, and a card
\* fetch ends, by an answer or by its timeout: a task that can step again and
\* again does step.  Nothing obliges a peer to send, or the clock to move.
FairSpec == Spec /\ \A t \in Tasks : SF_vars(TaskStep(t))

-----------------------------------------------------------------------------
(* Properties.                                                             *)

ReplyCodes == {"REPLY", "NO_REPLY"}
LockOrNone == LockIds \cup {None}
RxSession  == [key : Keys, openingPhase : Phases]
ReplayEntry == [intent : Intents, until : Nat]

ClockTypes == now \in Nat /\ restarts \in Nat

TaskTypes ==
    /\ running \in Tasks \cup {None}
    /\ pc \in [Tasks -> InSection \cup {"idle", "queued"}]
    /\ env \in [Tasks -> Envelopes \cup {None}]
    /\ lock \in [Tasks -> LockOrNone]
    /\ card \in [Tasks -> Cards \cup {None}]
    /\ \A t \in Tasks :
         /\ pc[t] = "idle" <=> env[t] = None
         /\ pc[t] = "idle" <=> lock[t] = None
         /\ pc[t] \in {"resolving", "refreshing", "open"} => env[t].intent # None
         /\ pc[t] = "open" => card[t] # None
         /\ pc[t] \in {"section", "open"} => running = t

LockTypes ==
    /\ sessionLocks \in [Sids -> LockOrNone]
    /\ waiters \in [LockIds -> Seq(Tasks)]

CacheTypes ==
    /\ replayCache \subseteq ReplayEntry
    /\ \A d \in dedupeCache : d.expires \in Nat

SessionTypes ==
    /\ rxSessions \in [Sids -> RxSession \cup {None}]
    /\ opSessions \in [Sids -> Seq(Envelopes)]

HistoryTypes == driven \subseteq Intents

\* The type of every variable; a task has an envelope and a lock exactly
\* while it handles an envelope, and the event loop runs whoever is in the
\* middle of a run of steps.
TypeOK ==
    /\ ClockTypes
    /\ TaskTypes
    /\ LockTypes
    /\ CacheTypes
    /\ SessionTypes
    /\ HistoryTypes

\* What one entry of an open session's history must look like: it is an
\* envelope of that session whose intent was signed by the key pinned at the
\* opening and binds exactly this session and payload.
BoundTo(e, s, key) ==
    /\ e.sid = s
    /\ e.intent # None
    /\ e.intent.signer = key
    /\ e.intent.sid = s
    /\ e.intent.payload = HashPayload(e.payload)

\* The state of every operation session was computed, under the receiver
\* session that pins its signer, from one opening message and later messages
\* of other phases, each bound to session, signer and payload by its intent:
\* whatever tasks interleave, no envelope of another signer, session or
\* payload ever got into it (_ReceiverSession, _core.py:47-62).
SessionsSound ==
    \A s \in Sids : opSessions[s] # <<>> =>
        /\ rxSessions[s] # None
        /\ opSessions[s][1].phase = rxSessions[s].openingPhase
        /\ \A n \in 1..Len(opSessions[s]) :
             /\ BoundTo(opSessions[s][n], s, rxSessions[s].key)
             /\ n > 1 => opSessions[s][n].phase # rxSessions[s].openingPhase

\* The two session tables, one in the protocol core and one in the operation,
\* list the same sessions, as long as the application aborts none behind the
\* core's back: no path (done, failure, refusal) cleans up only one of them.
LayersAgree ==
    "abort" \notin Faults =>
        \A s \in Sids : rxSessions[s] = None <=> opSessions[s] = <<>>

\* Session id and phase hold no separator, as those of run_intent.
Plain(e) == Pieces(e.sid) = <<e.sid>> /\ Pieces(e.phase) = <<e.phase>>

\* A plain envelope never gets the answer to another round, whatever names
\* other envelopes were given: the entry of the reply cache that it hits was
\* computed from a message of the same session, phase and hash, as the last
\* one the operation had been given (_round_dedupe_key, _core.py:752-760).
CachedRepliesSound ==
    \A d \in dedupeCache, e \in Envelopes :
        Plain(e) /\ d.key = RoundKey(e) /\ d.code = "REPLY" =>
            /\ d.log # <<>>
            /\ LET last == d.log[Len(d.log)] IN
               /\ last.sid = e.sid /\ last.phase = e.phase
               /\ HashPayload(last.payload) = HashPayload(e.payload)

\* No intent is good for two runs of the operation while the process lives,
\* before its expiry: the check against the replay cache and the write to it
\* are not separated by a suspension, so this needs no lock.  Two exceptions:
\* at the very instant of its expiry an intent is neither remembered nor
\* expired (_core.py:748, directive.py:116), and one that expires later than
\* UTC can express is not remembered at all (_core.py:724-731).
IntentSpentOnce ==
    [][ /\ returned' # None
        /\ returned'.ran
        /\ returned'.env.intent \in driven
        /\ returned'.env.intent.expiry <= LatestUtc
        => now >= returned'.env.intent.expiry ]_vars

Delivered == returned' # None       \* this step returns an answer
InProcess == restarts' = restarts   \* ... and this one is no restart

\* While the process lives, only an envelope whose intent was signed by the
\* key that opened a session moves the session: extends, resets or ends it
\* (_core.py:48-53, :303-304).
OnlySignerMovesSession ==
    [][ \A s \in Sids :
          /\ rxSessions[s] # None
          /\ <<rxSessions[s], opSessions[s]>>' # <<rxSessions[s], opSessions[s]>>
          /\ InProcess
          => Delivered /\ BoundTo(returned'.env, s, rxSessions[s].key) ]_vars

Extends(new, old) == Len(new) > Len(old) /\ SubSeq(new, 1, Len(old)) = old

\* An open session goes forward or ends; it never starts over
\* (_core.py:55-57).
NoSessionReset ==
    [][ \A s \in Sids :
          opSessions[s] # <<>> /\ opSessions'[s] \notin {<<>>, opSessions[s]}
          => Extends(opSessions'[s], opSessions[s]) ]_vars

\* While its answer is remembered, a plain round is not run again, under
\* whatever intent it comes back: "per-round idempotency" (_core.py:268-270).
RoundRunsOnce ==
    [][ Delivered /\ returned'.ran /\ Plain(returned'.env)
        => \A d \in dedupeCache :
             d.key = RoundKey(returned'.env) => now >= d.expires ]_vars

\* A retry of an envelope the operation has already been given gets the
\* operation's answer, even when it is handled at the same time as the first
\* copy: never REPLAY (docs/lifecycle.md:174).
DuplicateGetsAnswer ==
    [][ Delivered /\ returned'.env.intent \in driven
        => returned'.code \in ReplyCodes ]_vars

\* At most one task is inside the section of a session: "serialize all
\* state-touching work for a given wire session id" (_core.py:245).
SessionSerialized ==
    \A t, u \in Tasks :
        /\ pc[t] \in InSection /\ pc[u] \in InSection
        /\ env[t].sid = env[u].sid
        => t = u

\* A lock stays registered only for a session that is open or being handled
\* (_core.py:255-257).
LockRegistryBounded ==
    \A s \in Sids :
        sessionLocks[s] # None =>
            \/ rxSessions[s] # None
            \/ \E t \in Tasks : pc[t] # "idle" /\ env[t].sid = s

\* Every envelope is answered: no wake-up is lost, no waiter starves, and no
\* refusal, exception or cancellation leaves a lock held.
EveryEnvelopeAnswered ==
    \A t \in Tasks : pc[t] # "idle" ~> pc[t] = "idle"

=============================================================================
