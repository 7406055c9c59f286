---------------------------- MODULE SessionProofs ----------------------------
(***************************************************************************)
(* Proofs about Session, for any number of runs, rounds, tasks, restarts   *)
(* and faults, and every operation that knows the order of its messages.   *)
(***************************************************************************)
EXTENDS Session, ReceiverProofs

-----------------------------------------------------------------------------
(* The composed system is a Receiver.                                      *)

\* Every step of the system is a step of the receiver or leaves it alone.
LEMMA SystemStepIsReceiverStep ==
    ASSUME [SystemNext]_systemVars
    PROVE  [Next]_vars
  <1>1. CASE \E r \in Runs : RunStep(r)
    BY <1>1 DEF RunStep, RunIntent, HearReply, HearRefusal, SendFails, SendTimesOut,
                InitiatorStep, receiverVars
  <1>2. CASE \E t \in Tasks, e \in SentMessages : Deliver(t, e)
    BY <1>2, RunAssumption DEF Deliver, SentMessages, Next
  <1>3. CASE \E t \in Tasks : ReceiverStep(t)
    BY <1>3 DEF ReceiverStep, Next
  <1>4. CASE ReceiverRestarts
    BY <1>4 DEF ReceiverRestarts, Next
  <1>5. CASE UNCHANGED systemVars
    BY <1>5 DEF systemVars, receiverVars
  <1> QED
    BY <1>1, <1>2, <1>3, <1>4, <1>5 DEF SystemNext

\* Whatever holds of Receiver holds of the receiver in the composed system.
THEOREM SystemKeepsReceiver == System => Spec
  <1>1. SystemInit => Init
    BY DEF SystemInit
  <1>2. [SystemNext]_systemVars => [Next]_vars
    BY SystemStepIsReceiverStep
  <1> QED
    BY <1>1, <1>2, PTL DEF System, Spec

\* In particular its type invariant.
LEMMA ReceiverTypes == System => []TypeOK
  BY SystemKeepsReceiver, TypeCorrect, PTL

-----------------------------------------------------------------------------
(* Conversations.                                                          *)

\* A run's session id is a session id, and nothing else has its messages.
LEMMA MessageFacts ==
    ASSUME NEW r \in Runs, NEW n \in 1..MaxRounds
    PROVE  /\ r \in Sids
           /\ Message(r, n) \in Envelopes
           /\ Message(r, n).sid = r
           /\ Message(r, n).phase = n
           /\ RoundKey(Message(r, n)) = <<r, n, HashPayload(n)>>
  <1>1. Message(r, n) \in Envelopes /\ Message(r, n).sid = r
    BY RunAssumption DEF Message
  <1>2. r \in Sids
    BY <1>1, EnvelopeAssumption
  <1>3. /\ Message(r, n).phase = n
        /\ RoundKey(Message(r, n)) = <<r, n, HashPayload(n)>>
    <2>1. /\ Message(r, n).sid = r /\ Message(r, n).phase = n /\ Message(r, n).payload = n
      BY DEF Message
    <2>2. Pieces(r) = <<r>> /\ Pieces(n) = <<n>>
      BY NameAssumption
    <2> QED
      BY <2>1, <2>2, ThreePieces DEF RoundKey
  <1> QED
    BY <1>1, <1>2, <1>3

\* The empty conversation, and one message more.
LEMMA ConversationFacts ==
    ASSUME NEW r \in Runs, NEW n \in 0..MaxRounds
    PROVE  /\ Conversation(r, 0) = <<>>
           /\ Conversation(r, n) \in Seq(Envelopes)
           /\ Len(Conversation(r, n)) = n
           /\ n < MaxRounds =>
                Append(Conversation(r, n), Message(r, n + 1)) = Conversation(r, n + 1)
  <1>1. n \in Nat /\ MaxRounds \in Nat
    BY RunAssumption
  <1>2. \A i \in 1..n : Message(r, i) \in Envelopes
    BY <1>1, MessageFacts
  <1>3. Conversation(r, n) \in Seq(Envelopes) /\ Len(Conversation(r, n)) = n
    BY <1>1, <1>2 DEF Conversation
  <1>4. Conversation(r, 0) = <<>>
    BY DEF Conversation
  <1>5. ASSUME n < MaxRounds
        PROVE  Append(Conversation(r, n), Message(r, n + 1)) = Conversation(r, n + 1)
    BY <1>1, <1>5 DEF Conversation
  <1> QED
    BY <1>3, <1>4, <1>5

-----------------------------------------------------------------------------
(* How a step of a handler changes what the invariant speaks of.           *)

\* A step that gives the operation no message.
QuietTaskStep ==
    /\ dedupeCache' \subseteq dedupeCache
    /\ returned' # None => returned'.code # "REPLY"
    /\ ~(returned' # None /\ returned'.ran /\ returned'.code \in ReplyCodes)
    /\ \/ opSessions' = opSessions
       \/ \E s \in Sids : opSessions' = [opSessions EXCEPT ![s] = <<>>]

\* No refusal looks like a reply.
LEMMA RefusalCodes ==
    ASSUME NEW e
    PROVE  /\ IntentRefusal(e) \notin ReplyCodes
           /\ OpeningRefusal(e) \notin ReplyCodes
           /\ RoundRefusal(e) \notin ReplyCodes
  <1>1. IntentRefusal(e) \notin ReplyCodes
    BY DEF IntentRefusal, ReplyCodes, Accepted
  <1>2. OpeningRefusal(e) \notin ReplyCodes
    BY DEF OpeningRefusal, ReplyCodes, Accepted, ParseFlaws, AddressFlaws
  <1> QED
    BY <1>1, <1>2 DEF RoundRefusal, ReplyCodes, ParseFlaws

\* Every step of a handler gives the operation a message, repeats a reply, or
\* is quiet.
LEMMA TaskStepKinds ==
    ASSUME TypeOK, NEW t \in Tasks, TaskStep(t) \/ Cancel(t)
    PROVE  \/ DedupeHit(t)
           \/ \E o \in Outcomes : ProcessRound(t, o) \/ Receive(t, o)
           \/ QuietTaskStep
  <1>1. CASE Wake(t) \/ ResolvePeer(t)
             \/ \E c \in Cards : PeerVerified(t, c) \/ RefreshPeer(t, c)
    BY <1>1 DEF Wake, ResolvePeer, PeerVerified, RefreshPeer, CallResolvePeer, QuietTaskStep,
                LiveRounds, cacheVars, sessionVars
  <1>2. CASE Cancel(t) \/ ResolveRaises(t) \/ ConfigRaises(t) \/ RefuseIncompatible(t)
             \/ RefuseReopening(t) \/ \E c \in Cards : RefuseSignature(t, c)
    BY <1>2 DEF Cancel, ResolveRaises, ConfigRaises, RefuseIncompatible, RefuseReopening,
                RefuseSignature, Refuse, Return, QuietTaskStep, cacheVars, sessionVars,
                ReplyCodes
  <1>3. CASE RefuseRound(t) \/ RefuseOpening(t) \/ RefuseIntent(t)
    BY <1>3, RefusalCodes
       DEF RefuseRound, RefuseOpening, RefuseIntent, Refuse, Return, QuietTaskStep,
           cacheVars, sessionVars, ReplyCodes
  <1>4. CASE ReceiveFails(t)
    BY <1>4 DEF ReceiveFails, Return, QuietTaskStep, sessionVars, ReplyCodes
  <1>5. CASE ProcessFails(t) \/ ProcessKeyError(t)
    <2>1. env[t].sid \in Sids
      BY <1>5, AcceptedRound DEF ProcessFails, ProcessKeyError
    <2> QED
      BY <1>5, <2>1 DEF ProcessFails, ProcessKeyError, EndSession, OperationAbort, Return,
                        QuietTaskStep, ReplyCodes
  <1> QED
    BY <1>1, <1>2, <1>3, <1>4, <1>5 DEF TaskStep

\* A handler answers its own envelope, and keeps it until it answers.
LEMMA OwnEnvelope ==
    ASSUME TypeOK, NEW t \in Tasks, TaskStep(t) \/ Cancel(t)
    PROVE  /\ returned' # None => returned'.env = env[t] /\ env[t] # None
           /\ env' \in {env, [env EXCEPT ![t] = None]}
  <1>1. CASE Wake(t) \/ ResolvePeer(t)
             \/ \E c \in Cards : PeerVerified(t, c) \/ RefreshPeer(t, c)
    BY <1>1 DEF Wake, ResolvePeer, PeerVerified, RefreshPeer, CallResolvePeer
  <1>2. CASE ~ (Wake(t) \/ ResolvePeer(t)
                  \/ \E c \in Cards : PeerVerified(t, c) \/ RefreshPeer(t, c))
    <2>1. PICK code, log, ran : Return(t, code, log, ran)
      BY <1>2 DEF TaskStep, Cancel, DedupeHit, RefuseRound, RefuseReopening, ProcessRound,
                  ProcessFails, ProcessKeyError, EndSession, RefuseOpening, RefuseSignature,
                  ResolveRaises, RefuseIntent, RefuseIncompatible, ConfigRaises, Receive,
                  ReceiveFails, Refuse, Answer
    <2>2. pc[t] # "idle"
      BY <1>2 DEF TaskStep, Cancel, DedupeHit, RefuseRound, RefuseReopening, ProcessRound,
                  ProcessFails, ProcessKeyError, RefuseOpening, RefuseSignature,
                  ResolveRaises, RefuseIntent, RefuseIncompatible, ConfigRaises, Receive,
                  ReceiveFails, AcceptRound, AcceptOpening, Round, Opening, NewRound, At,
                  Resumed, Suspended
    <2> QED
      BY <2>1, <2>2, BusyTask, NoneAssumption DEF Return
  <1> QED
    BY <1>1, <1>2

-----------------------------------------------------------------------------
(* The inductive invariant: whatever is stored or on its way is a whole    *)
(* conversation of one run, from its first message on.                     *)

\* Entry d of the reply cache answers the last message of a conversation.
ReplyWhole(d) ==
    d.code = "REPLY" =>
        \E r \in Runs, n \in 1..MaxRounds :
            d.key = RoundKey(Message(r, n)) /\ d.log = Conversation(r, n)

AnswerWhole(a) ==
    /\ a.env \in SentMessages
    /\ a.code = "REPLY" =>
        \E r \in Runs, n \in 1..MaxRounds :
            a.env = Message(r, n) /\ a.log = Conversation(r, n)

SessionWhole(r) == \E n \in 0..MaxRounds : opSessions[r] = Conversation(r, n)

Conversations == { Conversation(r, n) : r \in Runs, n \in 0..MaxRounds }

RunType ==
    [at : {"idle", "waiting"} \cup Ended, asked : 0..MaxRounds, own : BOOLEAN,
     heard : Conversations]

RunSound(r) ==
    /\ run[r].at = "idle" => run[r].asked = 0 /\ run[r].heard = <<>>
    /\ run[r].at = "waiting" => run[r].asked \in 1..MaxRounds
    /\ run[r].at = "result" => run[r].heard = Conversation(r, run[r].asked)

HandledSent == \A t \in Tasks : env[t] # None => env[t] \in SentMessages

ReceiverInv ==
    /\ HandledSent
    /\ \A r \in Runs : SessionWhole(r)
    /\ \A d \in dedupeCache : ReplyWhole(d)

InitiatorInv ==
    /\ run \in [Runs -> RunType]
    /\ \A r \in Runs : RunSound(r)

SystemInv ==
    /\ ReceiverInv
    /\ InitiatorInv
    /\ \A a \in answers : AnswerWhole(a)
    /\ taken \in [Runs -> 0..MaxRounds]

\* A message is its run's and its number's alone.
LEMMA SentFacts ==
    ASSUME NEW e \in SentMessages
    PROVE  \E r \in Runs, n \in 1..MaxRounds :
             e = Message(r, n) /\ e.sid = r /\ e.phase = n /\ RoundKey(e) = <<r, n, HashPayload(n)>>
  BY MessageFacts DEF SentMessages

\* The operation's own order makes a conversation from the state it was given
\* and the message it took.
LEMMA TakesNext ==
    ASSUME NEW r \in Runs, NEW n \in 0..MaxRounds, NEW k \in 1..MaxRounds,
           k = Len(Conversation(r, n)) + 1
    PROVE  Append(Conversation(r, n), Message(r, k)) = Conversation(r, k)
  <1>1. k = n + 1 /\ n < MaxRounds
    BY ConversationFacts, RunAssumption
  <1> QED
    BY <1>1, ConversationFacts

\* A message that is taken as the first of its session is the run's first.
LEMMA TakesFirst ==
    ASSUME NEW r \in Runs, NEW k \in 1..MaxRounds, k = Len(<<>>) + 1
    PROVE  <<Message(r, k)>> = Conversation(r, k)
  <1>1. k = 1
    OBVIOUS
  <1>2. 0 \in 0..MaxRounds /\ 0 < MaxRounds /\ 0 + 1 = 1
    BY RunAssumption
  <1>3. Append(Conversation(r, 0), Message(r, 1)) = Conversation(r, 1)
    BY <1>2, ConversationFacts
  <1>4. Conversation(r, 0) = <<>>
    BY <1>2, ConversationFacts
  <1>5. Append(<<>>, Message(r, 1)) = <<Message(r, 1)>>
    OBVIOUS
  <1> QED
    BY <1>1, <1>3, <1>4, <1>5

\* The operation's answer to `log' is returned and filed under the envelope's
\* key; nothing else enters the reply cache.
AnswersWith(t, log) ==
    /\ returned'.code \in ReplyCodes
    /\ returned'.code = "REPLY" => returned'.log = log
    /\ \A d \in dedupeCache' :
         \/ d \in dedupeCache
         \/ /\ d.key = RoundKey(env[t]) /\ d.code = returned'.code
            /\ d.code = "REPLY" => d.log = log

LEMMA AnswerEffect ==
    ASSUME NEW t \in Tasks, env[t] \in Envelopes, NEW o,
           NEW log \in Seq(Envelopes), Answer(t, o, log)
    PROVE  AnswersWith(t, log) /\ Taken(t)
  <1> DEFINE code  == IF o \in Answers THEN "REPLY" ELSE "NO_REPLY"
             reply == IF o \in Answers THEN log ELSE <<>>
  <1>1. /\ returned' = [env |-> env[t], code |-> code, log |-> reply, ran |-> TRUE]
        /\ dedupeCache' = { d \in dedupeCache : d.key # RoundKey(env[t]) } \cup
                            {[key |-> RoundKey(env[t]), expires |-> now + DedupeTTL,
                              code |-> code, log |-> reply]}
    BY DEF Answer, Return
  <1>2. code \in {"REPLY", "NO_REPLY"} /\ (code = "REPLY" => reply = log)
    OBVIOUS
  <1>3. reply \in Seq(Envelopes)
    OBVIOUS
  <1> HIDE DEF code, reply
  <1>4. returned' \in [env : Envelopes, code : ReplyCodes \cup Causes, log : Seq(Envelopes),
                       ran : BOOLEAN]
    BY <1>1, <1>2, <1>3 DEF ReplyCodes
  <1>5. returned' # None
    BY <1>4, RunAssumption
  <1> QED
    BY <1>1, <1>2, <1>5 DEF AnswersWith, Taken, ReplyCodes

\* What a handler does when the operation takes a message: the state it was
\* given and the message make a conversation, and that is what is answered.
LEMMA TakingStep ==
    ASSUME TypeOK, SystemInv, NEW t \in Tasks, NEW o \in Outcomes,
           ProcessRound(t, o) \/ Receive(t, o), InOrder(t)
    PROVE  \E r \in Runs, n \in 1..MaxRounds :
             /\ env[t] = Message(r, n)
             /\ AnswersWith(t, Conversation(r, n))
             /\ Taken(t)
             /\ \/ opSessions' = opSessions
                \/ opSessions' = [opSessions EXCEPT ![r] = <<>>]
                \/ opSessions' = [opSessions EXCEPT ![r] = Conversation(r, n)]
  <1>1. pc[t] # "idle"
    BY DEF ProcessRound, Receive, AcceptRound, AcceptOpening, Round, NewRound, At
  <1>2. env[t] \in SentMessages /\ env[t] \in Envelopes
    BY <1>1, BusyTask, NoneAssumption DEF SystemInv, ReceiverInv, HandledSent
  <1>3. PICK r \in Runs, n \in 1..MaxRounds :
               env[t] = Message(r, n) /\ env[t].sid = r /\ env[t].phase = n
    BY <1>2, SentFacts
  <1>4. r \in Sids
    BY MessageFacts
  <1>5. CASE ProcessRound(t, o)
    <2> DEFINE log == Append(opSessions[r], env[t])
    <2>1. StateGiven(t) = opSessions[r]
      BY <1>3, <1>5 DEF ProcessRound, AcceptRound, Round, NewRound, At, StateGiven
    <2>2. PICK m \in 0..MaxRounds : opSessions[r] = Conversation(r, m)
      BY DEF SystemInv, ReceiverInv, SessionWhole
    <2>3. log \in Seq(Envelopes)
      BY <1>2, <1>4 DEF TypeOK, SessionTypes
    <2>4. /\ Answer(t, o, log)
          /\ opSessions' = [opSessions EXCEPT ![r] = IF o \in Finishes THEN <<>> ELSE log]
      BY <1>3, <1>5 DEF ProcessRound, OperationProcess
    <2> HIDE DEF log
    <2>5. AnswersWith(t, log) /\ Taken(t)
      BY <1>2, <2>3, <2>4, AnswerEffect
    <2>6. log = Conversation(r, n)
      BY <1>3, <2>1, <2>2, <2>5, TakesNext DEF InOrder, log
    <2>7. AnswersWith(t, Conversation(r, n))
      BY <2>5, <2>6 DEF AnswersWith
    <2> QED
      BY <1>3, <2>4, <2>5, <2>6, <2>7
  <1>6. CASE Receive(t, o)
    <2> DEFINE log == <<env[t]>>
    <2>1. StateGiven(t) = <<>>
      BY <1>6 DEF Receive, AcceptOpening, At, StateGiven
    <2>2. log \in Seq(Envelopes)
      BY <1>2
    <2>3. /\ Answer(t, o, log)
          /\ opSessions' = [opSessions EXCEPT ![r] = IF o \in Finishes THEN @ ELSE log]
      BY <1>3, <1>6 DEF Receive, OperationReceive
    <2> HIDE DEF log
    <2>4. AnswersWith(t, log) /\ Taken(t)
      BY <1>2, <2>2, <2>3, AnswerEffect
    <2>5. log = Conversation(r, n)
      BY <1>3, <2>1, <2>4, TakesFirst DEF InOrder, log
    <2>6. AnswersWith(t, Conversation(r, n))
      BY <2>4, <2>5 DEF AnswersWith
    <2>7. opSessions' = opSessions \/ opSessions' = [opSessions EXCEPT ![r] = log]
      BY <1>4, <2>3 DEF TypeOK, SessionTypes
    <2> QED
      BY <1>3, <2>4, <2>5, <2>6, <2>7
  <1> QED
    BY <1>5, <1>6

-----------------------------------------------------------------------------
(* Every step of the system keeps the invariant.                           *)

\* What steps do to a session of the operation leaves a conversation in it.
LEMMA SessionsStayWhole ==
    ASSUME TypeOK, \A r \in Runs : SessionWhole(r),
           \/ opSessions' = opSessions
           \/ \E s \in Sids : opSessions' = [opSessions EXCEPT ![s] = <<>>]
           \/ \E r \in Runs, n \in 1..MaxRounds :
                opSessions' = [opSessions EXCEPT ![r] = Conversation(r, n)]
    PROVE  \A r \in Runs : SessionWhole(r)'
  <1> SUFFICES ASSUME NEW r \in Runs
               PROVE  \E n \in 0..MaxRounds : opSessions'[r] = Conversation(r, n)
    BY DEF SessionWhole
  <1>1. r \in Sids /\ opSessions \in [Sids -> Seq(Envelopes)]
    BY RunAssumption, MessageFacts DEF TypeOK, SessionTypes
  <1>2. 0 \in 0..MaxRounds /\ Conversation(r, 0) = <<>>
    BY RunAssumption, ConversationFacts
  <1>3. CASE opSessions'[r] = opSessions[r]
    BY <1>3 DEF SessionWhole
  <1>4. CASE opSessions'[r] = <<>>
    BY <1>2, <1>4
  <1>5. ASSUME NEW u \in Runs, NEW n \in 1..MaxRounds,
               opSessions' = [opSessions EXCEPT ![u] = Conversation(u, n)]
        PROVE  \E m \in 0..MaxRounds : opSessions'[r] = Conversation(r, m)
    <2>1. n \in 0..MaxRounds
      BY RunAssumption
    <2> QED
      BY <1>1, <1>3, <1>5, <2>1
  <1> QED
    BY <1>1, <1>3, <1>4, <1>5

\* The answer of a handler becomes one more answer.
LEMMA AnswersStayWhole ==
    ASSUME \A a \in answers : AnswerWhole(a), Complete,
           returned' # None => returned'.env \in SentMessages,
           returned' # None /\ returned'.code = "REPLY" =>
             \E r \in Runs, n \in 1..MaxRounds :
               returned'.env = Message(r, n) /\ returned'.log = Conversation(r, n)
    PROVE  \A a \in answers' : AnswerWhole(a)
  BY DEF Complete, AnswerWhole

\* A handler's step.
LEMMA HandlerKeepsInv ==
    ASSUME TypeOK, SystemInv, NEW t \in Tasks, ReceiverStep(t)
    PROVE  SystemInv'
  <1>1. /\ TaskStep(t) \/ Cancel(t)
        /\ InOrder(t) /\ Complete /\ CountTaken(t) /\ run' = run
    BY DEF ReceiverStep
  <1>2. InitiatorInv'
    BY <1>1 DEF SystemInv, InitiatorInv, RunSound
  <1>3. /\ returned' # None => returned'.env = env[t] /\ env[t] # None
        /\ env' \in {env, [env EXCEPT ![t] = None]}
    BY <1>1, OwnEnvelope
  <1>4. HandledSent'
    BY <1>3 DEF SystemInv, ReceiverInv, HandledSent, TypeOK, TaskTypes
  <1>5. returned' # None => returned'.env \in SentMessages
    BY <1>3 DEF SystemInv, ReceiverInv, HandledSent
  <1>6. CASE QuietTaskStep
    <2>1. \A r \in Runs : SessionWhole(r)'
      BY <1>6, SessionsStayWhole DEF QuietTaskStep, SystemInv, ReceiverInv
    <2>2. \A a \in answers' : AnswerWhole(a)
      BY <1>1, <1>5, <1>6, AnswersStayWhole DEF QuietTaskStep, SystemInv
    <2>3. \A d \in dedupeCache' : ReplyWhole(d)
      BY <1>6 DEF QuietTaskStep, SystemInv, ReceiverInv
    <2>4. taken' = taken
      BY <1>1, <1>6 DEF QuietTaskStep, CountTaken, Taken
    <2> QED
      BY <1>2, <1>4, <2>1, <2>2, <2>3, <2>4 DEF SystemInv, ReceiverInv
  <1>7. CASE DedupeHit(t)
    <2>1. PICK d \in CachedRounds(env[t]) :
                 UNCHANGED <<cacheVars, sessionVars>> /\ Return(t, d.code, d.log, FALSE)
      BY <1>7 DEF DedupeHit
    <2>2. returned' = [env |-> env[t], code |-> d.code, log |-> d.log, ran |-> FALSE]
      BY <2>1 DEF Return
    <2>3. env[t] \in SentMessages
      BY <1>7, BusyTask, NoneAssumption DEF DedupeHit, At, SystemInv, ReceiverInv, HandledSent
    <2>4. d \in dedupeCache /\ d.key = RoundKey(env[t]) /\ ReplyWhole(d)
      BY <2>1 DEF CachedRounds, SystemInv, ReceiverInv
    <2>5. ASSUME d.code = "REPLY"
          PROVE  \E r \in Runs, n \in 1..MaxRounds :
                   env[t] = Message(r, n) /\ d.log = Conversation(r, n)
      <3>1. PICK r \in Runs, n \in 1..MaxRounds :
                   d.key = RoundKey(Message(r, n)) /\ d.log = Conversation(r, n)
        BY <2>4, <2>5 DEF ReplyWhole
      <3>2. PICK u \in Runs, m \in 1..MaxRounds :
                   env[t] = Message(u, m) /\ RoundKey(env[t]) = <<u, m, HashPayload(m)>>
        BY <2>3, SentFacts
      <3>3. RoundKey(Message(r, n)) = <<r, n, HashPayload(n)>>
        BY MessageFacts
      <3>4. <<r, n, HashPayload(n)>> = <<u, m, HashPayload(m)>>
        BY <2>4, <3>1, <3>2, <3>3
      <3>5. r = u /\ n = m
        BY ONLY <3>4
      <3> QED
        BY <3>1, <3>2, <3>5
    <2>6. \A a \in answers' : AnswerWhole(a)
      BY <1>1, <1>5, <2>2, <2>5, AnswersStayWhole DEF SystemInv
    <2>7. taken' = taken
      BY <1>1, <2>2 DEF CountTaken, Taken
    <2>8. opSessions' = opSessions /\ dedupeCache' = dedupeCache
      BY <2>1 DEF cacheVars, sessionVars
    <2> QED
      BY <1>2, <1>4, <2>6, <2>7, <2>8 DEF SystemInv, ReceiverInv, SessionWhole
  <1>8. ASSUME NEW o \in Outcomes, ProcessRound(t, o) \/ Receive(t, o)
        PROVE  SystemInv'
    <2>1. PICK r \in Runs, n \in 1..MaxRounds :
             /\ env[t] = Message(r, n)
             /\ AnswersWith(t, Conversation(r, n))
             /\ Taken(t)
             /\ \/ opSessions' = opSessions
                \/ opSessions' = [opSessions EXCEPT ![r] = <<>>]
                \/ opSessions' = [opSessions EXCEPT ![r] = Conversation(r, n)]
      BY <1>1, <1>8, TakingStep
    <2>2. r \in Sids /\ env[t].sid = r /\ env[t].phase = n
      BY <2>1, MessageFacts
    <2>3. \A u \in Runs : SessionWhole(u)'
      BY <2>1, <2>2, SessionsStayWhole DEF SystemInv, ReceiverInv
    <2>4. \A a \in answers' : AnswerWhole(a)
      BY <1>1, <1>3, <1>5, <2>1, AnswersStayWhole DEF AnswersWith, SystemInv
    <2>5. \A d \in dedupeCache' : ReplyWhole(d)
      BY <2>1 DEF AnswersWith, ReplyWhole, SystemInv, ReceiverInv
    <2>6. taken' \in [Runs -> 0..MaxRounds]
      <3>1. taken' = [taken EXCEPT ![r] = n]
        BY <1>1, <2>1, <2>2 DEF CountTaken
      <3>2. n \in 0..MaxRounds
        BY RunAssumption
      <3> QED
        BY <3>1, <3>2 DEF SystemInv
    <2> QED
      BY <1>2, <1>4, <2>3, <2>4, <2>5, <2>6 DEF SystemInv, ReceiverInv
  <1> QED
    BY <1>1, <1>6, <1>7, <1>8, TaskStepKinds

\* A message arrives.
LEMMA DeliverKeepsInv ==
    ASSUME TypeOK, SystemInv, NEW t \in Tasks, NEW e \in SentMessages, Deliver(t, e)
    PROVE  SystemInv'
  <1>1. /\ env' = [env EXCEPT ![t] = e]
        /\ opSessions' = opSessions
        /\ dedupeCache' \subseteq dedupeCache
        /\ run' = run /\ answers' = answers /\ taken' = taken
    BY DEF Deliver, HandleEnvelope, LiveRounds, sessionVars
  <1>2. HandledSent'
    BY <1>1 DEF SystemInv, ReceiverInv, HandledSent, TypeOK, TaskTypes
  <1>3. (\A r \in Runs : SessionWhole(r))' /\ \A d \in dedupeCache' : ReplyWhole(d)
    BY <1>1 DEF SystemInv, ReceiverInv, SessionWhole
  <1>4. InitiatorInv'
    BY <1>1 DEF SystemInv, InitiatorInv, RunSound
  <1> QED
    BY <1>1, <1>2, <1>3, <1>4 DEF SystemInv, ReceiverInv

\* The receiver restarts: the broken calls were calls with messages of runs.
LEMMA RestartKeepsInv ==
    ASSUME TypeOK, SystemInv, ReceiverRestarts
    PROVE  SystemInv'
  <1>1. /\ env' = [t \in Tasks |-> None]
        /\ opSessions' = [s \in Sids |-> <<>>]
        /\ dedupeCache' = {} /\ run' = run /\ taken' = [r \in Runs |-> 0]
        /\ answers' = answers \cup
             { [env |-> env[t], code |-> "CANCELLED", log |-> <<>>] :
                 t \in { u \in Tasks : env[u] # None } }
    BY DEF ReceiverRestarts, Restart
  <1>2. HandledSent'
    BY <1>1 DEF HandledSent
  <1>3. ASSUME NEW r \in Runs PROVE SessionWhole(r)'
    <2>1. 0 \in 0..MaxRounds /\ Conversation(r, 0) = <<>> /\ r \in Sids
      BY RunAssumption, ConversationFacts, MessageFacts
    <2> QED
      BY <1>1, <2>1 DEF SessionWhole
  <1>4. \A a \in answers' : AnswerWhole(a)
    BY <1>1 DEF SystemInv, ReceiverInv, HandledSent, AnswerWhole
  <1>5. InitiatorInv'
    BY <1>1 DEF SystemInv, InitiatorInv, RunSound
  <1>6. taken' \in [Runs -> 0..MaxRounds]
    BY <1>1, RunAssumption
  <1> QED
    BY <1>1, <1>2, <1>3, <1>4, <1>5, <1>6 DEF SystemInv, ReceiverInv

\* The initiator sends its next message, or gives up at the last.
LEMMA AskKeepsInv ==
    ASSUME InitiatorInv, NEW r \in Runs, NEW log \in Conversations, Ask(r, log)
    PROVE  InitiatorInv'
  <1>1. run[r] \in RunType /\ run[r].asked \in 0..MaxRounds /\ MaxRounds \in Nat \ {0}
    BY RunAssumption DEF InitiatorInv, RunType
  <1>2. CASE run[r].asked < MaxRounds
    <2>1. run' = [run EXCEPT ![r] = [at |-> "waiting", asked |-> run[r].asked + 1,
                                     own |-> TRUE, heard |-> log]]
      BY <1>1, <1>2 DEF Ask
    <2>2. run[r].asked + 1 \in 1..MaxRounds
      BY <1>1, <1>2
    <2> QED
      BY <1>1, <2>1, <2>2 DEF InitiatorInv, RunType, RunSound
  <1>3. CASE run' = [run EXCEPT ![r].at = "raised", ![r].heard = log]
    BY <1>1, <1>3 DEF InitiatorInv, RunType, RunSound, Ended
  <1> QED
    BY <1>2, <1>3 DEF Ask

\* A run that ends with no new answer.
LEMMA EndKeepsInv ==
    ASSUME InitiatorInv, NEW r \in Runs, NEW own \in BOOLEAN, NEW how \in Ended, End(r, how, own),
           how = "result" => run[r].heard = Conversation(r, run[r].asked)
    PROVE  InitiatorInv'
  <1> DEFINE new == [run[r] EXCEPT !.at = how, !.own = own]
  <1>1. run \in [Runs -> RunType] /\ run[r] \in RunType
    BY DEF InitiatorInv
  <1>2. run' = [run EXCEPT ![r] = new]
    BY <1>1 DEF End, RunType
  <1>3. /\ new \in RunType
        /\ new.at = how /\ new.asked = run[r].asked /\ new.heard = run[r].heard
    BY <1>1 DEF RunType
  <1> HIDE DEF new
  <1>4. run' \in [Runs -> RunType]
    BY <1>1, <1>2, <1>3
  <1>5. RunSound(r)'
    BY <1>1, <1>2, <1>3 DEF RunSound, Ended
  <1>6. ASSUME NEW u \in Runs \ {r} PROVE RunSound(u)'
    <2>1. run'[u] = run[u]
      BY <1>1, <1>2
    <2> QED
      BY <2>1 DEF InitiatorInv, RunSound
  <1> QED
    BY <1>4, <1>5, <1>6 DEF InitiatorInv

\* A reply to the outstanding message was computed from the whole conversation.
LEMMA HeardWhole ==
    ASSUME SystemInv, NEW r \in Runs, NEW a, Hears(r, a), a.code = "REPLY"
    PROVE  /\ a.log = Conversation(r, run[r].asked)
           /\ a.log \in Conversations
           /\ run[r].asked \in 1..MaxRounds
  <1>1. run[r].asked \in 1..MaxRounds
    BY DEF Hears, SystemInv, InitiatorInv, RunSound
  <1>2. PICK u \in Runs, n \in 1..MaxRounds : a.env = Message(u, n) /\ a.log = Conversation(u, n)
    BY DEF Hears, SystemInv, AnswerWhole
  <1>3. Message(u, n) = Message(r, run[r].asked)
    BY <1>2 DEF Hears, Outstanding
  <1>4. u = r /\ n = run[r].asked
    BY <1>1, <1>3, MessageFacts
  <1>5. n \in 0..MaxRounds
    BY RunAssumption
  <1> QED
    BY <1>1, <1>2, <1>4, <1>5 DEF Conversations

\* The initiator's steps.
LEMMA RunKeepsInv ==
    ASSUME SystemInv, NEW r \in Runs, RunStep(r)
    PROVE  SystemInv'
  <1>1. InitiatorStep
    BY DEF RunStep, RunIntent, HearReply, HearRefusal, SendFails, SendTimesOut
  <1>2. InitiatorInv /\ run[r] \in RunType /\ RunSound(r)
    BY DEF SystemInv, InitiatorInv
  <1>3. 0 \in 0..MaxRounds /\ Conversation(r, 0) = <<>> /\ <<>> \in Conversations
    <2>1. 0 \in 0..MaxRounds
      BY RunAssumption
    <2> QED
      BY <2>1, ConversationFacts DEF Conversations
  <1>4. ASSUME RunIntent(r)
        PROVE  InitiatorInv'
    <2>1. run[r].heard = Conversation(r, run[r].asked)
      BY <1>2, <1>3, <1>4 DEF RunIntent, RunSound
    <2>2. Ask(r, <<>>) \/ \E own \in BOOLEAN, how \in Ended : End(r, how, own)
      BY <1>4 DEF RunIntent, Ended
    <2> QED
      BY <1>2, <1>3, <2>1, <2>2, AskKeepsInv, EndKeepsInv
  <1>5. ASSUME \/ SendTimesOut(r)
               \/ \E a \in answers : HearRefusal(r, a) \/ SendFails(r, a)
        PROVE  InitiatorInv'
    <2>1. End(r, "raised", run[r].own) /\ run[r].own \in BOOLEAN
      BY <1>2, <1>5 DEF SendTimesOut, HearRefusal, SendFails, RunType
    <2> QED
      BY <1>2, <2>1, EndKeepsInv DEF Ended
  <1>6. ASSUME NEW a \in answers, HearReply(r, a)
        PROVE  InitiatorInv'
    <2>1. /\ a.log = Conversation(r, run[r].asked) /\ a.log \in Conversations
          /\ run[r].asked \in 1..MaxRounds
      BY <1>6, HeardWhole DEF HearReply
    <2>2. CASE run' = [run EXCEPT ![r].at = "result", ![r].own = FALSE, ![r].heard = a.log]
      BY <1>2, <2>1, <2>2 DEF InitiatorInv, RunType, RunSound, Ended
    <2>3. CASE run' = [run EXCEPT ![r].at = "raised", ![r].heard = a.log]
      BY <1>2, <2>1, <2>3 DEF InitiatorInv, RunType, RunSound, Ended
    <2> QED
      BY <1>2, <1>6, <2>1, <2>2, <2>3, AskKeepsInv, EndKeepsInv DEF HearReply, Ended
  <1>7. InitiatorInv'
    BY <1>4, <1>5, <1>6 DEF RunStep
  <1>8. /\ env' = env /\ opSessions' = opSessions /\ dedupeCache' = dedupeCache
        /\ answers' = answers /\ taken' = taken
    BY <1>1 DEF InitiatorStep, receiverVars, vars, taskVars, sessionVars, cacheVars
  <1> QED
    BY <1>7, <1>8 DEF SystemInv, ReceiverInv, HandledSent, SessionWhole

\* The invariant holds when both sides start ...
LEMMA InvHoldsFirst == SystemInit => SystemInv
  <1> SUFFICES ASSUME SystemInit PROVE SystemInv
    OBVIOUS
  <1>1. ASSUME NEW r \in Runs
        PROVE  /\ r \in Sids /\ 0 \in 0..MaxRounds
               /\ Conversation(r, 0) = <<>> /\ <<>> \in Conversations
    <2>1. 0 \in 0..MaxRounds /\ 1 \in 1..MaxRounds
      BY RunAssumption
    <2> QED
      BY <2>1, MessageFacts, ConversationFacts DEF Conversations
  <1>2. ReceiverInv
    BY <1>1 DEF SystemInit, Init, ReceiverInv, HandledSent, SessionWhole
  <1>3. InitiatorInv
    BY <1>1 DEF SystemInit, InitiatorInv, RunType, RunSound
  <1> QED
    BY <1>1, <1>2, <1>3 DEF SystemInit, SystemInv

\* ... and every step, stuttering included, keeps it.
LEMMA InvPreserved ==
    ASSUME TypeOK, SystemInv, [SystemNext]_systemVars
    PROVE  SystemInv'
  <1>1. CASE UNCHANGED systemVars
    BY <1>1 DEF systemVars, receiverVars, vars, taskVars, sessionVars, cacheVars, SystemInv,
                ReceiverInv, InitiatorInv, HandledSent, SessionWhole, RunSound
  <1> QED
    BY <1>1, RunKeepsInv, DeliverKeepsInv, HandlerKeepsInv, RestartKeepsInv DEF SystemNext

\* In every behaviour of the two sides and the network, a result was computed
\* from an answer to the whole conversation of its run.
THEOREM ResultsAreWhole == System => []ResultFromWholeSession
  <1>1. SystemInv => ResultFromWholeSession
    BY DEF SystemInv, InitiatorInv, RunSound, ResultFromWholeSession
  <1> QED
    BY <1>1, InvHoldsFirst, InvPreserved, ReceiverTypes, PTL DEF System

\* In every behaviour both sides keep their types, and no run asks more often
\* than MAX_ROUNDS.
THEOREM SystemTypesCorrect == System => []SystemTypeOK
  <1>1. SystemInv => SystemTypeOK
    <2> SUFFICES ASSUME SystemInv PROVE SystemTypeOK
      OBVIOUS
    <2>1. ASSUME NEW r \in Runs
          PROVE  /\ run[r].at \in {"idle", "waiting"} \cup Ended
                 /\ run[r].asked \in 0..MaxRounds
                 /\ run[r].own \in BOOLEAN
                 /\ run[r].heard \in Conversations
      BY DEF SystemInv, InitiatorInv, RunType
    <2>2. Conversations \subseteq Seq(Envelopes)
      BY ConversationFacts DEF Conversations
    <2>3. \A a \in answers : a.env \in Envelopes
      BY RunAssumption DEF SystemInv, AnswerWhole, SentMessages
    <2> QED
      BY <2>1, <2>2, <2>3 DEF SystemTypeOK, SystemInv
  <1> QED
    BY <1>1, InvHoldsFirst, InvPreserved, ReceiverTypes, PTL DEF System
=============================================================================
