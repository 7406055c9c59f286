------------------------------ MODULE Session -------------------------------
(***************************************************************************)
(* An initiator and a receiver: run_intent (src/ap3/a2a/_core.py) sends    *)
(* its envelopes with send_envelope (client.py) over A2A, the executor     *)
(* (executor.py) hands them to the Receiver of this project and returns    *)
(* its answers.                                                            *)
(*                                                                         *)
(* A run is named by its wire session id and its n-th message by n.  The   *)
(* network may lose a call or its answer, and deliver a message that was   *)
(* sent any number of times.  The clock stands still: a run is over before *)
(* a cached reply or an intent expires (30 minutes, 24 hours).             *)
(***************************************************************************)
EXTENDS Receiver

CONSTANTS
    Runs,           \* calls of run_intent, named by the session ids they use
    Initiator,      \* the key that signs their intents
    MaxRounds       \* MAX_ROUNDS

\* The intent of every message is a fresh one, bound to session and payload.
SignedIntent(r, n) ==
    [id |-> <<r, n>>, signer |-> Initiator, sid |-> r, payload |-> HashPayload(n),
     expiry |-> 1, flaw |-> "none"]

Message(r, n) ==
    [header |-> "ap3", sid |-> r, phase |-> n, payload |-> n,
     intent |-> SignedIntent(r, n)]

\* How a call ends without an answer, and what is refused for a reason that
\* lies outside the protocol.
Unanswered == {"RAISED", "CANCELLED"}
Causes     == {"OPERATION_ERROR", "INCOMPATIBLE_PEER", "SESSION_EXPIRED"} \cup Unanswered

ASSUME RunAssumption ==
    /\ MaxRounds \in Nat \ {0}
    /\ "error" \in OpenOutcomes \cap RoundOutcomes
    /\ LatestUtc > 0
    /\ \A r \in Runs, n \in 1..MaxRounds :
         Message(r, n) \in Envelopes /\ SignedIntent(r, n) # None
    /\ None \notin [env : Envelopes, code : ReplyCodes \cup Causes, log : Seq(Envelopes),
                    ran : BOOLEAN]

\* The names a run makes up are uuids in hexadecimal and the operation's own
\* phases: none of them holds a separator.
ASSUME NameAssumption ==
    \A r \in Runs, n \in 1..MaxRounds :
        Pieces(r) = <<r>> /\ Pieces(n) = <<n>> /\ Pieces(<<r, n>>) = <<<<r, n>>>>

VARIABLES
    run,            \* per run: where it is, messages sent, whether its own
                    \* Operation holds a session, what its last answer was
                    \* computed from
    answers,        \* what handle_envelope returned, to be carried back
    taken           \* history: messages of a run the receiver's operation
                    \* has taken since the process started

receiverVars == vars
systemVars == <<receiverVars, run, answers, taken>>

Ended == {"result", "raised"}

SentMessages == { Message(r, n) : r \in Runs, n \in 1..MaxRounds }
Sent(e) == \E r \in Runs : \E n \in 1..run[r].asked : e = Message(r, n)
Outstanding(r) == Message(r, run[r].asked)

-----------------------------------------------------------------------------
(* run_intent.                                                             *)

InitiatorStep == UNCHANGED <<receiverVars, answers, taken>>

End(r, how, own) ==
    run' = [run EXCEPT ![r].at = how, ![r].own = own]

\* Variant for the checks: one round too many.
AskUnlimited(r, log) ==
    run' = [run EXCEPT ![r] = [at |-> "waiting", asked |-> @.asked + 1,
                               own |-> TRUE, heard |-> log]]

\* One more message, unless the loop has used up its rounds: then it raises
\* ROUND_LIMIT, and the operation's session has taken the answer.
Ask(r, log) ==
    \/ /\ run[r].asked < MaxRounds
       /\ run' = [run EXCEPT ![r] = [at |-> "waiting", asked |-> @.asked + 1,
                                     own |-> TRUE, heard |-> log]]
    \/ /\ run[r].asked = MaxRounds
       /\ run' = [run EXCEPT ![r].at = "raised", ![r].heard = log]

\* resolve_peer or the compatibility check raises, or start does: no session;
\* start returns a result, or neither that nor a message (NO_OUTGOING).
RunIntent(r) ==
    /\ run[r].at = "idle"
    /\ \/ End(r, "raised", FALSE)
       \/ End(r, "result", FALSE)
       \/ End(r, "raised", TRUE)
       \/ Ask(r, <<>>)
    /\ InitiatorStep

Hears(r, a) ==
    /\ run[r].at = "waiting"
    /\ a \in answers
    /\ a.env = Outstanding(r)

\* Variant for the checks: reply.error is not looked at.
HearReplyOrRefusal(r, a) ==
    /\ Hears(r, a)
    /\ a.code \notin Unanswered
    /\ \/ run' = [run EXCEPT ![r].at = "result", ![r].own = FALSE, ![r].heard = a.log]
       \/ Ask(r, a.log)
    /\ InitiatorStep

\* Operation.process takes a reply: it is done, it goes on, it returns
\* neither (NO_OUTGOING), or it raises and has aborted its session.
HearReply(r, a) ==
    /\ Hears(r, a)
    /\ a.code = "REPLY"
    /\ \/ run' = [run EXCEPT ![r].at = "result", ![r].own = FALSE, ![r].heard = a.log]
       \/ Ask(r, a.log)
       \/ run' = [run EXCEPT ![r].at = "raised", ![r].heard = a.log]
       \/ End(r, "raised", FALSE)
    /\ InitiatorStep

\* Variant for the checks: a missing reply is waited for.
HearRefusalOnly(r, a) ==
    /\ Hears(r, a)
    /\ a.code \notin Unanswered \cup ReplyCodes
    /\ End(r, "raised", run[r].own)
    /\ InitiatorStep

\* The task came back without an envelope (NO_REPLY) or with a refusal.
HearRefusal(r, a) ==
    /\ Hears(r, a)
    /\ a.code \notin Unanswered \cup {"REPLY"}
    /\ End(r, "raised", run[r].own)
    /\ InitiatorStep

\* The call fails at the other end: an exception, a cancellation, a restart.
SendFails(r, a) ==
    /\ Hears(r, a)
    /\ a.code \in Unanswered
    /\ End(r, "raised", run[r].own)
    /\ InitiatorStep

\* ... or on the way, by a lost message, a lost answer or a timeout.
SendTimesOut(r) ==
    /\ run[r].at = "waiting"
    /\ End(r, "raised", run[r].own)
    /\ InitiatorStep

-----------------------------------------------------------------------------
(* The receiver's side of the call: execute and _dispatch_protocol.        *)

\* A message that was sent arrives, for the first time or again.
Deliver(t, e) ==
    /\ Sent(e)
    /\ HandleEnvelope(t, e)
    /\ UNCHANGED <<run, answers, taken>>

\* What handle_envelope returned becomes the artifact of the A2A task.
Complete ==
    answers' =
        IF returned' = None THEN answers
        ELSE answers \cup
               {[env |-> returned'.env, code |-> returned'.code, log |-> returned'.log]}

\* The handler of task t returns what the operation answered.
Taken(t) ==
    /\ returned' # None
    /\ returned'.ran
    /\ returned'.code \in ReplyCodes

\* The state on_process is given: receive passes an empty one.
StateGiven(t) == IF pc[t] = "open" THEN <<>> ELSE opSessions[env[t].sid]

\* Variant for the checks: the operation takes any message at any time.
AnyOrder(t) == TRUE

\* The operation knows its own order, as PSI does: it raises on a message its
\* state does not expect (psi/operations.py).
InOrder(t) == Taken(t) => env[t].phase = Len(StateGiven(t)) + 1

CountTaken(t) ==
    taken' = IF Taken(t) THEN [taken EXCEPT ![env[t].sid] = env[t].phase] ELSE taken

ReceiverStep(t) ==
    /\ TaskStep(t) \/ Cancel(t)
    /\ InOrder(t)
    /\ Complete
    /\ CountTaken(t)
    /\ UNCHANGED run

\* A restart breaks the calls that are being handled.
ReceiverRestarts ==
    /\ Restart
    /\ answers' = answers \cup
         { [env |-> env[t], code |-> "CANCELLED", log |-> <<>>] :
             t \in { u \in Tasks : env[u] # None } }
    /\ taken' = [r \in Runs |-> 0]
    /\ UNCHANGED run

SystemInit ==
    /\ Init
    /\ run = [r \in Runs |-> [at |-> "idle", asked |-> 0, own |-> FALSE, heard |-> <<>>]]
    /\ answers = {}
    /\ taken = [r \in Runs |-> 0]

RunStep(r) ==
    \/ RunIntent(r)
    \/ \E a \in answers : HearReply(r, a) \/ HearRefusal(r, a) \/ SendFails(r, a)
    \/ SendTimesOut(r)

SystemNext ==
    \/ \E r \in Runs : RunStep(r)
    \/ \E t \in Tasks, e \in SentMessages : Deliver(t, e)
    \/ \E t \in Tasks : ReceiverStep(t)
    \/ ReceiverRestarts

System == SystemInit /\ [][SystemNext]_systemVars

HearAnswer(r) ==
    \E a \in answers : HearReply(r, a) \/ HearRefusal(r, a) \/ SendFails(r, a)

DeliverOutstanding(r) ==
    /\ run[r].at = "waiting"
    /\ ~ \E a \in answers : a.env = Outstanding(r)
    /\ \E t \in Tasks : Deliver(t, Outstanding(r))

\* The receiver's event loop is fair, a call arrives unless it times out, and
\* an answer that came back is read.  Timeouts are allowed, not counted on.
FairSystem ==
    /\ System
    /\ \A t \in Tasks : SF_systemVars(ReceiverStep(t))
    /\ \A r \in Runs : SF_systemVars(DeliverOutstanding(r)) /\ WF_systemVars(HearAnswer(r))

-----------------------------------------------------------------------------
(* Properties.                                                             *)

Conversation(r, n) == [i \in 1..n |-> Message(r, i)]

\* The type of the composed state; no run ever sends more than MAX_ROUNDS.
SystemTypeOK ==
    /\ \A r \in Runs :
         /\ run[r].at \in {"idle", "waiting"} \cup Ended
         /\ run[r].asked \in 0..MaxRounds
         /\ run[r].own \in BOOLEAN
         /\ run[r].heard \in Seq(Envelopes)
    /\ \A a \in answers : a.env \in Envelopes
    /\ taken \in [Runs -> 0..MaxRounds]

\* A result is returned only from a whole conversation: the answer it was
\* computed from was computed from every message of this run, each once, in
\* order, and from nothing else, whatever was lost, repeated or restarted
\* (run_intent, _core.py:126-132).
ResultFromWholeSession ==
    \A r \in Runs :
        run[r].at = "result" => run[r].heard = Conversation(r, run[r].asked)

\* The initiator's own envelopes are refused only for a cause: the operation
\* or the environment failed, the receiver restarted, or an earlier copy of
\* the same envelope was answered so.  However copies overlap, "this refuses
\* nothing legitimate" (_core.py:296-297).
RefusalsHaveCauses ==
    \A a \in answers :
        a.code \notin ReplyCodes \cup Causes
        => restarts > 0 \/ \E b \in answers : b.env = a.env /\ b.code \in Causes

\* Every run that waits ends, even if no timeout ever fires: every envelope
\* is answered and the rounds are bounded.
EveryRunEnds == \A r \in Runs : run[r].at = "waiting" ~> run[r].at \in Ended

\* The messages of a run that have an answer, and the last of them.
Replied(r) ==
    { n \in 1..MaxRounds : \E a \in answers : a.env = Message(r, n) /\ a.code = "REPLY" }

LastOf(ns) == IF ns = {} THEN 0 ELSE CHOOSE n \in ns : \A m \in ns : m <= n

Answered(r) == LastOf(Replied(r))

Promise == INSTANCE Exchange WITH
    at <- [r \in Runs |-> run[r].at],
    asked <- [r \in Runs |-> run[r].asked],
    held <- taken,
    answered <- [r \in Runs |-> Answered(r)]

\* Initiator, network, executor and receiver together keep the promise of
\* run_intent: in order, at most once per process life, one message at a time.
KeepsPromise == Promise!Spec
=============================================================================
