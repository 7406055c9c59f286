-------------------------------- MODULE Door --------------------------------
(***************************************************************************)
(* What an agent does with an incoming A2A message: PrivacyAgentExecutor   *)
(* takes the AP3 envelope out of it (a2a/wire.py) or hands it to the LLM,  *)
(* the agent's role lets the envelope in, and the core checks its intent   *)
(* one field after the other.  With Cards it also tells what becomes of    *)
(* the message an agent sends with run_intent.                             *)
(*                                                                         *)
(* Sessions, retries, the locks and the caches behind the checks are in    *)
(* Receiver and PeerClient: here every intent is new, and a card is read   *)
(* as it is.  All agents run PSI.                                          *)
(***************************************************************************)
EXTENDS Cards

CONSTANTS
    LLMAgents,      \* agents with an llm_executor
    V6Agents,       \* agents whose card_url has a public IPv6 literal
    Unconfigured,   \* agents whose receiver_config_provider raises
    Messages        \* messages that reach agents without a run_intent

VARIABLE task       \* the A2A task being executed, or the last one

vars == <<card, core, task>>

-----------------------------------------------------------------------------
(* URLs.  A form is a way to write an agent's address; the other ones have *)
(* no agent behind them.                                                   *)

Spellings == {"canonical", "upper_case", "trailing_slash", "default_port"}
Address   == {"v6_brackets", "v6_bare"} \cup Spellings
Refused   == {"empty", "no_host", "private"}
NotAUrl   == {"bad_port", "unparsable"}
Nowhere   == Refused \cup NotAUrl
Url       == [of : Agents, form : Address] \cup [of : {None}, form : Nowhere]
At(a, form) == [of |-> a, form |-> form]

\* Variant for the checks: the default port is left in place.
NormalizeKeepingPort(url) ==
    CASE url.form \in {"upper_case", "trailing_slash"} -> At(url.of, "canonical")
      [] url.form = "v6_brackets" -> At(url.of, "v6_bare")
      [] url.form \in {"v6_bare"} \cup NotAUrl -> None
      [] OTHER -> url

\* normalize_url; None where urlsplit or its port raises ValueError.  urlsplit's
\* hostname has no brackets any more, and they are not put back.
Normalize(url) ==
    CASE url.form \in Spellings -> At(url.of, "canonical")
      [] url.form = "v6_brackets" -> At(url.of, "v6_bare")
      [] url.form \in {"v6_bare"} \cup NotAUrl -> None
      [] OTHER -> url

\* assert_safe_initiator_url without allow_private: what it refuses, and where
\* its urlsplit raises a ValueError that is no UnsafeInitiatorURL.  The port is
\* not looked at, and a bare IPv6 literal passes: urlsplit takes the part before
\* its first colon for the host.
UnsafeInitiatorUrl(url) == url.form \in Refused
InitiatorUrlRaises(url) == url.form = "unparsable"

CardUrl(a) == At(a, IF a \in V6Agents THEN "v6_brackets" ELSE "trailing_slash")
SelfUrl(a) == Normalize(CardUrl(a))

-----------------------------------------------------------------------------
(* Parts of a message.                                                     *)

Oversized == {"huge", "unmeasurable"}
EnvelopeParts == {"envelope", "wrong_schema"} \cup Oversized
Parts == {"text", "data", "no_object"} \cup EnvelopeParts

Found(parts) == SelectSeq(parts, LAMBDA p : p \in EnvelopeParts)

\* Variants for the checks: more than one envelope is no envelope; the first
\* one counts.
EnvelopeOnlyIfAlone(parts) ==
    CASE \E n \in DOMAIN parts : parts[n] = "no_object" -> "raised"
      [] Len(Found(parts)) # 1 -> "none"
      [] Found(parts) = <<"envelope">> -> "envelope"
      [] OTHER -> "refused"
EnvelopeFirst(parts) ==
    CASE \E n \in DOMAIN parts : parts[n] = "no_object" -> "raised"
      [] Found(parts) = <<>> -> "none"
      [] Found(parts) # <<>> /\ Head(Found(parts)) = "envelope" -> "envelope"
      [] OTHER -> "refused"

\* The data of some part is a list, a text, a number or null, and has no `get'.
NoObject(parts) == \E n \in DOMAIN parts : parts[n] = "no_object"

\* envelope_from_parts: "refused" where it raises ValueError, "raised" where it
\* raises AttributeError, whatever the other parts are.
EnvelopeFromParts(parts) ==
    CASE NoObject(parts) -> "raised"
      [] ~NoObject(parts) /\ Found(parts) = <<>> -> "none"
      [] ~NoObject(parts) /\ Found(parts) = <<"envelope">> -> "envelope"
      [] OTHER -> "refused"

-----------------------------------------------------------------------------
(* Intents.                                                                *)

Answers == {"REPLY", "SILENCE", "RAISED", "MISSING_INTENT", "INVALID_INTENT",
            "UNSUPPORTED_WIRE_VERSION", "WRONG_RECEIVER", "INVALID_INITIATOR_URL",
            "BAD_SIGNATURE", "INTENT_SESSION_MISMATCH", "INTENT_REJECTED",
            "INTENT_PAYLOAD_MISMATCH", "INCOMPATIBLE_PEER"}

Intent == [signer : Agents \cup {"stranger"}, session : {"own", "other"},
           initiator : Url, receiver : Url, shape : {"valid", "invalid"},
           expiry : {"ahead", "past", "garbage", "naive"},
           nonce : {"given", "blank"}, payloadHash : {"payload", "other", "short"}]
Message == [parts : Seq(Parts), header : {"ap3", "foreign_operation", "unsupported_version"},
            intent : Intent \cup {None}, own : BOOLEAN]

\* Only run_intent sends messages of its own.
ASSUME MessageAssumption == \A message \in Messages : message \in Message /\ ~message.own
ASSUME NoneAssumption == None \notin Intent \cup Url \cup Answers

\* _build_signed_intent, and the message it goes out with.
SignedIntent(a, peerUrl) ==
    [signer |-> a, session |-> "own", initiator |-> SelfUrl(a),
     receiver |-> Normalize(peerUrl), shape |-> "valid", expiry |-> "ahead",
     nonce |-> "given", payloadHash |-> "payload"]
OwnMessage(a, peerUrl) ==
    [parts |-> <<"envelope">>, header |-> "ap3", intent |-> SignedIntent(a, peerUrl), own |-> TRUE]

\* validate_directive; comparing a naive expiry with the clock raises
\* TypeError, which is_expired does not catch.
DirectiveRaises(i) == i.expiry = "naive"
DirectiveValid(i) ==
    i.expiry = "ahead" /\ i.nonce = "given" /\ i.payloadHash # "short"

\* The card of the initiator, or None where resolve_peer raises.
Peer(i) ==
    IF i.initiator.of = None \/ i.initiator.form = "v6_bare"
    THEN None ELSE PeerInfo(card[i.initiator.of])

\* The checks of one envelope in the order of the code, each with the answer
\* where it fails; "RAISED" is an exception that nothing catches.
DoorChecks(e) == <<
    <<e.header # "ap3",            IF e.header = "foreign_operation" THEN "SILENCE"
                                   ELSE "UNSUPPORTED_WIRE_VERSION">>,
    <<e.intent = None,             "MISSING_INTENT">> >>

AddressChecks(b, i) == <<
    <<i.shape = "invalid",         "INVALID_INTENT">>,
    <<"empty" \in {i.initiator.form, i.receiver.form}, "INVALID_INTENT">>,
    <<Normalize(i.receiver) = None, "RAISED">>,
    <<Normalize(i.receiver) # SelfUrl(b), "WRONG_RECEIVER">>,
    <<InitiatorUrlRaises(i.initiator), "RAISED">>,
    <<UnsafeInitiatorUrl(i.initiator), "INVALID_INITIATOR_URL">>,
    <<Peer(i) = None,              "RAISED">>,
    <<Peer(i) # None /\ i.signer # Peer(i).key, "BAD_SIGNATURE">> >>

\* Variant for the checks: the payload is not bound.
ConsistencyChecksUnbound(i) == <<
    <<i.session = "other",         "INTENT_SESSION_MISMATCH">>,
    <<DirectiveRaises(i),          "RAISED">>,
    <<~DirectiveValid(i),          "INTENT_REJECTED">> >>

ConsistencyChecks(i) == <<
    <<i.session = "other",         "INTENT_SESSION_MISMATCH">>,
    <<DirectiveRaises(i),          "RAISED">>,
    <<~DirectiveValid(i),          "INTENT_REJECTED">>,
    <<i.payloadHash # "payload",   "INTENT_PAYLOAD_MISMATCH">> >>

\* Variant for the checks: nothing catches what _assert_compatible raises.
CompatibilityCheckUncaught(b, i) ==
    << <<Peer(i) # None /\ ~Accepts(b, Peer(i)), "RAISED">> >>

CompatibilityCheck(b, i) ==
    << <<Peer(i) # None /\ ~Accepts(b, Peer(i)), "INCOMPATIBLE_PEER">> >>

FirstFailure(checks) ==
    LET failed == { n \in DOMAIN checks : checks[n][1] }
    IN  IF failed = {} THEN "REPLY" ELSE checks[CHOOSE n \in failed : \A m \in failed : n <= m][2]

\* The configuration of the operation is asked for when every check has passed.
ConfigCheck(b) == << <<b \in Unconfigured, "RAISED">> >>

\* handle_envelope of agent b; only a receiver looks at the envelope.
HandleEnvelope(b, e) ==
    IF core[b].role # "ap3_receiver" THEN "SILENCE"
    ELSE IF FirstFailure(DoorChecks(e)) # "REPLY" THEN FirstFailure(DoorChecks(e))
    ELSE FirstFailure(AddressChecks(b, e.intent) \o ConsistencyChecks(e.intent)
                      \o CompatibilityCheck(b, e.intent) \o ConfigCheck(b))

-----------------------------------------------------------------------------
(* A2A tasks.  `reader' is who was given the message, `answer' what the    *)
(* handler made of it.                                                     *)

\* execute, up to where the working status is published.
Execute(b, message) ==
    /\ core[b] # None
    /\ task = None
    /\ task' = [to |-> b, message |-> message, state |-> "working",
                reader |-> "nobody", answer |-> None]
    /\ UNCHANGED cardVars

Taken(parts) ==
    /\ task # None
    /\ task.state = "working"
    /\ task.answer = None
    /\ EnvelopeFromParts(task.message.parts) = parts

RefuseParts ==
    /\ Taken("refused")
    /\ task' = [task EXCEPT !.state = "failed"]
    /\ UNCHANGED cardVars

\* An exception that execute does not catch leaves the task as it is; the SDK
\* around the executor decides what the peer sees.
PartsRaise ==
    /\ Taken("raised")
    /\ task' = [task EXCEPT !.answer = "RAISED"]
    /\ UNCHANGED cardVars

\* Nor does it catch an exception of the handler.
DispatchProtocol ==
    /\ Taken("envelope")
    /\ LET answer == HandleEnvelope(task.to, task.message)
       IN  task' = [task EXCEPT !.reader = "core", !.answer = answer,
                                !.state = IF answer = "RAISED" THEN @ ELSE "completed"]
    /\ UNCHANGED cardVars

AskLLM ==
    /\ Taken("none")
    /\ task.to \in LLMAgents
    /\ task' = [task EXCEPT !.reader = "llm", !.state = "completed"]
    /\ UNCHANGED cardVars

CompleteUnread ==
    /\ Taken("none")
    /\ task.to \notin LLMAgents
    /\ task' = [task EXCEPT !.state = "completed"]
    /\ UNCHANGED cardVars

\* What follows does not depend on a task that is over; one is followed at a
\* time, and closed before anything else happens.
Ended == task # None /\ (task.state # "working" \/ task.answer = "RAISED")

Close ==
    /\ Ended
    /\ task' = None
    /\ UNCHANGED cardVars

\* run_intent of a against b, whose address it was given in some spelling: the
\* role gate, the card, the compatibility check, and the first message.
RunIntent(a, b, peerUrl) ==
    /\ core[a] # None
    /\ core[a].role = "ap3_initiator"
    /\ PeerInfo(card[b]) # None
    /\ Accepts(a, PeerInfo(card[b]))
    /\ Execute(b, OwnMessage(a, peerUrl))

-----------------------------------------------------------------------------

Init == CardInit /\ task = None

Urls(b) == IF b \in V6Agents THEN {CardUrl(b)} ELSE { At(b, form) : form \in Spellings }

Next ==
    \/ ~Ended /\ CardStep /\ UNCHANGED task
    \/ \E b \in Agents, message \in Messages : Execute(b, message)
    \/ \E a, b \in Agents : \E url \in Urls(b) : RunIntent(a, b, url)
    \/ RefuseParts
    \/ PartsRaise
    \/ DispatchProtocol
    \/ AskLLM
    \/ CompleteUnread
    \/ Close

Spec == Init /\ [][Next]_vars

-----------------------------------------------------------------------------
(* Properties.                                                             *)

Task == [to : Agents, message : Message, state : {"working", "completed", "failed"},
         reader : {"nobody", "core", "llm"}, answer : Answers \cup {None}]

\* The type of every variable.
TypeOK ==
    /\ CardTypeOK
    /\ task = None \/ task \in Task

\* "Protocol bytes never reach an LLM" (wire.py:77-79), however a message is
\* put together.
ProtocolNeverReachesLLM ==
    task # None /\ task.reader = "llm" => Found(task.message.parts) = <<>>

\* A message that carries several envelopes, or one that cannot be read, is
\* never answered by the core, and only a receiver answers (wire.py:92-97,
\* agent.py:245-254).
OneEnvelopePerAnswer ==
    task # None /\ task.answer \notin {None, "SILENCE", "RAISED"}
    => /\ Len(Found(task.message.parts)) = 1
       /\ core[task.to].role = "ap3_receiver"

\* Why an exception may leave the executor: a part that is no object, an expiry
\* without time zone, a receiver's address that cannot be normalised, an
\* initiator's that cannot be parsed or has no readable card behind it, or the
\* agent's own configuration.
MayRaise(b, message) ==
    \/ NoObject(message.parts)
    \/ /\ message.intent # None
       /\ \/ message.intent.expiry = "naive"
          \/ Normalize(message.intent.receiver) = None
          \/ InitiatorUrlRaises(message.intent.initiator)
          \/ Peer(message.intent) = None
          \/ b \in Unconfigured

\* An exception leaves a task open for these causes and no other: every refusal
\* of the parts, the role and the checks is answered (executor.py:90-101,
\* _core.py:451-531).
RaisesHaveCauses ==
    [][ task # None /\ task.answer = None /\ task' # None /\ task'.answer = "RAISED"
        => MayRaise(task.to, task.message) ]_vars

\* An initiator's message is answered by the receiver it was meant for, in
\* whatever spelling its address was given, unless a card has changed since
\* and the initiator itself would not run any more, or the receiver cannot be
\* configured (_core.py:704-707, card.py:46-51).
OwnMessageAnswered ==
    [][ LET i == task.message.intent
        IN  /\ DispatchProtocol
            /\ task.message.own
            /\ core[task.to].role = "ap3_receiver"
            /\ task.to \notin Unconfigured
            /\ UpToDate(i.signer) /\ UpToDate(task.to)
            /\ Accepts(i.signer, PeerInfo(card[task.to]))
            => task'.answer = "REPLY" ]_vars

\* _receiver_checks_from_intent of the playground (server.py:145-222): the
\* audit trail it shows beside a run.
MirroredChecks(message, receiverUrl, initiatorKey) ==
    LET i == message.intent
    IN  /\ i # None
        /\ i.shape = "valid"
        /\ i.session = "own"
        /\ Normalize(i.receiver) = Normalize(receiverUrl)
        /\ i.signer = initiatorKey
        /\ ~DirectiveRaises(i) /\ DirectiveValid(i)
        /\ i.payloadHash = "payload"

NotMirrored == {"INVALID_INITIATOR_URL", "INCOMPATIBLE_PEER"}

\* "Mirror the receiver-side AP3 checks" (server.py:151): what a receiver accepts
\* passes the mirror, and what passes it, where the initiator's card can be read
\* and the receiver is configured, is refused only for what it does not look at.
MirrorAgrees ==
    [][ /\ DispatchProtocol
        /\ task.message.header = "ap3"
        /\ core[task.to].role = "ap3_receiver"
        => LET e == task.message
               mirrored(key) == MirroredChecks(e, CardUrl(task.to), key)
           IN  /\ task'.answer = "REPLY" => mirrored(Peer(e.intent).key)
               /\ /\ e.intent # None /\ Peer(e.intent) # None
                  /\ task.to \notin Unconfigured
                  /\ mirrored(Peer(e.intent).key)
                  => task'.answer \in {"REPLY"} \cup NotMirrored ]_vars

=============================================================================
