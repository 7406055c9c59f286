# AP3: models and proofs

AP3 lets two agents of different companies compute a joint function (private set
intersection is the one implemented) over A2A.  An *initiator* opens a session with a
signed intent, both sides exchange rounds, and the initiator signs the result.  This
directory holds TLA+ modules translated from the Python sources, TLC configurations that
check them on small instances, and theorems TLAPS proves for every instance.  Paths below
are relative to the repository (`src/ap3/...` is the library).

## 1. Inventory

| Component | State | Operations | Talks to |
| --- | --- | --- | --- |
| Receiving half of `_ProtocolCore` (`a2a/_core.py:216-686`) | `_session_locks`, `_intent_replay_cache`, `_round_dedupe_cache`, `_rx_sessions` | `handle_envelope` and all it calls | Operation (call), PeerClient (await) |
| Initiating half (`a2a/_core.py:117-214, 688-805`) | the local variables of one `run_intent` | `run_intent`, `_build_signed_intent`, `build_signed_result` | PeerClient (await), Operation (call) |
| `Operation` (`core/operation.py`) | `_sessions` | `start`, `receive`, `process`, `abort` | subclass hooks `on_start`, `on_process` |
| `PeerClient` (`a2a/client.py`) | `_cards`, `_peers`, `_last_force_refresh` | `resolve_peer`, `send_envelope`, `_fetch_card` | the network |
| Executor (`a2a/executor.py`) | an A2A task | `execute`, `cancel` | handler, event queue, optional LLM |
| Wire format (`a2a/wire.py`) | none | `envelope_to_part`, `envelope_from_parts` | |
| Agent, middleware (`a2a/agent.py`, `a2a/middleware.py`) | identity, role, own parameters, an HTTP server | construction, `attach_ap3_extension`, role gating, `serving` | core |
| Card and URLs (`a2a/card.py`, `a2a/_url_safety.py`) | the AgentCard | `build_privacy_agent_card`, `extract_peer_info`, `normalize_url`, `assert_safe_initiator_url` | |
| Directives (`types/directive.py`) | the directive | `validate_directive`, `is_expired`, `sign`, `verify_signature` | |
| Compatibility, discovery (`services/compatibility.py`, `services/discovery.py`) | none | pairwise scoring of commitments, a survey of two cards | peers' cards |
| Commitments (`services/commitment.py`, `types/core.py`) | a registry of signed metadata | create, search, verify | |
| Signing (`signing/`) | none | Ed25519, canonical JSON | |
| PSI (`packages/ap3-functions/.../psi`) | the sessions' states | `on_start`, `on_process`: four messages, discrete-log proof | Operation hooks |
| Playground (`examples/ap3_playground/.../server.py`) | `_HARNESS`, `_WALKS`, attributes of `_run_scenario` | `/api/run`, `/api/walkthrough/*` | two PrivacyAgents in the same process |

**How they interact.**  The A2A server runs one asyncio task per request; the executor takes
the envelope out of the message and calls `handle_envelope`, which runs under a lock per wire
session id.  Inside it, the only places where the task can lose the event loop are the lock
and `resolve_peer` (called only when a session is opened); the operation itself is
synchronous.  The initiator is a loop `start; (send; process)*` whose only suspension points
are `resolve_peer` and `send_envelope`.  A reply travels back as the artifact of the same A2A
task.  Before any of this each side judges the other by its card.  The playground keeps an
initiator and a receiver alive and lets concurrent browser requests drive them.

**What is hard here.**  Tasks interleave at the lock and at the card fetch; the registry of
locks is itself cleaned up concurrently; two caches with different lifetimes decide
between "same answer again" and "refused as a replay"; a session lives in two tables that
must be cleaned up together; messages are retried, duplicated and reordered; a restart
forgets everything but the peers' envelopes; clocks meet their boundaries; the two sides
decide the same question (compatibility, limits, spelling of URLs) at different places; the
playground's requests share agents that any of them may replace.  The list with
code lines is `hazards` in `PROJECT.json`.

**What makes each component correct.**
- *Receiver*: an intent drives the operation at most once while UTC can express its expiry; a round is idempotent; only the
  signer that opened a session moves it and only forward; one task per session; both
  session tables agree; locks do not leak; every envelope is answered.
- *Initiator*: it returns a result only if the receiver computed every reply from its own
  rounds in order; it ends, with a result or an error.
- *PeerClient*: the cache never goes back to an older card than a caller has seen; one
  forced fetch per window; key and endpoint agree; a rotated key is picked up.
- *PSI*: the result bit is membership in the list of the session asked; a session answers one
  question, its own; an honest answer is accepted.
- *Cards, compatibility, door*: both sides judge alike; the survey misses no partner; more offered
  is not less accepted; protocol bytes never reach an LLM; refusals are answers and not
  exceptions; an initiator's own message is not refused for its spelling.
- *Playground*: one pair of agents serves; what is shown as a result is one; a request's own first message
  is refused when it is replayed.

## 2. Plan and modules

| Module | Models | Checked by | Proved in |
| --- | --- | --- | --- |
| `Receiver` | receiving half of the core, session table | `MCReceiver` | `ReceiverProofs`, `LockProofs` |
| `PeerClient` | both card caches | `MCPeerClient` | `PeerClientProofs` |
| `Session`, `Exchange` | `run_intent`, network, executor, receiver; what a run promises | `MCSession` | `SessionProofs`, `ExchangeProofs` |
| `Psi` | the PSI operation, both sides | `MCPsi` | `PsiProofs` |
| `Compatibility`, `Cards`, `Door` | scoring; cards and agents; the way of a message to the core | `MCDoor` | `DoorProofs` |
| `Playground` | the playground server | `MCPlayground` | `PlaygroundProofs` |

`Session` EXTENDS `Receiver` (its actions are the receiver's side of every call) and INSTANCEs
`Exchange`.  `Door` EXTENDS `Cards`, which EXTENDS `Compatibility`.  `PeerClient` and
`Psi` stand alone: the receiver sees of the one only whether `resolve_peer` suspends and which
card it answers, of the other only whether it replies, ends or raises, and `Receiver` allows all
of these.  `Playground` has a receiver and an operation of its own, cut down to what its
requests can tell apart.  Proof modules EXTEND the module they are about; `LockProofs` also EXTENDS
`ReceiverProofs`, `SessionProofs` EXTENDS `ReceiverProofs`, and `ExchangeProofs` EXTENDS both
`SessionProofs` and `LockProofs`.

Every safety property the runs check is a theorem but one, `DuplicateGetsAnswer` (section 3).
What a next step could take, in this order: more conditions from which the hypothesis of `LockProofs`
follows, while cards are fetched; `DuplicateGetsAnswer` for operations that neither fail nor end;
`Psi` as the operation that `Session` drives; the result directive and what a third party
can check of it; the limits of message sizes across the layers (section 9).

## 3. Receiver

`Receiver.tla` is the receiving half of `_ProtocolCore` with the session table of the
Operation it drives.

### State

| Variable | Code |
| --- | --- |
| `running`, `pc`, `env`, `lock`, `card` | the asyncio tasks inside `handle_envelope`: which one has the event loop, where each stands, its local variables `envelope`, `lock`, `peer` |
| `sessionLocks`, `waiters` | `_session_locks` and the waiter queue of each `asyncio.Lock` |
| `replayCache` | `_intent_replay_cache`: accepted intents, each with the time until which it is remembered |
| `dedupeCache` | `_round_dedupe_cache`: replies under their joined keys |
| `rxSessions` | `_rx_sessions`: the pinned key and the opening phase |
| `opSessions` | `Operation._sessions`; a session's state is a function of the messages given to the operation, so their sequence stands for it |
| `now`, `restarts` | the UTC clock in ticks, process restarts |
| `returned`, `driven` | history, read by properties only |

**Scheduling.**  asyncio is cooperative.  `running = t` from the moment task `t` gets the
event loop until it suspends or returns; all actions of other tasks and of the environment
require `running = None`.  Only `Tick` may happen at any time.  So the model splits a
handler into readable actions without adding an interleaving the program does not have,
and it has those it does have: a task may wait in the lock queue or inside a card fetch
while others run.  `resolve_peer` answers from its cache without suspending, or suspends
(`card_fetch` in `Faults`).

**Locks.**  `asyncio.Lock` is modelled by its queue and by who is inside: a newcomer waits
if the lock is held or anyone waits (so the lock is fair), and between a release and the
resumption of the waiter it woke, the lock is *not* locked.  That gap matters: see finding 1.

### Actions

`RejectHeader` is the two returns before any state is touched.  `HandleEnvelope` and
`Wake` enter the locked section and sweep the reply cache.  In the section: `DedupeHit`;
for an open session `RefuseRound`, `RefuseReopening`, `ProcessRound`, `ProcessFails`,
`ProcessKeyError`; for a session to open `RefuseOpening`, `ResolvePeer`, then
`PeerVerified` or `RefreshPeer` and `RefuseSignature`, then `RefuseIntent`,
`RefuseIncompatible`, `ConfigRaises`, `Receive` or `ReceiveFails`.  `Return` is the way out
of all of them: the lock is released and, in the `finally` of `_handle_as_receiver`, perhaps
dropped from the registry.  `Cancel` is the cancellation of a suspended task, `Abort` the
application calling `Operation.abort`, `Restart` the loss of everything in memory.

The order of the checks is the code's: `IntentRefusal` is `_check_intent_consistency`,
`OpeningRefusal` and `RoundRefusal` are the checks before it.  Only the last one sweeps
the replay cache, and only success writes it, so a later refusal finds the intent spent.

### Abstractions

- An intent's signature is its `signer`; its nonce and directive id are `id`.  Verification is
  equality of keys.
- **Keys.**  Both caches find their entries by one text, joined with `|` from names a peer
  chooses.  `Pieces(name)` is the name cut at its separators, so `ReplayKey` and `RoundKey` are equal
  exactly when the joined texts are: the round of session `s1`, phase `x|msg1` has the key of session
  `s1|x`, phase `msg1`.  `HashPayload` maps a payload to what is hashed: a text and the structure whose
  canonical JSON it is have one hash (`_hash_payload`).  Nothing else about it is assumed.
- **Expiries.**  `LatestUtc` is the last time that can be written in UTC.  An intent may expire later
  (9999-12-31T23:59:59-01:00); `_parse_expiry_utc` then returns the current time (`ParseExpiry`) and the
  next sweep forgets the intent, which `is_expired` still takes for a good one.
- An intent carries at most one `flaw`, the first refusal its own fields cause.
  `NAIVE_EXPIRY` is an expiry without a time zone, which makes `is_expired` raise, and `BAD_URL` a
  participant on which `urlsplit` raises.
- What a peer may send is the constant `Envelopes`, each any number of times.  There is no
  network state: loss is an envelope never sent, duplication and reordering are free.
- The operation is any operation: it replies or not, ends the session or not, raises or not.
- `resolve_peer` may answer any card of `Cards`, whatever the URL, as a peer may rotate
  its key at any time; what `PeerClient` does to find it is section 4.
- At the instant of two equal clock readings comparisons are the code's own (`<=`, `>`).

### Bounds

`MaxTime` bounds the clock and `MaxRestarts` the restarts.  `LockIds` is a pool of lock
identities, reused when nothing refers to one: `HandleEnvelope` needs a free one, and the
pools have one more lock than tasks and open sessions can refer to, so that it never
blocks.  `DedupeTTL` is 30 minutes in the code and 1 or 2 ticks here; what matters
is that a cached reply expires before, with, and after an intent, which the expiries 0
and 2 and the clocks of the runs give; `LatestUtc` is 2 and bob's intent in `contended` expires at 3.  Two tasks are enough for the lock: one inside and one
waiting, and the third party of the race is a later arrival of the first.  One
session id suffices where sessions do not share anything; `retries` has two, and `faults` has two that
share keys.  The tasks of
`contended` and `retries` are symmetric, as nothing but equality is asked of them.

### Runs

| Run | Instance | Shows |
| --- | --- | --- |
| `faults` | 1 task, 24 envelopes, two of them with one round key and two with one hash, all outcomes, all faults but `abort`, a restart | `TypeOK`, `CachedRepliesSound`, `LockRegistryBounded`, `OnlySignerMovesSession` |
| `contended` | 2 tasks, 2 initiators on one session, an expiry that overflows, cancellation, failing operation; the lock race is reachable | `SessionsSound`, `LayersAgree`, `IntentSpentOnce` hold in spite of it |
| `retries` | 2 tasks, 2 sessions, duplicates, and a second intent for the opening message and the second round; operations that neither fail nor end | `SessionSerialized`, `DuplicateGetsAnswer`, `NoSessionReset`, `RoundRunsOnce` |
| `live` | 2 tasks, failing card fetches, cancellation, aborts | `EveryEnvelopeAnswered` under `FairSpec` |
| `lock_race` | | finding 1 (section 9) |

`retries` leaves out endings and failures on purpose: each of them lets the registry drop a
lock under a waiter, and then the four properties are lost with it (`lock_race`
shows it for the first).  They are what the lock is for, and they hold while it does its job.

`faults` has one task for the same reason: with two, a session that was opened twice at
once is moved by the second signer.  It leaves `abort` out because an application that ends a
session is no signer; `live` has it.  `live` keeps the clock still because a
task's progress does not depend on it.

Three properties have a condition because the code does less than its comments say.
`CachedRepliesSound` and `RoundRunsOnce` are about envelopes whose session id and phase hold no
separator (`Plain`), as those of `run_intent` do not: whatever shares such an envelope's key is the same
round, however others are named.  Two sessions that share a key do not share a lock, so an overlap runs both
rounds.  `IntentSpentOnce` excepts intents that expire after `LatestUtc`.  Without its condition TLC finds
`CachedRepliesSound` violated in `faults` and `IntentSpentOnce` in `contended`; section 9 has both cases.

**Fairness.**  `FairSpec` gives every task strong fairness on its own steps.  The event loop
runs ready callbacks in FIFO order, so a task that is ready again and again runs; the card
fetch has timeouts (`client.py:27`), so it ends.  Strong and not weak, since a
step of one task is disabled each time another has the loop.  Nothing is assumed of peers,
of the clock, of cancellation or of restarts.

### Proofs

`ReceiverProofs.tla` has no assumption but the named ones of `Receiver` (what an envelope
is, bounds are numbers, a name has pieces and is its only piece if there is one
(`PieceAssumption`), outcomes and faults are among the known ones, `None` is none of
the values).  There is no bound in them: any number of tasks, sessions, envelopes and cards.

- `TypeCorrect`: `Spec => []TypeOK`.  One lemma per group of actions; `ReturnTypes` is shared
  by all that return.  `TypeOK` includes what ties a task's variables together (a task that
  resolves a peer has an intent, one that opens a session has a card), without which the
  later steps do not type.
- `IntentsSpentOnce`: `Spec => IntentSpentOnce`.  The inductive invariant is
  `DrivenRecorded`: an intent that drove the operation is in the replay cache until it
  expires, if UTC can express its expiry.  `StepKinds` says that every step is quiet, a restart, or spends an intent
  that passed the replay check in the same step.  No lock is used: the property
  survives the race of finding 1, and the proof says why.
- `SessionsAreSound`: `Spec => []SessionsSound`.  Strengthened by `PeerPinned` (the card a
  task holds at `open` verified its intent); `SessionSteps` reduces all actions to four ways
  the tables change.
- `LayersAlwaysAgree`: `Spec => []LayersAgree`, over the same four ways.
- `CachedRepliesAreSound`: `Spec => []CachedRepliesSound`, strengthened by "every entry is
  filed under the key of the message it answers".  That whatever shares the key of a plain envelope
  has its session, phase and hash is `PlainKeys`: a key of three pieces is cut in one way.

`LockProofs.tla` is about what the lock is for.  `SessionSerialized`, `NoSessionReset`,
`RoundRunsOnce`, `OnlySignerMovesSession` and, with three tasks, `LockRegistryBounded` are *not* true of
every instance: finding 1 is the reason.  They are proved from one hypothesis about the behaviour,
`WaitedLocksStay`: no step drops a lock that a task waits for after it.  That is what the comment
at `_core.py:255` says of the code: "drop the entry if nothing else is waiting on it and the session
has terminated".
So the theorems say that this is the only hole: where the comment is true, the five hold, for any
number of tasks, sessions and envelopes, with every fault and every outcome (`OnlySignersMoveSessions`
without `abort`).
- `LockInv` is inductive: a task refers to the registered lock of its session (`Registered`), two
  sessions have two locks, whoever is queued is in its lock's queue (`Waits`), a lock has one
  holder, a task past both lookups finds neither a session nor, if its envelope is plain, a cached reply
  (`OpeningFree`), and
  `LockRegistryBounded`.  As far as locks go a step is the arrival of an envelope, a waiter that wakes up,
  a task that goes on inside the section, a handler's return (or cancellation), a restart, or nothing:
  `LockSteps` reduces the actions of `Receiver` to these.
- The hypothesis excludes less than it may seem.  TLC finds it true in all 1,076,762 states of
  `retries`; `contended`, cut to the steps it allows, has 85,511 states and `LockInv` holds in them.
- `KnownCardsKeepLocks`: `Spec => WaitedLocksStay` when `card_fetch` is not among the faults, that is, while
  `resolve_peer` finds every card in its cache.  Then nothing in the section suspends and nobody queues
  (`RunsThrough`), so for such a receiver the five hold without hypothesis.
- `HolderKept` needs no hypothesis: a *lock* always has one holder.  What finding 1 breaks is
  that a *session* has one lock.

Only model-checked: `EveryEnvelopeAnswered` (liveness) and `DuplicateGetsAnswer`.  The latter is a property
of `retries` alone: an operation that fails leaves its intent spent and no reply in the cache, and so
do a cancellation and a reply that expired, and then the duplicate is refused; what is proved
of this for every instance is `OwnRefusalsHaveCauses` (section 5).

## 4. PeerClient

`PeerClient.tla` is `a2a/client.py` without the sending of messages: two caches of a peer's
card, written at different lines, and the window that limits forced refreshes.  Nothing in
the code relates two URLs, so the model has one.

| Variable | Code |
| --- | --- |
| `cards`, `peers` | `_cards[url]` and `_peers[url]`; a `PeerInfo` is the card it was extracted from |
| `age` | time since `_last_force_refresh[url]`; what is longer ago than the interval is equal to it |
| `fetch` | per task, the card fetch it is suspended in and, once the peer has answered, the card on its way |
| `served` | what the peer publishes: a version and whether `extract_peer_info` accepts it |
| `returned`, `sinceForced` | history |

A call is `resolve_peer`, the same with `force_refresh`, or the `_fetch_card` of
`send_envelope`.  It answers from `peers` (`AnswerFromPeers`), from `cards`
(`AnswerFromCard`), or suspends (`StartFetch`); the peer takes its picture of the card when
it serves the request (`PeerServes`) and the answer arrives later (`FetchEnds`), or not at
all (`FetchFails`), so answers overtake each other.  `Extract` is
`extract_peer_info` with the write behind it.  `Publish` and `Tick` are the environment.
At the start `age` is anything: the default of `_last_force_refresh` is the zero of a clock
that may have been running for less than the interval.

Bounds: `MaxVersion` cards (3: old, new, newer, so that a late answer can be
between two others), `Interval` 2 ticks (one inside the window, one on its edge), two tasks.
The run has the calls `resolve` and `refresh`; `send` adds nothing that `resolve` does not do to
`cards`, and the theorems hold with it.

| Run | Shows |
| --- | --- |
| `caches` | `TypeOK`, `KeyAndAddressAgree`, `NeverOlderThanAtCall`, `FloodThrottled`, and `RotationPickedUp` under `FairSpec`: overlapping calls, fetches that fail or arrive in the wrong order, rotations at any moment |
| `poisoned` | finding 2 (section 9) |

`NeverOlderThanAtCall` is the strongest order the code keeps: a late answer *may* replace
a newer card in both caches, and a caller that started before either sees it.
`KeyAndAddressAgree` is stated for callers that resolve before they send, as `run_intent`
does; a lone `send_envelope` fills one cache only.  `RotationPickedUp` is what `client.py:83` and
`_core.py:505` promise and the code does; the docstring of the class says the opposite (section 9).

**Fairness**: time passes; every task whose window is over asks for a forced
refresh again (signatures of the new key keep failing, `_core.py:509`); a request is answered
infinitely often.  Single fetches may fail for ever in between.  Without the
second there is nothing to promise, as nothing else in the code refreshes a card.

**Proofs** (`PeerClientProofs.tla`, any number of tasks and versions, any interval, all calls):
`TypeCorrect`, `NeverOlder`, `FloodsThrottled`, `KeysAndAddressesAgree`.  `NeverOlder` rests on
`InOrder`: nobody knows a card the peer has not published, and the card a request was answered
with is not older than what its caller knew.  `FloodsThrottled` rests on `WindowCovers`: the
recorded time of a refresh is never older than the last forced fetch.  `RotationPickedUp` is
model-checked only.

## 5. Session

`Session.tla` puts both sides together.  `run_intent` is new here; the receiver is
`Receiver`, action by action (`SystemKeepsReceiver` proves it), so whatever is checked of it
holds in the composition.

| Variable | Code |
| --- | --- |
| `run[r].at`, `.asked` | where `run_intent` is and how many envelopes it has sent (`for round_idx in range(MAX_ROUNDS)`) |
| `run[r].own` | whether its own `Operation` holds the session it started |
| `run[r].heard` | what the last reply it took was computed from |
| `answers` | what `handle_envelope` returned, carried back by the executor as an artifact |
| `taken` | history: the last message of a run the receiver's operation took in this process life |

`RunIntent` is everything up to the first `send_envelope`; `HearReply`, `HearRefusal`,
`SendFails` and `SendTimesOut` are the ways that call ends, with what the loop does next:
`Ask` again, return a result, or raise.  `Deliver`, `ReceiverStep` and `ReceiverRestarts` are
the executor and the receiver, and `Complete` is the way of an answer back.

**The network** delivers a message that was sent any number of times, at any later time,
or never; an answer stays readable and need not be read.  An A2A call is a request with a
response, so an answer belongs to a message and is not reordered with others.

**The clock stands still** (`MaxTime = 0` in the runs, no `Tick` among the steps): intents
live 24 hours and cached replies 30 minutes, a run of `MAX_ROUNDS` calls with timeouts of
at most minutes is over before.  What time does to the caches is `Receiver`'s subject.

**The operation** is any operation, with one restriction: it knows the order of its own messages
(`InOrder`), as the PSI operation does, which raises on a phase its state does not
expect.  It is judged by the state it is *given*: `receive` gives it an empty one.
This matters after a restart, when a late copy of message 1 opens a session under the same
id and message 2 races it: one that came first is refused by the operation.  The core does not
check any order; for an operation that does not either, `KeepsPromise` fails (its mutant).

`Exchange.tla` is what `run_intent` promises, in a page: messages are asked one after another,
each is taken in its turn and once per process life, and the initiator goes on only from the
answer to its last one.  `KeepsPromise` is `Session` implementing it, with `held` the
messages taken and `answered` the last message with a reply.

| Run | Shows |
| --- | --- |
| `session` | `SystemTypeOK`, `ResultFromWholeSession`, `RefusalsHaveCauses`, `KeepsPromise`, `EveryRunEnds`: one run of two messages, two copies handled at a time, failures and a restart |

Bounds: one run, because runs share nothing but the lock registry and the caches, which are keyed by
session id (`retries` has two sessions); two messages are PSI's two from the
initiator, and the smallest conversation with an opening, a round, and a wrong order; two
tasks as in section 3; one restart, at any point.  `CHECK_DEADLOCK FALSE`: a run that is over
stops.

**Fairness** of `session`: the receiver's event loop as in section 3; an outstanding message
arrives (`DeliverOutstanding`) and an answer that came back is read.  Timeouts
may happen and are not counted on, so `EveryRunEnds` says that nothing but the network
makes a run wait for ever.

**Proofs** (`SessionProofs.tla`, any number of runs, messages, tasks, restarts and faults):
- `SystemKeepsReceiver`: `System => Spec`, so `ReceiverProofs` applies.
- `ResultsAreWhole`: `System => []ResultFromWholeSession`, and `SystemTypesCorrect`.  The
  invariant, `SystemInv`, says that everything stored or on its way is a whole conversation:
  a session of the operation is the first n messages of one run, a cached reply and an answer
  were computed from the first n when they are a reply to the n-th, and only messages of
  runs are being handled.  It is needed because a result is three hops from the state it was computed
  from: the session makes the cached reply, that makes the answer, that makes the result.
  `TaskStepKinds` reduces the handler's twenty actions to three: the operation takes a
  message, a cached reply is repeated, or nothing of this changes.  The lock is not used, so
  the theorem survives finding 1.
- Assumed: `RunAssumption` (the operation may raise; messages of runs are envelopes with an intent;
  `None` is no answer; expiries can be expressed in UTC), `NameAssumption` (the names `run_intent` gives
  to sessions, intents and phases hold no separator: hexadecimal ids and the phases of the operation)
  and `InOrder`, by construction of `ReceiverStep`.

`ExchangeProofs.tla`, for the same instances:
- `SystemKeepsPromise`: `System => KeepsPromise`, the refinement of `Exchange`.  Initial states map to
  the initial state; a `RunStep` is `Ask`, `Finish` or `Fail` (`RunImplements`);
  a task's step is a `Take`, with or without an answer, or a stutter; a restart is a restart.
  `ExchangeInv` carries it: a message handled was asked (`AskedFirst`), what the reply cache repeats has
  been answered (`CachedAnswered`), the operation's session of a run has as many messages as the run had
  taken (`SessionsCounted`), and once a run's first message is taken its intent is spent (`FirstSpent`).
  The last is what makes "once per process life" true without the lock: two copies may be inside
  the section at once, and the second is refused by the replay cache, which does not depend on it.
  TLC finds the invariant true on the instance of `session` (119,340 states) and with three messages and
  cancellation (4,239,041 states).
  `answered` is the greatest number of a set, so the proof needs that a set of message
  numbers has a greatest one; that is least-element reasoning (`LastExists`), without induction.
- `OwnRefusalsHaveCauses`: `System => []RefusalsHaveCauses` when every card in `Cards` carries the
  initiator's key, as in the run and as `resolve_peer` finds them while the initiator does not rotate its
  key.  (With other cards a good signature is refused, and whether that is "a cause" is
  a question about `PeerClient`.)  `RefusalInv` speaks of one process life: a spent intent has a
  cached reply or a cause (`SpentAnswered`), only a first message opens a session (`OpenedByFirst`), a
  later one is past the lookups only while its session is closed (`LateClosed`), and the copies of a first
  message share a lock until there is a reply or a cause (`FirstShares`): whoever drops a lock under a
  waiter leaves one of the two behind.  So finding 1 costs an initiator no refusal without a cause,
  and the theorem does not have the hypothesis of `LockProofs`.  TLC finds `RefusalInv` true with three
  tasks, cancellation and raising card fetches (1,308,730 states), and with three messages
  (50,881 states).

Only model-checked: `EveryRunEnds` (liveness).

## 6. Psi

`Psi.tla` is the PSI operation, both sides, in the four messages of the code: `init` (a
commitment to `sid_0`), `msg0` (`sid_1`), `msg1` (the opening and the blinded customer),
`msg2` (the customer and the list under one key, with a proof).

| Variable | Code |
| --- | --- |
| `asker`, `answerer` | `Operation._sessions` of the initiators and the receivers: `Committed`, then `Asked`; `Waiting` |
| `list` | what `config_provider` returns at the moment |
| `sent` | every message that was sent, by anybody |
| `input`, `outcome`, `replied` | history |

`OnStart`, `Ask`, `Finish` are `on_start` and the two branches of `_initiator_step`; `Reveal` and
`Reply` those of `_receiver_step`.  `AskerFails` and `AnswererFails` are every exception of a hook,
after which `Operation.process` forgets the session.  An `init` that is refused, on an empty list
for instance, saves nothing and changes nothing.

**What is delivered** is any message that was ever sent, to any session, any number of times, or one
that cannot be parsed.  So nothing of the layers below is assumed, and the properties say what the
operation's own checks are worth: the commitment, the session id inside `msg1` and `msg2`, the
proof.

**Cryptography is symbolic where it hides and computed where it counts.**  A random string is named
for the session that draws it, a hash is the tuple of what is hashed, so neither collides.  A
point is a power of the point its session id and customer hash to; two of these are unrelated, and
adding points is used with equal ones only.  The exponents are a field given as CONSTANTS by its
operations (the integers modulo 3 in the run, any field in the proofs).  So unblinding,
`big_b * r^-1`, and the verification equation of the proof are computed and not assumed.  A
list of sanctions is a set: no row is listed twice.

| Run | Instance | Shows |
| --- | --- | --- |
| `psi` | two sessions of each side, three customers, lists of 0, 2 and 3 entries with the limit at 2, that may change at any time | `TypeOK`, `ResultIsMembership`, `AnswersMatchQuestions`, `OwnAnswerAccepted` |

Two sessions of each side are the smallest with a message of another session to confuse with
one's own, on either side; sessions are symmetric and never reused, as a session
stands for its random strings.  `CHECK_DEADLOCK FALSE`: all sessions may be over.

`OwnAnswerAccepted` excepts a proof with `s = 0`, which `Scalar.from_bytes` refuses: in the field of
three elements that happens, in the code with the probability of one scalar in 2^252.

**Proofs** (`PsiProofs.tla`: any sessions, customers, finite lists, field, and Fiat-Shamir function):
`PsiTypesCorrect`, `PsiResultIsMembership`, `PsiAnswersMatchQuestions`, `PsiOwnAnswerAccepted`.
Their assumptions are the laws of a field as far as they are used (`FieldAssumption`), that the
hash gives scalars, that lists are finite, and that `None` is none of the values.  The invariant says
what every message of `sent` is: each `msg1` is the opening of its sender's session, each `msg2` is the
one answer of the session in its id, computed from that session's list for the question it took.
It is needed because a result is judged by the message alone: the initiator knows nothing of the
receiver's list but `hat_big_y`.  `MatchIsMembership` (unblinding gives the tag the receiver computed,
and tags of different customers differ) and `ProofVerifies` are the algebra.

## 7. Cards and Door

`Compatibility.tla` has the scoring as operators; `Cards.tla` how agents come to be
and what they tell each other; `Door.tla` what happens to a message until a session sees it.

| Variable | Code |
| --- | --- |
| `card[a]` | the AgentCard agent `a` serves: a sequence of extension blocks, AP3, legacy or other |
| `core[a]` | the agent that runs, if one does: its role and `own_info`, and whether it made its card |
| `task` | the A2A task being executed, or the last one |

`BuildPrivacyAgent`, `BuildMiddleware` and `AttachAp3Extension` may come in any order and again
and again, as application code may call them; the card of middleware is the
application's and may change under it.  `PeerInfo` and `DiscoveredInfo` are the two readers of a card,
which differ in the URIs they take.  `Execute`, `RefuseParts`, `PartsRaise`, `DispatchProtocol`,
`AskLLM` and `CompleteUnread` are the executor, `HandleEnvelope` the role gate and the checks, in the order of the
code, each with the answer it gives, or `RAISED` where an exception passes them all, and at last the call
of `config_provider`, which raises for the agents of `Unconfigured`; `RunIntent` is an initiator's way to its first message, which then
takes the same way as any other.  Every intent is new and every card is read as it is: what
sessions, retries and caches add is in `Receiver` and `PeerClient`.

URLs are classes: an agent's address in four spellings, the two forms of an IPv6 literal,
three kinds that `assert_safe_initiator_url` refuses, and two that are no URLs.  Of these `urlsplit` raises
on one and its `port` on the other; `normalize_url` reads the port and raises on both, the safety
check does not and raises on the first only.  Parts of a message are what `envelope_from_parts` tells apart;
one whose data is no object raises `AttributeError`, which the executor does not catch.
An enum the checks read is cut to two or three values of which each is accepted and refused somewhere.

| Run | Instance | Shows |
| --- | --- | --- |
| `agents` | two agents, four offers that disagree in one thing each, with and without a legacy block, one agent with an LLM, the same one without a usable configuration, messages that differ from a good one in one field or in their packing | `TypeOK`, `CompatibilityIsMutual`, `SurveyMissesNobody`, `OfferingMoreLosesNobody`, `ProtocolNeverReachesLLM`, `OneEnvelopePerAnswer`, `RaisesHaveCauses`, `OwnMessageAnswered`, `MirrorAgrees` |
| `ipv6` | the same, the receiver at an IPv6 literal | finding 3 (section 9) |

Two agents suffice because a card is judged by one other.  `CompatibilityIsMutual` and
`OwnMessageAnswered` are about agents whose core agrees with their card (`UpToDate`): for others the
judgement may differ, which is the hazard at `middleware.py:135`.  `MirrorAgrees` compares the
playground's audit trail with what the receiver decides: whether they pass a message, not which check
fails.  `RaisesHaveCauses` lists every reason for which an exception leaves the executor (`MayRaise`); all of
them occur in `agents`.  `OwnMessageAnswered` and the second half of `MirrorAgrees` are about receivers that
can be configured.

**Proofs** (`DoorProofs.tla`, any agents, cards, offers and messages):
- `AgentsJudgeAlike`, `SurveyIsComplete` and `LargerOffersKeepPartners` follow from what a score over the
  threshold means (`CompatibleIffFits`), which is symmetric and monotone; the five
  values of a score are compared nowhere else.
- `LLMSeesNoProtocol` and `AnswersHaveOneEnvelope` need `TaskSound /\ CoresKept`: a task is what its
  message made of it, and an agent is built once and for all.
- `DoorTyped` (`TypedInv`): with the types, an agent's block is read back from its card as it was
  written, and its own card carries its own key.  `OtherBlocks`, which `attach_ap3_extension` keeps, is a
  recursive function and not `SelectSeq`, of which the prover knows nothing; so
  `KeptExists` proves that it is defined and what its values are, from the least counterexample.
- `RaisesAreExplained`, `MirrorIsFaithful`, `OwnMessagesAnswered` go through the receiver's checks one by one, in
  their order: a check that answers `RAISED` is one of those `MayRaise` names, and no other check can be
  the first to fail with that answer.  `OwnMessagesAnswered` assumes `V6Agents = {}`, that no agent's address is an
  IPv6 literal; finding 3 shows that it fails otherwise.
- Assumed: `CardAssumption` (what was in a card before, what may be offered), `AbsentAssumption`,
  `MessageAssumption` (messages of others are messages), `NoneAssumption`.

All properties of `agents` are theorems.

## 8. Playground

`Playground.tla` is the server of the playground: requests that share one pair of agents.

| Variable | Code |
| --- | --- |
| `harness` | `_HARNESS`: who holds the lock, which pairs the exit stack serves, the current pair, `lab_key` |
| `pairs` | every pair of agents built so far: the patches on `send_envelope`, the initiator's card, the receiver's caches and sessions, the initiator's sessions |
| `posted` | `_run_scenario._attacks` |
| `walks` | `_WALKS` |
| `tap` | the closure of a run that replays, as it hangs in the chain of patched `send_envelope`s: its pair, its `first_envelope`, and what patches above it change |
| `request`, `posts` | the coroutines of the requests under way; a count that bounds them |

A request gives up the event loop where it waits for the harness lock (`TakeLock`), while the agents stop
and start (`Stop` to `Start` or `BuildFails`), and for a peer (`SendFirst`, `Deliver`, `CallFails`).  All
else runs in one step: `w.lock` of a walk is never held over an await.  The agents are `Receiver` and
`Psi` in small: what they refuse (`Refused`), remember (`Handled`) and wait for (`Takes`).
Which card of the initiator a receiver judges by is left open within what its cache and the five-second
window allow (`Views`).

**Replays.**  A run captures the first envelope that passes its closure, and the closure sits in a chain of
patches on the one `send_envelope` its pair has (`server.py:651-672`).  Until the run sends its own
message, any run, walk or finalize on the same pair may send one through it (`Pass`), changed by the patches
put in above (`Patch`).  So `FinishRunAndReplay` takes what `tap` holds, not the run's own message, and
gives it to the run's receiver without the network.  A walk replays its own first message, which goes
through the chain and the network to whatever receiver serves by then (`FinishWalkAndReplay`).
`ReplayIsRefused` is about a request's own first message; for a captured one it is false, as the run
shows when that condition is dropped (section 9).

| Run | Instance | Shows |
| --- | --- | --- |
| `playground` | three requests, two at a time, one walk; a plain lab, one with the roles exchanged, one that cannot be built; a replay scenario, a tampering attack | `TypeOK`, `OnePairServes`, `ResultFromBothRounds`, `ReplayIsRefused`, `EveryRequestAnswered` |

Three requests are a run or a walk between whose two messages another request changes the agents, and
a third that uses them.  `CHECK_DEADLOCK FALSE` because `MaxPosts` ends the story.  A start fails only
when the agents are built; a server that does not come up (`serving()`, `server.py:1378`), and a port still
in use, are left out.  Every run and walk suspends between `BeginRun` and `SendFirst`, although
`resolve_peer` may answer from its cache: the model has more interleavings than the program.

**Fairness**: a request that can go on does (the event loop; a call to a peer ends, by its timeouts), and
one that waits for the harness lock gets it (`asyncio.Lock` is first in, first out).

**Proofs** (`PlaygroundProofs.tla`, any requests, walks, labs, attacks and number of posts): `PlaygroundTyped`,
`OnePairServesAlways`, `ResultsAreEarned`, `ReplaysAreRefused`.
- `OnePairServes` needs `HarnessSound`: while somebody owns the harness lock nobody serves, and only the current
  pair serves otherwise.
- The other two follow a session number.  Until its request has sent the first message nothing bears it
  (`NumbersSound`); from then on one pair alone can have it under way (`Owned`); a reply to a round
  is evidence that the pair's receiver has seen what was signed, and a receiver that waits for the
  second message has seen the first (`EvidenceSound`).  So a result, which comes from two replies, comes from two
  messages the receiver of *one* pair took, although the pair may have been replaced between them.
- What a closure holds bears the number of a request that has sent, is a message of the pair it was
  sent by, and is the run's own where it bears the run's number (`TapSound`); chains are passed only by
  envelopes that are signed at that moment or were before (`PassKeepsTaps`).
- A request's own first message is in its receiver's memory by the time it is replayed, and clearing the
  reply cache does not take it out of there (`ReplaysSound`).
- Assumed: `FormAssumption`, `LabAssumption`, `BoundAssumption` and `NoneAssumption`.

TLC finds the invariant true in the 395,055 states of `playground`.  Only model-checked: `EveryRequestAnswered` (liveness).

## 9. Findings and other disagreements

Found by runs that TLC ends with a counterexample:

1. **The per-session lock can be lost** (`lock_race`; `a2a/_core.py:258`).  When a task
   leaves the section without an open session, `lock.locked()` is already false, although
   the next task in the queue has been woken but has not run.  The registry entry is
   dropped; an envelope that arrives after the queued task suspends in `resolve_peer` gets a new
   lock.  Both are then inside the section of one session: the operation can be run for
   both openings and the second overwrites the first.  Replay protection does not depend on
   it (`IntentsSpentOnce`), nor does what a run returns or is refused (`SystemKeepsPromise`,
   `OwnRefusalsHaveCauses`); `LockProofs` shows that all the rest hangs on this line.
2. **A card without the extension is kept** (`poisoned`; `a2a/client.py:177`).  `_fetch_card`
   caches the card before `extract_peer_info` refuses it; `resolve_peer` then raises from the
   cache, whatever the peer publishes later, until somebody forces a refresh.
3. **An agent at an IPv6 literal cannot be addressed** (`ipv6`; `a2a/card.py:58`).  `urlsplit().hostname`
   drops the brackets and `normalize_url` does not restore them, so what an initiator signs is no URL
   any more; the receiver's `normalize_url` raises `ValueError`, and the A2A task stays open.

Seen while modelling, in the models as the code has them:

- At the instant `now = exp` an intent is forgotten by the sweep (`_core.py:748`, `<=`) and not yet expired
  (`directive.py:116`, `>`), so it may run once more.
- The reply cache is to answer "this exact inbound envelope" (comment at `_core.py:268`), but its key is
  joined with `|` from a session id and a phase that may hold one (`_core.py:752-760`, `wire.py:53-55`), and
  a text and the structure it spells have one hash (`:716-722`).  Of two rounds with one key the second gets the
  answer to the first, before any check.  `CachedRepliesSound` and `RoundRunsOnce` say that nobody whose
  names hold no separator is affected.
- An expiry whose conversion to UTC overflows counts as now (`_parse_expiry_utc`, `_core.py:724-731`), while
  `is_expired` compares it as it is: such an intent is forgotten at the next sweep and can drive the operation
  again.  `IntentSpentOnce` excepts it.
- The docstring of `PeerClient` (`client.py:40-42`) says "if a peer rotates its AP3 public key, restart the
  agent. That is intentional"; `client.py:30-35`, `client.py:79-84`, `_core.py:505` and the code pick a rotated
  key up without one.  `RotationPickedUp` states what the code does.
- Exceptions that nothing between the checks and the A2A SDK catches: a part whose data is no object
  (`wire.py:104`, `AttributeError`), an expiry without a time zone (`directive.py:116`, `TypeError`), a receiver
  address `normalize_url` cannot read (`_core.py:470`), an initiator address on which `urlsplit` raises
  (`_url_safety.py:49`, a `ValueError` that is no `UnsafeInitiatorURL`), a card that cannot be resolved
  (`_core.py:506`), and `config_provider` (`_core.py:533`).  `RaisesHaveCauses` has this list.
- An envelope of a session the receiver no longer holds takes the opening path whatever its phase
  (`_core.py:285`); `docs/security.md:86` and `docs/extension.md:518` promise `SESSION_EXPIRED`.
- `run_intent` raises without `Operation.abort` (`_core.py:187`) and leaves the session of the
  initiator's operation behind; `docs/sdk/troubleshooting.md:250` says sessions are removed.
- The limits of two layers do not meet: a list may have 1,000,000 entries (`ffi.py:27`), an envelope 4 MiB
  (`wire.py:30`).  An answer has 32 bytes per entry, 4/3 of that in base64, so from about 98,000
  entries on the initiator's `envelope_from_parts` raises, after the receiver has ended its session.
- `attach_ap3_extension` keeps a legacy block (`middleware.py:84`), and discovery reads the first of
  both (`discovery.py:16`); it validates neither roles nor operations.
- The comment at `agent.py:128` says that published commitments are signed by the key the card
  advertises; one that comes signed, from a registry with its own key, is published as it is.
- An unknown `update_frequency` counts as daily (`commitment.py:69`), which is acceptable freshness.
- The playground's patches of `send_envelope` and of the initiator's card are never undone
  (`server.py:569`, `:651`), so that an attack stays on for later runs on the same agents.
- For the same reason a run that is to replay its first message may capture another request's
  (`server.py:655-672`) and replay that (`:722`).  If the receiver has not taken it yet, it is accepted;
  the playground's `README.md:34` says that a replay "resends the same first-round intent+msg1".

## 10. Out of reach, and not modelled

TLAPS proves no liveness under fairness, and the induction theorems of its library cannot be used.
Where a proof needs induction over a number (the last message of a run, `OtherBlocks`) it takes the
least counterexample of a well-founded order instead.  So `EveryEnvelopeAnswered`,
`RotationPickedUp`, `EveryRunEnds` and `EveryRequestAnswered` stay with TLC, and so does
`DuplicateGetsAnswer` (section 3).  No module declares a `RECURSIVE` operator; the one recursive
function, `OtherBlocks` of `Cards`, is used in the proofs by its type alone.

Not modelled, with the reason beside each component in `PROJECT.json`:
- Ed25519, SHA-256 and canonical JSON: abstracted for good to equality of what was signed or hashed.
- The result directive: one straight line that builds and signs it; nothing in the library reads one.
- `search_commitments` and `verify_commitment_integrity`: filters over single records.  Caller-supplied
  `compatibility_scorer`: any function, so nothing can be said of it.  Operations that break the contract of
  `Operation`, for instance by results that are no `OperationResult`.
- HTTP servers (uvicorn, the A2A SDK) beyond what the executor does with a task.
- In the playground: saved runs, previews of cards and scores, rendering.
- The other examples: scripts around one `run_intent`.
