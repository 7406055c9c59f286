---------------------------- MODULE Playground -----------------------------
(***************************************************************************)
(* The playground server (examples/ap3_playground, server.py): browser     *)
(* requests drive one initiator and one receiver, which live in _HARNESS   *)
(* across requests and are started again when a request asks for another   *)
(* lab configuration.                                                      *)
(*                                                                         *)
(* A request is a coroutine; it gives up the event loop where it waits for *)
(* the harness lock, for the agents to stop or start, or for a peer.  The  *)
(* lock of a walk is never held over an await, so what runs under it is    *)
(* part of the step around it.  Operation and receiver are told as far as  *)
(* the server relies on them: Psi and Receiver of this project have them   *)
(* in full.  A session stands for its wire and its internal id, which the  *)
(* server always stores together.                                          *)
(***************************************************************************)
EXTENDS Naturals, Sequences, FiniteSets

CONSTANTS
    Requests,       \* browser requests that may be under way at one time
    Walks,          \* walk ids
    Labs,           \* lab configurations
    BrokenLabs,     \* ... whose agents cannot be built (unknown enum or role)
    SwappedLabs,    \* ... that exchange the roles of the two agents
    RunForms,       \* what the bodies of /api/run ask for besides the lab
    SendAttacks,    \* ... and those of /api/walkthrough/send_msg1
    MaxPosts,       \* bound on the number of requests
    None            \* the absent value

Tamperings == {"session_id", "participants", "payload"}
Attacks    == Tamperings \cup {"compat_mismatch", "replay"}

ASSUME FormAssumption ==
    /\ RunForms \subseteq [scenario : SUBSET Attacks, attacks : SUBSET Attacks]
    /\ SendAttacks \subseteq SUBSET (Tamperings \cup {"replay"})
ASSUME LabAssumption == BrokenLabs \subseteq Labs /\ SwappedLabs \subseteq Labs \ BrokenLabs
ASSUME BoundAssumption == MaxPosts \in Nat

Sessions  == 1..MaxPosts
Envelopes == [pair : Nat \ {0}, sid : Sessions, round : 1..2, altered : SUBSET Tamperings]
Replies   == [sid : Sessions, round : 1..2, ok : BOOLEAN]
Pairs     == [lab : Labs \ BrokenLabs, tampers : SUBSET Tamperings,
              card : {"PSI", "PIR"}, view : {None, "PSI", "PIR"}, open : SUBSET Sessions,
              seen : SUBSET Envelopes, cached : SUBSET Envelopes,
              waits : [Sessions -> 0..2], results : SUBSET Sessions]
WalkState == [known : BOOLEAN, lab : Labs \cup {None}, sid : Sessions \cup {None},
              first : Envelopes \cup {None}, attacks : SUBSET Attacks,
              reply : Replies \cup {None}]
Stages    == {"ensure", "start", "resolve", "sending", "answered", "replaying", "replayed"}
Locals    == [kind : {"run", "send", "finalize"}, at : Stages, lab : Labs \cup {None},
              walk : Walks \cup {None}, attacks : SUBSET Attacks, pair : Nat,
              sid : Sessions, first : Envelopes \cup {None}, sent : Envelopes \cup {None},
              reply : Replies \cup {None}]
Taps      == [pair : Nat, first : Envelopes \cup {None}, outer : SUBSET Tamperings]

ASSUME NoneAssumption ==
    /\ None \notin Requests \cup Sessions \cup Envelopes \cup Replies
    /\ None \notin WalkState \cup Locals \cup Taps

VARIABLES
    harness,        \* _HARNESS: who holds the lock, the pairs its exit stack
                    \* serves, the current pair (0 for none) and its lab_key
    pairs,          \* every pair of agents built so far, the n-th named n
    posted,         \* the function attribute _run_scenario._attacks
    walks,          \* _WALKS; Gone once a walk is swept
    request,        \* per request: where it is and its local variables
    tap,            \* per run that replays: the closure it has put into the
                    \* chain of patched send_envelopes of its pair, with its
                    \* first_envelope and what later patches change before it
    posts           \* requests so far; a session is numbered like its request

vars == <<harness, pairs, posted, walks, request, tap, posts>>

\* An envelope: who signed it, its session and round (msg0 or msg1), and what
\* was changed after it was signed.
Envelope(pair, sid, round, altered) ==
    [pair |-> pair, sid |-> sid, round |-> round, altered |-> altered]
Reply(e, ok) == [sid |-> e.sid, round |-> e.round, ok |-> ok]

\* A pair: `tampers' is what the chain of patched send_envelopes changes,
\* `card' the operation on the initiator's card and `view' the receiver's
\* cached copy of it; the receiver's open sessions, replay cache and dedupe
\* cache; the round every session of the initiator's operation waits for (0 if
\* there is none), and the sessions a result was shown for.
NewPair(lab) ==
    [lab |-> lab, tampers |-> {}, card |-> "PSI", view |-> None, open |-> {},
     seen |-> {}, cached |-> {}, waits |-> [s \in Sessions |-> 0], results |-> {}]

NewWalk == [known |-> TRUE, lab |-> None, sid |-> None, first |-> None,
            attacks |-> {}, reply |-> None]

\* Requests under way go on writing to a walk nobody can read any more.
Gone == [NewWalk EXCEPT !.known = FALSE]
Update(w, walk) == walks' = IF walks[w].known THEN [walks EXCEPT ![w] = walk] ELSE walks

Init ==
    /\ harness = [owner |-> None, serves |-> {}, current |-> 0, lab |-> None]
    /\ pairs = <<>>
    /\ posted = {}
    /\ walks = [w \in Walks |-> None]
    /\ request = [q \in Requests |-> None]
    /\ tap = [q \in Requests |-> None]
    /\ posts = 0

Step(q, at) == request' = [request EXCEPT ![q].at = at]
Answer(q)   == /\ request' = [request EXCEPT ![q] = None]
               /\ tap' = [tap EXCEPT ![q] = None]
At(q, at)   == request[q] # None /\ request[q].at = at

Post(q, fields) ==
    /\ request[q] = None
    /\ posts < MaxPosts
    /\ posts' = posts + 1
    /\ request' = [request EXCEPT ![q] = fields]

Local(kind, at, lab, walk, attacks) ==
    [kind |-> kind, at |-> at, lab |-> lab, walk |-> walk, attacks |-> attacks,
     pair |-> 0, sid |-> posts + 1, first |-> None, sent |-> None, reply |-> None]

\* The closures that have captured nothing yet, in the chain of pair p.
Listens(o, p) == tap[o] # None /\ tap[o].pair = p /\ tap[o].first = None

\* Initiator p sends e through its chain, the latest patch first: whatever
\* envelope of whatever request comes first is captured.
Pass(p, e) ==
    tap' = [o \in Requests |->
              IF Listens(o, p)
              THEN [tap[o] EXCEPT !.first = [e EXCEPT !.altered = @ \cup tap[o].outer]]
              ELSE tap[o]]

\* Run q patches the send_envelope of pair p, and puts its closure into the
\* chain if it is to replay.
Patch(q, p, changes, replays) ==
    tap' = [o \in Requests |->
              IF o = q THEN IF replays THEN [pair |-> p, first |-> None, outer |-> {}] ELSE None
              ELSE IF Listens(o, p) THEN [tap[o] EXCEPT !.outer = @ \cup changes]
              ELSE tap[o]]

-----------------------------------------------------------------------------
(* /api/run and /api/walkthrough/*: the synchronous heads of the handlers.  *)

\* run_api stores the attacks in an attribute of _run_scenario and calls it;
\* _run_scenario reads the lab at once.
PostRun(q, lab, form) ==
    /\ Post(q, Local("run", "ensure", lab, None, form.scenario))
    /\ posted' = form.attacks
    /\ UNCHANGED <<harness, pairs, walks, tap>>

PostReset(w) ==
    /\ walks[w] = None
    /\ walks' = [walks EXCEPT ![w] = NewWalk]
    /\ UNCHANGED <<harness, pairs, posted, request, tap, posts>>

\* _get_walk.
Known(w) == walks[w] # None /\ walks[w].known

\* _sweep_walks, run by any request after half an hour.
ForgetWalk(w) ==
    /\ Known(w)
    /\ walks' = [walks EXCEPT ![w] = Gone]
    /\ UNCHANGED <<harness, pairs, posted, request, tap, posts>>

PostSend(q, w, lab, attacks) ==
    /\ Known(w)
    /\ Post(q, Local("send", "ensure", lab, w, attacks))
    /\ UNCHANGED <<harness, pairs, posted, walks, tap>>

-----------------------------------------------------------------------------
(* What follows _ensure_agents without a suspension, with pair p of ps.     *)

\* _run_scenario goes on: the attacks are read only now, the card is changed
\* and send_envelope is patched, none of which is ever undone; run_intent
\* refuses an agent that has the receiver's role.
BeginRun(q, p, ps) ==
    LET r == request[q]
        attacks == r.attacks \cup posted
    IN  /\ r.kind = "run"
        /\ pairs' = [ps EXCEPT
               ![p].tampers = @ \cup (attacks \cap Tamperings),
               ![p].card = IF "compat_mismatch" \in attacks THEN "PIR" ELSE @]
        /\ Patch(q, p, attacks \cap Tamperings,
                 "replay" \in attacks /\ r.lab \notin SwappedLabs)
        /\ request' = [request EXCEPT
               ![q] = IF r.lab \in SwappedLabs THEN None
                      ELSE [@ EXCEPT !.at = "resolve", !.pair = p, !.attacks = attacks]]
        /\ UNCHANGED walks

\* send_msg1 goes on: a walk that changes its lab forgets its old session.
BeginSend(q, p, ps) ==
    LET r == request[q] IN
    /\ r.kind = "send"
    /\ IF walks[r.walk].lab = r.lab
         THEN UNCHANGED walks
         ELSE Update(r.walk, [NewWalk EXCEPT !.lab = r.lab])
    /\ request' = [request EXCEPT ![q].at = "resolve", ![q].pair = p]
    /\ pairs' = ps
    /\ UNCHANGED tap

Begin(q, p, ps) == BeginRun(q, p, ps) \/ BeginSend(q, p, ps)

-----------------------------------------------------------------------------
(* _ensure_agents, under the harness lock.                                  *)

Reusable(lab) == harness.current # 0 /\ harness.lab = lab

\* Variant for the checks: the lock is not taken.
LockIgnored == TRUE

LockFree == harness.owner = None

Reuse(q) ==
    /\ At(q, "ensure")
    /\ LockFree
    /\ Reusable(request[q].lab)
    /\ Begin(q, harness.current, pairs)
    /\ UNCHANGED <<harness, posted, posts>>

\* The old agents are stopped; stop and start suspend, with the lock held.
Stop(q) ==
    /\ At(q, "ensure")
    /\ LockFree
    /\ ~Reusable(request[q].lab)
    /\ harness' = [harness EXCEPT !.owner = q, !.serves = {}]
    /\ Step(q, "start")
    /\ UNCHANGED <<pairs, posted, walks, tap, posts>>

\* The harness when building the agents raises: `async with' frees the lock,
\* current and lab keep their old values.  Variants for the checks: the lock
\* is not freed; the agents are counted before they are built.
HarnessAfterFailureCounted == [harness EXCEPT !.owner = None, !.current = Len(pairs) + 1]
HarnessAfterFailureLocked == harness
HarnessAfterFailure == [harness EXCEPT !.owner = None]

BuildFails(q) ==
    /\ At(q, "start")
    /\ request[q].lab \in BrokenLabs
    /\ harness' = HarnessAfterFailure
    /\ Answer(q)
    /\ UNCHANGED <<pairs, posted, walks, posts>>

Start(q) ==
    LET new == Len(pairs) + 1 IN
    /\ At(q, "start")
    /\ request[q].lab \notin BrokenLabs
    /\ harness' = [owner |-> None, serves |-> harness.serves \cup {new},
                   current |-> new, lab |-> request[q].lab]
    /\ Begin(q, new, Append(pairs, NewPair(request[q].lab)))
    /\ UNCHANGED <<posted, posts>>

-----------------------------------------------------------------------------
(* The messages of a run or a walk.                                         *)

\* The peer is resolved: operation.start opens a session, the first envelope
\* is signed and sent.  A walk tampers with it on its own account; both pass
\* through whatever send_envelope was patched with.
SendFirst(q) ==
    LET r   == request[q]
        own == IF r.kind = "send" THEN r.attacks \cap Tamperings ELSE {}
        env == Envelope(r.pair, r.sid, 1, own)
    IN  /\ At(q, "resolve")
        /\ pairs' = [pairs EXCEPT ![r.pair].waits[r.sid] = 1]
        /\ request' = [request EXCEPT ![q].at = "sending", ![q].first = env,
                           ![q].sent = [env EXCEPT !.altered = @ \cup pairs[r.pair].tampers]]
        /\ Pass(r.pair, env)
        /\ UNCHANGED <<harness, posted, walks, posts>>

\* What receiver n of pair p refuses: an envelope of other agents or changed
\* since it was signed; an opening message it has seen, or of an initiator
\* whose card names another operation; a second message without a session.
Refused(n, p, e, view) ==
    \/ e.pair # n \/ e.altered # {}
    \/ e.round = 1 /\ (e \in p.seen \/ view # "PSI")
    \/ e.round = 2 /\ e.sid \notin p.open

\* The cards the receiver may judge by: the cached one, or the one there is; a
\* signature that does not fit has it fetched again, but not within five seconds
\* of the last time.  The participants are looked at before.
Views(n, p, e) ==
    IF "participants" \in e.altered \/ (e.pair = n /\ p.view # None) THEN {p.view}
    ELSE IF p.view = None THEN {p.card}
    ELSE {p.view, p.card}

\* Receiver n handles e, judging by view: its pair afterwards, and whether the
\* reply is one.
Handled(n, p, e, view) ==
    LET ok == ~Refused(n, p, e, view)
        spent == e.pair = n /\ e.altered = {} /\ (e.round = 1 \/ e.sid \in p.open)
    IN  IF e \in p.cached THEN [pair |-> p, ok |-> TRUE]
        ELSE [ok |-> ok,
              pair |-> [p EXCEPT !.view = view,
                                 !.seen = IF spent THEN @ \cup {e} ELSE @,
                                 !.cached = IF ok THEN @ \cup {e} ELSE @,
                                 !.open = IF ~ok THEN @
                                          ELSE IF e.round = 1 THEN @ \cup {e.sid}
                                          ELSE @ \ {e.sid}]]

\* The envelope reaches whatever receiver is serving; an agent with the
\* initiator's role drops it and the reply is None.
Deliver(q) ==
    /\ At(q, "sending") \/ At(q, "replaying")
    /\ \E n \in harness.serves : \E view \in Views(n, pairs[n], request[q].sent) :
         LET h == Handled(n, pairs[n], request[q].sent, view)
             drops == pairs[n].lab \in SwappedLabs
         IN  /\ pairs' = IF drops THEN pairs ELSE [pairs EXCEPT ![n] = h.pair]
             /\ request' = [request EXCEPT
                    ![q].at = IF @ = "sending" THEN "answered" ELSE "replayed",
                    ![q].reply = IF drops THEN None ELSE Reply(request[q].sent, h.ok)]
    /\ UNCHANGED <<harness, posted, walks, tap, posts>>

\* A peer that cannot be reached, or whose answer is lost, makes the call
\* raise: the request is answered with the error.
CallFails(q) ==
    /\ \E at \in {"resolve", "sending", "replaying"} : At(q, at)
    /\ Answer(q)
    /\ UNCHANGED <<harness, pairs, posted, walks, posts>>

\* send_msg1 stores the answer with its session for the finalize to come; a
\* missing reply leaves the one that is there.
StoreAnswer(q) ==
    LET r == request[q] IN
    /\ At(q, "answered")
    /\ r.kind = "send"
    /\ Update(r.walk, [walks[r.walk] EXCEPT
                    !.sid = r.sid, !.first = r.first, !.attacks = r.attacks,
                    !.reply = IF r.reply = None THEN @ ELSE r.reply])
    /\ Answer(q)
    /\ UNCHANGED <<harness, pairs, posted, posts>>

\* Variant for the checks: reply.error is not looked at.
IsReplyOrRefusal(reply) == reply # None

IsReply(reply) == reply # None /\ reply.ok

\* Operation.process of pair p takes a reply of the session that waits for it;
\* at any other it raises and forgets the session.
Takes(p, sid, reply) == reply.sid = sid /\ pairs[p].waits[sid] = reply.round

\* The second message as it is signed, and as it leaves the chain.
SecondSigned(p, sid)   == Envelope(p, sid, 2, {})
SecondEnvelope(p, sid) == Envelope(p, sid, 2, pairs[p].tampers)

\* run_intent reads the answer to its first message.
RunGoesOn(q) ==
    LET r == request[q] IN
    /\ At(q, "answered")
    /\ r.kind = "run"
    /\ IsReply(r.reply)
    /\ r.reply.round = 1
    /\ Takes(r.pair, r.sid, r.reply)
    /\ pairs' = [pairs EXCEPT ![r.pair].waits[r.sid] = 2]
    /\ request' = [request EXCEPT ![q].at = "sending", ![q].sent = SecondEnvelope(r.pair, r.sid)]
    /\ Pass(r.pair, SecondSigned(r.pair, r.sid))
    /\ UNCHANGED <<harness, posted, walks, posts>>

\* finalize takes what the walk stored to the initiator that runs now.
PostFinalize(q, w) ==
    LET p == harness.current
        k == walks[w]
    IN  /\ Known(w)
        /\ IsReply(k.reply)
        /\ Takes(p, k.sid, k.reply)
        /\ Post(q, [Local("finalize", "sending", k.lab, w, k.attacks) EXCEPT
                      !.pair = p, !.sid = k.sid, !.first = k.first,
                      !.sent = SecondEnvelope(p, k.sid)])
        /\ pairs' = [pairs EXCEPT ![p].waits[k.sid] = 2]
        /\ Pass(p, SecondSigned(p, k.sid))
        /\ UNCHANGED <<harness, posted, walks>>

\* A second finalize disturbs the session of the first; with other agents
\* running, the session is unknown and nothing happens.
FinalizeRaises(w) ==
    LET p == harness.current
        k == walks[w]
    IN  /\ Known(w)
        /\ k.sid # None
        /\ IsReply(k.reply)
        /\ ~Takes(p, k.sid, k.reply)
        /\ pairs' = [pairs EXCEPT ![p].waits[k.sid] = 0]
        /\ UNCHANGED <<harness, posted, walks, request, tap, posts>>

\* An answer that is refused, missing, or for a session that is gone.
GivesUp(q) ==
    LET r == request[q] IN
    /\ At(q, "answered")
    /\ r.kind # "send"
    /\ \/ /\ ~IsReply(r.reply)
          /\ UNCHANGED pairs
       \/ /\ IsReply(r.reply)
          /\ ~Takes(r.pair, r.sid, r.reply)
          /\ pairs' = [pairs EXCEPT ![r.pair].waits[r.sid] = 0]
    /\ Answer(q)
    /\ UNCHANGED <<harness, posted, walks, posts>>

\* Variant for the checks: the dedupe cache is left alone.
DedupeKept(p) == p

\* _round_dedupe_cache.clear(), which stands for half an hour passing.
DedupeCleared(p) == [p EXCEPT !.cached = {}]

\* The answer to the second message ends the operation and the signed result
\* is shown.
Shown(r) == [pairs EXCEPT ![r.pair].waits[r.sid] = 0, ![r.pair].results = @ \cup {r.sid}]

Ends(q) ==
    LET r == request[q] IN
    /\ At(q, "answered")
    /\ r.kind # "send"
    /\ IsReply(r.reply)
    /\ r.reply.round = 2
    /\ Takes(r.pair, r.sid, r.reply)

Finish(q) ==
    /\ Ends(q)
    /\ "replay" \notin request[q].attacks
    /\ pairs' = Shown(request[q])
    /\ Answer(q)
    /\ UNCHANGED <<harness, posted, walks, posts>>

\* A replay attack then sends an envelope again.  A run gives what its closure
\* has captured to its own receiver, without the network.
FinishRunAndReplay(q) ==
    LET r == request[q]
        e == tap[q].first
        p == DedupeCleared(Shown(r)[r.pair])
    IN  /\ Ends(q)
        /\ "replay" \in r.attacks
        /\ r.kind = "run"
        /\ \E view \in Views(r.pair, p, e) :
             LET again == Handled(r.pair, p, e, view)
             IN  /\ pairs' = [Shown(r) EXCEPT ![r.pair] = again.pair]
                 /\ request' = [request EXCEPT ![q].at = "replayed",
                                               ![q].reply = Reply(e, again.ok)]
        /\ UNCHANGED <<harness, posted, walks, tap, posts>>

\* A walk sends its first envelope to whatever receiver is serving, through its
\* initiator's chain, having cleared the cache of the harness's receiver.
FinishWalkAndReplay(q) ==
    LET r == request[q] IN
    /\ Ends(q)
    /\ "replay" \in r.attacks
    /\ r.kind = "finalize"
    /\ pairs' = [Shown(r) EXCEPT ![harness.current] = DedupeCleared(@)]
    /\ request' = [request EXCEPT ![q].at = "replaying",
          ![q].sent = [r.first EXCEPT !.altered = @ \cup pairs[r.pair].tampers]]
    /\ Pass(r.pair, r.first)
    /\ UNCHANGED <<harness, posted, walks, posts>>

\* The trace with the replay's answer is sent to the browser.
ShowReplay(q) ==
    /\ At(q, "replayed")
    /\ Answer(q)
    /\ UNCHANGED <<harness, pairs, posted, walks, posts>>

TakeLock(q) == Reuse(q) \/ Stop(q)

RequestStep(q) ==
    \/ BuildFails(q) \/ Start(q)
    \/ SendFirst(q) \/ Deliver(q) \/ CallFails(q)
    \/ StoreAnswer(q) \/ RunGoesOn(q) \/ GivesUp(q) \/ ShowReplay(q)
    \/ Finish(q) \/ FinishRunAndReplay(q) \/ FinishWalkAndReplay(q)

Browser ==
    \/ \E w \in Walks : PostReset(w) \/ ForgetWalk(w) \/ FinalizeRaises(w)
    \/ \E q \in Requests, lab \in Labs :
         \/ \E form \in RunForms : PostRun(q, lab, form)
         \/ \E w \in Walks, attacks \in SendAttacks : PostSend(q, w, lab, attacks)
    \/ \E q \in Requests, w \in Walks : PostFinalize(q, w)

Next == Browser \/ \E q \in Requests : TakeLock(q) \/ RequestStep(q)

Spec == Init /\ [][Next]_vars

\* The event loop runs every request that can go on, and the queue of the
\* harness lock is first in, first out.
FairSpec ==
    /\ Spec
    /\ \A q \in Requests : WF_vars(RequestStep(q)) /\ SF_vars(TakeLock(q))

-----------------------------------------------------------------------------
(* Properties.                                                             *)

\* The type of the state.
TypeOK ==
    /\ harness \in [owner : Requests \cup {None}, serves : SUBSET (DOMAIN pairs),
                    current : 0..Len(pairs), lab : Labs \cup {None}]
    /\ pairs \in Seq(Pairs)
    /\ posted \subseteq Attacks
    /\ walks \in [Walks -> WalkState \cup {None}]
    /\ request \in [Requests -> Locals \cup {None}]
    /\ \A q \in Requests : request[q] # None => request[q].pair <= Len(pairs)
    /\ tap \in [Requests -> Taps \cup {None}]
    /\ posts \in 0..MaxPosts

\* The ports 18082 and 18083 are never contested: however requests with
\* different labs overlap, and whatever start has failed before, one pair of
\* agents serves at most (_ensure_agents: "restart if lab config changes").
OnePairServes == Cardinality(harness.serves) <= 1

\* A result is shown only for a session whose two messages the receiver of the
\* same agents took as they were signed, whatever attacks are on, however
\* often a walk is finalized and whichever agents run by then.
ResultFromBothRounds ==
    \A n \in DOMAIN pairs : \A s \in pairs[n].results : \A i \in 1..2 :
        Envelope(n, s, i, {}) \in pairs[n].seen

\* "Replay: resends the same first-round intent+msg1 to trigger replay
\* protection" (README.md:34 of the playground): a request's own first message
\* is refused when it comes again, even if the agents are others by then or
\* another walk clears the cache meanwhile.  (What a run replays may also be the
\* envelope of another request, which its receiver need not have seen.)
ReplayIsRefused ==
    \A q \in Requests :
        /\ At(q, "replayed")
        /\ request[q].reply # None
        /\ request[q].reply.sid = request[q].sid
        => ~request[q].reply.ok

\* Every request is answered: a start that fails and an answer that is lost
\* leave the harness lock free for the others.
EveryRequestAnswered == \A q \in Requests : request[q] # None ~> request[q] = None
=============================================================================
