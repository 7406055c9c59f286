----------------------------- MODULE PeerClient -----------------------------
(***************************************************************************)
(* PeerClient (src/ap3/a2a/client.py): the two caches of a peer's card and *)
(* the window that limits forced refreshes.                                *)
(*                                                                         *)
(* All of its state is kept per peer URL and no code relates two URLs, so  *)
(* this is the state of one.  A call suspends only while it fetches the    *)
(* card over HTTP; everything else it does is one step.  A card is its     *)
(* version and whether it carries a usable AP3 extension, which is what    *)
(* extract_peer_info decides; a PeerInfo is the card it was read from.     *)
(***************************************************************************)
EXTENDS Naturals

CONSTANTS
    Tasks,          \* tasks that may be fetching at the same time
    Calls,          \* which calls are made: see AllCalls
    Interval,       \* force_refresh_interval_s, in ticks
    MaxVersion,     \* bound on the cards the peer publishes
    None            \* the absent value

\* resolve_peer, resolve_peer with force_refresh, and the _fetch_card that
\* send_envelope starts with.
AllCalls == {"resolve", "refresh", "send"}

Card        == [version : 1..MaxVersion, ap3 : BOOLEAN]

ASSUME ClientAssumption ==
    /\ Calls \subseteq AllCalls
    /\ Interval \in Nat \ {0}
    /\ MaxVersion \in Nat \ {0}
    /\ None \notin Card
    /\ None \notin [call : Calls, known : Nat, card : Card \cup {None}]

VARIABLES
    served,         \* the card the peer publishes now
    cards,          \* _cards[url]
    peers,          \* _peers[url]
    age,            \* time since _last_force_refresh[url], up to Interval
    fetch,          \* per task: the call in flight, its card once answered
    returned,       \* history: what the last step returned to its caller
    sinceForced     \* history: time since a forced fetch started, up to Interval

vars == <<served, cards, peers, age, fetch, returned, sinceForced>>

Version(c) == IF c = None THEN 0 ELSE c.version
Older(n)   == IF n < Interval THEN n + 1 ELSE n

-----------------------------------------------------------------------------
\* Variant for the checks: one tick short.
WithinWindowShort == age + 1 < Interval /\ peers # None

\* Variant for the checks: the window never ends.
WithinWindowAlways == peers # None

WithinWindow == age < Interval /\ peers # None

\* resolve_peer answers from its own cache.
CachedPeer(call) ==
    \/ call = "resolve" /\ peers # None
    \/ call = "refresh" /\ WithinWindow

\* _fetch_card answers from its own.
KnownCard(call) == call # "refresh" /\ cards # None

Return(call, known, card) ==
    returned' = [call |-> call, known |-> known, card |-> card, raised |-> "nothing"]
Raise(call, known, what) ==
    returned' = [call |-> call, known |-> known, card |-> None, raised |-> what]

\* Variant for the checks: any card will do.
ExtractUnchecked(call, known, c) ==
    /\ peers' = IF call # "send" THEN c ELSE peers
    /\ Return(call, known, c)

\* extract_peer_info and the write that follows it when it does not raise.
Extract(call, known, c) ==
    \/ /\ call = "send"
       /\ Return(call, known, c)
       /\ UNCHANGED peers
    \/ /\ call # "send" /\ c.ap3
       /\ Return(call, known, c)
       /\ peers' = c
    \/ /\ call # "send" /\ ~c.ap3
       /\ Raise(call, known, "ValueError")
       /\ UNCHANGED peers

\* The time of a refresh is recorded before anything is fetched.
Stamp(call) == age' = IF call = "refresh" THEN 0 ELSE age

AnswerFromPeers(call) ==
    /\ CachedPeer(call)
    /\ Return(call, Version(peers), peers)
    /\ UNCHANGED <<served, cards, peers, age, fetch, sinceForced>>

AnswerFromCard(call) ==
    /\ ~CachedPeer(call)
    /\ KnownCard(call)
    /\ Stamp(call)
    /\ Extract(call, Version(peers), cards)
    /\ UNCHANGED <<served, cards, fetch, sinceForced>>

StartFetch(t, call) ==
    /\ fetch[t] = None
    /\ ~CachedPeer(call)
    /\ ~KnownCard(call)
    /\ Stamp(call)
    /\ fetch' = [fetch EXCEPT ![t] =
                   [call |-> call, known |-> Version(peers), card |-> None]]
    /\ returned' = None
    /\ sinceForced' = IF call = "refresh" THEN 0 ELSE sinceForced
    /\ UNCHANGED <<served, cards, peers>>

\* The peer answers a request with the card it publishes at that moment.
PeerServes(t) ==
    /\ fetch[t] # None
    /\ fetch[t].card = None
    /\ fetch' = [fetch EXCEPT ![t].card = served]
    /\ returned' = None
    /\ UNCHANGED <<served, cards, peers, age, sinceForced>>

\* Variant for the checks: a forced refresh leaves the other cache alone.
FetchEndsForgetfully(t) ==
    /\ fetch[t] # None
    /\ fetch[t].card # None
    /\ cards' = IF fetch[t].call = "refresh" THEN cards ELSE fetch[t].card
    /\ Extract(fetch[t].call, fetch[t].known, fetch[t].card)
    /\ fetch' = [fetch EXCEPT ![t] = None]
    /\ UNCHANGED <<served, age, sinceForced>>

\* The response arrives and both caches take it, in one step.
FetchEnds(t) ==
    /\ fetch[t] # None
    /\ fetch[t].card # None
    /\ cards' = fetch[t].card
    /\ Extract(fetch[t].call, fetch[t].known, fetch[t].card)
    /\ fetch' = [fetch EXCEPT ![t] = None]
    /\ UNCHANGED <<served, age, sinceForced>>

\* Variant for the checks: a fetch that fails is made up for from the cache.
FetchFailsOver(t) ==
    /\ fetch[t] # None
    /\ fetch' = [fetch EXCEPT ![t] = None]
    /\ IF cards # None
       THEN Extract(fetch[t].call, fetch[t].known, cards)
       ELSE Raise(fetch[t].call, fetch[t].known, "HTTPError") /\ UNCHANGED peers
    /\ UNCHANGED <<served, cards, age, sinceForced>>

\* The request fails, times out or is cancelled.
FetchFails(t) ==
    /\ fetch[t] # None
    /\ fetch' = [fetch EXCEPT ![t] = None]
    /\ Raise(fetch[t].call, fetch[t].known, "HTTPError")
    /\ UNCHANGED <<served, cards, peers, age, sinceForced>>

\* The peer publishes another card: it rotates its key, or starts or stops
\* being an AP3 agent.
Publish ==
    /\ served.version < MaxVersion
    /\ \E b \in BOOLEAN : served' = [version |-> served.version + 1, ap3 |-> b]
    /\ returned' = None
    /\ UNCHANGED <<cards, peers, age, fetch, sinceForced>>

Tick ==
    /\ age' = Older(age)
    /\ sinceForced' = Older(sinceForced)
    /\ returned' = None
    /\ UNCHANGED <<served, cards, peers, fetch>>

\* The default of _last_force_refresh is the zero of the monotonic clock, so
\* the process may start inside a window nobody opened.
Init ==
    /\ served \in [version : {1}, ap3 : BOOLEAN]
    /\ cards = None
    /\ peers = None
    /\ age \in 0..Interval
    /\ fetch = [t \in Tasks |-> None]
    /\ returned = None
    /\ sinceForced = Interval

Next ==
    \/ \E call \in Calls : AnswerFromPeers(call) \/ AnswerFromCard(call)
    \/ \E t \in Tasks, call \in Calls : StartFetch(t, call)
    \/ \E t \in Tasks : PeerServes(t) \/ FetchEnds(t) \/ FetchFails(t)
    \/ Publish
    \/ Tick

Spec == Init /\ [][Next]_vars

\* Time passes, signatures keep failing while the cached key is old, so that
\* every task asks for a refresh again and again, and the network answers
\* infinitely often.
FairSpec ==
    /\ Spec
    /\ WF_vars(Tick)
    /\ \A t \in Tasks :
         /\ SF_vars(StartFetch(t, "refresh"))
         /\ SF_vars(PeerServes(t))
         /\ SF_vars(FetchEnds(t))

-----------------------------------------------------------------------------
(* Properties.                                                             *)

Fetch == [call : Calls, known : Nat, card : Card \cup {None}]

\* The type of every variable; a peer in the cache has a usable extension.
TypeOK ==
    /\ served \in Card
    /\ cards \in Card \cup {None}
    /\ peers \in { c \in Card : c.ap3 } \cup {None}
    /\ age \in 0..Interval
    /\ fetch \in [Tasks -> Fetch \cup {None}]
    /\ sinceForced \in 0..Interval

Answered == returned' # None /\ returned'.raised = "nothing"

\* No caller of resolve_peer gets an older card than the cache held when it
\* called, although responses arrive in any order and a late one overwrites a
\* newer card: at most a card newer than the caller knew is lost
\* (client.py:99-102).
NeverOlderThanAtCall ==
    [][ Answered /\ returned'.call # "send"
        => Version(returned'.card) >= returned'.known ]_vars

\* Once a peer is cached, a flood of bad signatures starts one fetch per window
\* and no more, however long the fetches take (client.py:79-84).
FloodThrottled ==
    [][ \A t \in Tasks :
          fetch[t] = None /\ fetch'[t] # None /\ fetch'[t].call = "refresh"
          => peers = None \/ sinceForced >= Interval ]_vars

\* The key a peer's signatures are verified with and the endpoint its messages
\* are sent to come from one card, as long as every send follows a resolve
\* (run_intent, _core.py:133 and :173) and the card cached last has a key.
KeyAndAddressAgree ==
    "send" \notin Calls /\ peers # None
    => cards = peers \/ (cards # None /\ ~cards.ap3)

\* A key rotation is picked up, whatever fetches were in flight when it
\* happened: "while still letting legitimate key rotation be picked up within
\* seconds" (client.py:83-84, :30-35), as the forced refresh of _core.py:509 has
\* it.  The docstring of the class says the opposite, "if a peer rotates its AP3
\* public key, restart the agent. That is intentional" (client.py:40-42); the code
\* does not do that, and README.md, section 9, reports it.
RotationPickedUp == <>[]served.ap3 => <>[](Version(peers) = served.version)

\* resolve_peer "raises ValueError if the peer has no AP3 extension"
\* (client.py:75), and not because it once had none.
RaisesOnlyWithoutExtension ==
    [][ returned' # None /\ returned'.raised = "ValueError" /\ UNCHANGED fetch
        => ~served.ap3 ]_vars
=============================================================================
