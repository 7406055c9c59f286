-------------------------- MODULE PeerClientProofs --------------------------
(***************************************************************************)
(* Proofs about PeerClient, for any number of tasks, any window and any    *)
(* number of cards.                                                        *)
(***************************************************************************)
EXTENDS PeerClient, TLAPS

\* The ages stay ages.
LEMMA OlderType ==
    ASSUME NEW n \in 0..Interval
    PROVE  Older(n) \in 0..Interval
  BY ClientAssumption DEF Older

\* What is known of a card is a number, and a card is not the absent value.
LEMMA CardFacts ==
    /\ \A c \in Card : c # None /\ c.version \in Nat /\ c.ap3 \in BOOLEAN
    /\ \A f \in Fetch : f # None
    /\ \A c \in Card \cup {None} : Version(c) \in Nat
  BY ClientAssumption DEF Card, Fetch, Version

\* What extract_peer_info lets through is a card with a usable extension.
LEMMA ExtractType ==
    ASSUME TypeOK, NEW call, NEW known, NEW c \in Card, Extract(call, known, c)
    PROVE  peers' \in { d \in Card : d.ap3 } \cup {None}
  BY DEF Extract, TypeOK

\* No step breaks the type invariant.
LEMMA TypesPreserved ==
    ASSUME TypeOK, [Next]_vars
    PROVE  TypeOK'
  <1>1. CASE \E call \in Calls : AnswerFromPeers(call)
    BY <1>1 DEF AnswerFromPeers, TypeOK
  <1>2. ASSUME NEW call \in Calls, AnswerFromCard(call)
        PROVE  TypeOK'
    <2>1. cards \in Card /\ age' = age
      BY <1>2 DEF AnswerFromCard, KnownCard, Stamp, TypeOK
    <2>2. peers' \in { d \in Card : d.ap3 } \cup {None}
      BY <1>2, <2>1, ExtractType DEF AnswerFromCard
    <2> QED
      BY <1>2, <2>1, <2>2 DEF AnswerFromCard, TypeOK
  <1>3. ASSUME NEW t \in Tasks, NEW call \in Calls, StartFetch(t, call)
        PROVE  TypeOK'
    <2>1. [call |-> call, known |-> Version(peers), card |-> None] \in Fetch
      BY CardFacts DEF Fetch, TypeOK
    <2>2. age' \in 0..Interval /\ sinceForced' \in 0..Interval
      BY <1>3, ClientAssumption DEF StartFetch, Stamp, TypeOK
    <2> QED
      BY <1>3, <2>1, <2>2 DEF StartFetch, TypeOK
  <1>4. ASSUME NEW t \in Tasks, PeerServes(t)
        PROVE  TypeOK'
    <2>1. fetch' \in [Tasks -> Fetch \cup {None}]
      BY <1>4 DEF PeerServes, TypeOK, Fetch
    <2> QED
      BY <1>4, <2>1 DEF PeerServes, TypeOK
  <1>5. ASSUME NEW t \in Tasks, FetchEnds(t)
        PROVE  TypeOK'
    <2>1. fetch[t].card \in Card
      BY <1>5 DEF FetchEnds, TypeOK, Fetch
    <2>2. peers' \in { d \in Card : d.ap3 } \cup {None}
      BY <1>5, <2>1, ExtractType DEF FetchEnds
    <2> QED
      BY <1>5, <2>1, <2>2 DEF FetchEnds, TypeOK
  <1>6. CASE \E t \in Tasks : FetchFails(t)
    BY <1>6 DEF FetchFails, TypeOK
  <1>7. CASE Publish
    BY <1>7, ClientAssumption DEF Publish, TypeOK, Card
  <1>8. CASE Tick
    BY <1>8, OlderType DEF Tick, TypeOK
  <1>9. CASE UNCHANGED vars
    BY <1>9 DEF vars, TypeOK
  <1> QED
    BY <1>1, <1>2, <1>3, <1>4, <1>5, <1>6, <1>7, <1>8, <1>9 DEF Next

\* Every variable keeps its type, in every behaviour: in particular no card
\* without a usable extension gets into _peers.
THEOREM TypeCorrect == Spec => []TypeOK
  <1>1. Init => TypeOK
    BY ClientAssumption DEF Init, TypeOK, Card
  <1>2. TypeOK /\ [Next]_vars => TypeOK'
    BY TypesPreserved
  <1> QED
    BY <1>1, <1>2, PTL DEF Spec

-----------------------------------------------------------------------------
(* No answer is older than what the cache held at the call.                *)

\* The strengthening: nobody has seen a card the peer has not published, and
\* the card a request was answered with is not older than what was known when
\* it was sent.
InOrder ==
    /\ Version(cards) <= served.version
    /\ Version(peers) <= served.version
    /\ \A t \in Tasks : fetch[t] # None =>
         /\ fetch[t].known <= served.version
         /\ fetch[t].card # None =>
              /\ fetch[t].known <= fetch[t].card.version
              /\ fetch[t].card.version <= served.version

\* It is inductive: the peer's cards only get newer.
LEMMA OrderPreserved ==
    ASSUME TypeOK, InOrder, [Next]_vars
    PROVE  InOrder'
  <1> USE CardFacts DEF TypeOK
  <1>1. CASE \E call \in Calls : AnswerFromPeers(call)
    BY <1>1 DEF AnswerFromPeers, InOrder
  <1>2. CASE \E call \in Calls : AnswerFromCard(call)
    BY <1>2 DEF AnswerFromCard, Extract, KnownCard, InOrder
  <1>3. ASSUME NEW t \in Tasks, NEW call \in Calls, StartFetch(t, call)
        PROVE  InOrder'
    <2>1. \A u \in Tasks \ {t} : fetch'[u] = fetch[u]
      BY <1>3 DEF StartFetch
    <2>2. fetch'[t].known = Version(peers) /\ fetch'[t].card = None
      BY <1>3 DEF StartFetch
    <2> QED
      BY <1>3, <2>1, <2>2 DEF StartFetch, InOrder
  <1>4. ASSUME NEW t \in Tasks, PeerServes(t)
        PROVE  InOrder'
    <2>1. fetch[t] \in Fetch
      BY <1>4 DEF PeerServes
    <2>2. \A u \in Tasks \ {t} : fetch'[u] = fetch[u]
      BY <1>4 DEF PeerServes
    <2>3. fetch'[t].known = fetch[t].known /\ fetch'[t].card = served
      BY <1>4, <2>1 DEF PeerServes, Fetch
    <2> QED
      BY <1>4, <2>2, <2>3 DEF PeerServes, InOrder
  <1>5. ASSUME NEW t \in Tasks, FetchEnds(t)
        PROVE  InOrder'
    <2>1. fetch[t].card \in Card /\ fetch[t].card.version <= served.version
      BY <1>5 DEF FetchEnds, Fetch, InOrder
    <2> QED
      BY <1>5, <2>1 DEF FetchEnds, Extract, InOrder, Version
  <1>6. CASE \E t \in Tasks : FetchFails(t)
    BY <1>6 DEF FetchFails, InOrder
  <1>7. CASE Publish
    <2>1. served'.version = served.version + 1 /\ UNCHANGED <<cards, peers, fetch>>
      BY <1>7 DEF Publish
    <2>2. served.version \in Nat /\ Version(cards) \in Nat /\ Version(peers) \in Nat
      OBVIOUS
    <2>3. \A t \in Tasks : fetch[t] # None =>
            /\ fetch[t].known \in Nat
            /\ fetch[t].card # None => fetch[t].card.version \in Nat
      BY DEF Fetch
    <2> QED
      BY <2>1, <2>2, <2>3 DEF InOrder, Version
  <1>8. CASE Tick \/ UNCHANGED vars
    BY <1>8 DEF Tick, vars, InOrder
  <1> QED
    BY <1>1, <1>2, <1>3, <1>4, <1>5, <1>6, <1>7, <1>8 DEF Next

\* However fetches overlap and responses overtake each other, a caller of
\* resolve_peer never gets an older card than the cache held when it called.
THEOREM NeverOlder == Spec => NeverOlderThanAtCall
  <1>1. Init => InOrder
    BY CardFacts DEF Init, InOrder, Version
  <1>2. TypeOK /\ InOrder /\ [Next]_vars => InOrder'
    BY OrderPreserved
  <1> DEFINE Newer == [ Answered /\ returned'.call # "send"
                        => Version(returned'.card) >= returned'.known ]_vars
  <1>3. TypeOK /\ InOrder /\ [Next]_vars => Newer
    <2> SUFFICES ASSUME TypeOK, InOrder, Next, Answered, returned'.call # "send"
                 PROVE  Version(returned'.card) >= returned'.known
      OBVIOUS
    <2>1. CASE \E call \in Calls : AnswerFromPeers(call)
      BY <2>1, CardFacts DEF AnswerFromPeers, Return, TypeOK
    <2>2. ASSUME NEW call \in Calls, AnswerFromCard(call)
          PROVE  Version(returned'.card) >= returned'.known
      <3>1. returned'.call = call /\ returned'.known = Version(peers) /\ cards # None
        BY <2>2 DEF AnswerFromCard, Extract, Return, Raise, KnownCard
      <3>2. call = "resolve"
        BY <2>2, <3>1, ClientAssumption DEF AnswerFromCard, KnownCard, AllCalls
      <3>3. peers = None
        BY <2>2, <3>2 DEF AnswerFromCard, CachedPeer
      <3>4. returned'.card = cards
        BY <2>2 DEF AnswerFromCard, Extract, Return, Raise, Answered
      <3> QED
        BY <3>1, <3>3, <3>4, CardFacts DEF Version, TypeOK
    <2>3. ASSUME NEW t \in Tasks, FetchEnds(t)
          PROVE  Version(returned'.card) >= returned'.known
      <3>1. returned'.card = fetch[t].card /\ returned'.known = fetch[t].known
        BY <2>3 DEF FetchEnds, Extract, Return, Raise, Answered
      <3>2. fetch[t].card \in Card /\ fetch[t].known \in Nat
        BY <2>3 DEF FetchEnds, TypeOK, Fetch
      <3> QED
        BY <2>3, <3>1, <3>2, CardFacts DEF FetchEnds, InOrder, Version
    <2>4. CASE \/ \E t \in Tasks, call \in Calls : StartFetch(t, call)
               \/ \E t \in Tasks : PeerServes(t) \/ FetchFails(t)
               \/ Publish \/ Tick
      BY <2>4 DEF StartFetch, PeerServes, FetchFails, Raise, Publish, Tick, Answered
    <2> QED
      BY <2>1, <2>2, <2>3, <2>4 DEF Next
  <1> QED
    BY <1>1, <1>2, <1>3, TypeCorrect, PTL DEF Spec, NeverOlderThanAtCall

-----------------------------------------------------------------------------
(* The window and the pair of caches.                                      *)

\* The recorded time of a refresh is never older than the last forced fetch.
WindowCovers == age <= sinceForced

\* Both are reset together and age together.
LEMMA WindowPreserved ==
    ASSUME TypeOK, WindowCovers, [Next]_vars
    PROVE  WindowCovers'
  <1> USE DEF TypeOK, WindowCovers
  <1>1. CASE \E call \in Calls : AnswerFromPeers(call) \/ AnswerFromCard(call)
    BY <1>1 DEF AnswerFromPeers, AnswerFromCard, KnownCard, Stamp
  <1>2. CASE \E t \in Tasks, call \in Calls : StartFetch(t, call)
    BY <1>2, ClientAssumption DEF StartFetch, Stamp
  <1>3. CASE \/ \E t \in Tasks : PeerServes(t) \/ FetchEnds(t) \/ FetchFails(t)
             \/ Publish \/ UNCHANGED vars
    BY <1>3 DEF PeerServes, FetchEnds, FetchFails, Publish, vars
  <1>4. CASE Tick
    BY <1>4, ClientAssumption DEF Tick, Older
  <1> QED
    BY <1>1, <1>2, <1>3, <1>4 DEF Next

\* Forced fetches of a cached peer are at least a window apart.
THEOREM FloodsThrottled == Spec => FloodThrottled
  <1>1. Init => WindowCovers
    BY ClientAssumption DEF Init, WindowCovers
  <1>2. TypeOK /\ WindowCovers /\ [Next]_vars => WindowCovers'
    BY WindowPreserved
  <1> DEFINE Throttled == [ \A t \in Tasks :
                              fetch[t] = None /\ fetch'[t] # None /\ fetch'[t].call = "refresh"
                              => peers = None \/ sinceForced >= Interval ]_vars
  <1>3. TypeOK /\ WindowCovers /\ [Next]_vars => Throttled
    <2> SUFFICES ASSUME TypeOK, WindowCovers, Next, NEW t \in Tasks,
                        fetch[t] = None, fetch'[t] # None, fetch'[t].call = "refresh",
                        peers # None
                 PROVE  sinceForced >= Interval
      OBVIOUS
    <2>1. PICK u \in Tasks, call \in Calls : StartFetch(u, call)
      BY DEF Next, AnswerFromPeers, AnswerFromCard, PeerServes, FetchEnds, FetchFails,
             Publish, Tick, TypeOK
    <2>2. u = t /\ call = "refresh"
      BY <2>1 DEF StartFetch, TypeOK
    <2>3. ~(age < Interval)
      BY <2>1, <2>2 DEF StartFetch, CachedPeer, WithinWindow
    <2> QED
      BY <2>3, ClientAssumption DEF TypeOK, WindowCovers
  <1> QED
    BY <1>1, <1>2, <1>3, TypeCorrect, PTL DEF Spec, FloodThrottled

\* When every send follows a resolve, key and endpoint come from one card.
THEOREM KeysAndAddressesAgree == Spec => []KeyAndAddressAgree
  <1>1. Init => KeyAndAddressAgree
    BY DEF Init, KeyAndAddressAgree
  <1>2. TypeOK /\ KeyAndAddressAgree /\ [Next]_vars => KeyAndAddressAgree'
    <2> SUFFICES ASSUME TypeOK, KeyAndAddressAgree, [Next]_vars, "send" \notin Calls
                 PROVE  peers' # None => cards' = peers' \/ (cards' # None /\ ~cards'.ap3)
      BY DEF KeyAndAddressAgree
    <2>1. CASE \E call \in Calls : AnswerFromCard(call)
      BY <2>1 DEF AnswerFromCard, KnownCard, Extract, KeyAndAddressAgree, TypeOK
    <2>2. ASSUME NEW t \in Tasks, FetchEnds(t)
          PROVE  peers' # None => cards' = peers' \/ (cards' # None /\ ~cards'.ap3)
      BY <2>2, ClientAssumption DEF FetchEnds, Extract, TypeOK, Fetch
    <2>3. CASE \/ \E call \in Calls : AnswerFromPeers(call)
               \/ \E t \in Tasks, call \in Calls : StartFetch(t, call)
               \/ \E t \in Tasks : PeerServes(t) \/ FetchFails(t)
               \/ Publish \/ Tick \/ UNCHANGED vars
      BY <2>3 DEF AnswerFromPeers, StartFetch, PeerServes, FetchFails, Publish, Tick, vars,
                  KeyAndAddressAgree
    <2> QED
      BY <2>1, <2>2, <2>3 DEF Next
  <1> QED
    BY <1>1, <1>2, TypeCorrect, PTL DEF Spec
=============================================================================
