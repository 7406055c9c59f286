-------------------------- MODULE PlaygroundProofs --------------------------
(***************************************************************************)
(* Proofs about Playground, for any requests, walks, labs, attacks and     *)
(* bounds: one pair of agents serves at most, a result is shown only for a *)
(* session whose two messages its receiver took as they were signed, and a *)
(* request's own first message is refused when it comes again.             *)
(*                                                                         *)
(* The argument follows a session number.  Until its request has sent the  *)
(* first message nothing anywhere bears it; from then on only one pair can *)
(* have it under way, and an answer to it is evidence that this pair's     *)
(* receiver has seen the message.                                          *)
(***************************************************************************)
EXTENDS Playground, FiniteSetTheorems, SequenceTheorems, TLAPS

-----------------------------------------------------------------------------
(* The inductive invariant.                                                *)

\* Only the current pair serves, and none while agents are stopped or started.
HarnessSound ==
    /\ harness.serves \subseteq {harness.current}
    /\ harness.owner # None => harness.serves = {}
    /\ \A q \in Requests : At(q, "start") => harness.owner = q

\* A request that has not sent its first message, which it does with a session
\* nobody else has used.
Early(r) == r.at \in {"ensure", "start", "resolve"}

\* What the local variables of a request hold.
LocalsSound(r) ==
    /\ r.kind = "send" => r.walk \in Walks /\ walks[r.walk] # None
    /\ r.at \in {"ensure", "start"} => r.lab \in Labs
    /\ r.at = "replaying" => r.kind = "finalize"
    /\ r.at \notin {"ensure", "start"} => harness.current # 0 /\ r.pair # 0
    /\ Early(r) => r.kind # "finalize" /\ r.reply = None
    /\ ~Early(r) => /\ r.first # None /\ r.first.pair = r.pair
                    /\ r.first.sid = r.sid /\ r.first.round = 1
                    /\ r.sent # None /\ r.sent.pair = r.pair /\ r.sent.sid = r.sid
                    /\ r.reply # None /\ r.at # "replayed" => r.reply.sid = r.sid

\* What send_msg1 has stored with a walk.
WalkSound(k) ==
    /\ k.reply # None => k.first # None
    /\ k.first # None => /\ k.sid \in Sessions /\ harness.current # 0
                         /\ k.first.sid = k.sid /\ k.first.round = 1

\* A receiver remembers and answers only what its own initiator signed.
PairSound(n) ==
    /\ pairs[n].cached \subseteq pairs[n].seen
    /\ \A e \in pairs[n].seen : e.pair = n /\ e.altered = {}

\* The closure of a run that replays sits in the chain of its pair; once the
\* run has sent its first message the closure holds an envelope, and if it is
\* one of the run's own it is that message.
Captured(q, e) == tap[q] # None /\ tap[q].first # None /\ e = tap[q].first

TapSound(q) ==
    LET r == request[q]
        t == tap[q]
    IN  /\ t # None => /\ r # None /\ r.at \notin {"ensure", "start"} /\ t.pair = r.pair
                       /\ ~Early(r) => t.first # None
                       /\ t.first # None => /\ t.first.pair = t.pair
                                            /\ t.first.sid = r.sid => t.first.round = 1
        /\ r # None /\ r.kind = "run" /\ r.at \notin {"ensure", "start"} /\ "replay" \in r.attacks
           => t # None

ShapesSound ==
    /\ \A q \in Requests : request[q] # None => LocalsSound(request[q])
    /\ \A q \in Requests : TapSound(q)
    /\ \A w \in Walks : walks[w] # None => WalkSound(walks[w])
    /\ \A n \in DOMAIN pairs : PairSound(n)

\* Nothing but the request that opens it bears the number of a session.
Unused(s) ==
    /\ \A w \in Walks : walks[w] # None => walks[w].sid # s
    /\ \A n \in DOMAIN pairs : pairs[n].waits[s] = 0 /\ \A e \in pairs[n].seen : e.sid # s
    /\ \A q \in Requests : tap[q] # None /\ tap[q].first # None => tap[q].first.sid # s

NumbersSound ==
    /\ \A s \in Sessions : s > posts =>
         Unused(s) /\ \A q \in Requests : request[q] # None => request[q].sid # s
    /\ \A q \in Requests : request[q] # None /\ Early(request[q]) =>
         /\ Unused(request[q].sid)
         /\ \A o \in Requests \ {q} : request[o] # None => request[o].sid # request[q].sid

\* A session under way at an initiator is under way nowhere else.
Owned ==
    \A n \in DOMAIN pairs, s \in Sessions : pairs[n].waits[s] # 0 =>
      /\ \A q \in Requests : request[q] # None /\ request[q].sid = s => request[q].pair = n
      /\ \A w \in Walks :
           walks[w] # None /\ walks[w].first # None /\ walks[w].sid = s
           => walks[w].first.pair = n
      /\ \A m \in DOMAIN pairs : \A e \in pairs[m].seen : e.sid = s => m = n
      /\ \A q \in Requests :
           tap[q] # None /\ tap[q].first # None /\ tap[q].first.sid = s => tap[q].first.pair = n

\* An answer that is a reply proves that its message was taken as it was signed.
Seen(n, s, i) == Envelope(n, s, i, {}) \in pairs[n].seen
Evidence(reply) ==
    reply # None /\ reply.ok => \E n \in DOMAIN pairs : Seen(n, reply.sid, reply.round)

EvidenceSound ==
    /\ \A q \in Requests : request[q] # None => Evidence(request[q].reply)
    /\ \A w \in Walks : walks[w] # None => Evidence(walks[w].reply)
    /\ \A n \in DOMAIN pairs, s \in Sessions : pairs[n].waits[s] = 2 => Seen(n, s, 1)

\* While a walk's first message is on its way again, the receiver that took it
\* remembers it, and nobody's dedupe cache answers it.
Replaying(r) ==
    /\ r.sent.round = 1
    /\ Seen(r.pair, r.sid, 1)
    /\ r.pair = harness.current => r.sent \notin pairs[r.pair].cached

ReplaysSound ==
    /\ \A q \in Requests : At(q, "replaying") => Replaying(request[q])
    /\ ReplayIsRefused

Inv ==
    /\ TypeOK
    /\ HarnessSound
    /\ ShapesSound
    /\ NumbersSound
    /\ Owned
    /\ EvidenceSound
    /\ ResultFromBothRounds
    /\ ReplaysSound

-----------------------------------------------------------------------------
(* What most steps do to the sessions.  A step is that of one request, or   *)
(* of none (the parameter is None then).                                    *)

\* Its request keeps its session, and its pair once the first message is sent.
RequestGentle(q) ==
    /\ \A o \in Requests \ {q} : request'[o] = request[o]
    /\ q \in Requests /\ request'[q] # None =>
         /\ request[q] # None
         /\ request'[q].sid = request[q].sid
         /\ ~Early(request[q]) => request'[q].pair = request[q].pair
         /\ Early(request'[q]) => Early(request[q])
    /\ posts' = posts

\* Receivers forget nothing, and learn at most the message of the request or
\* the one its closure holds; what they answer from now on they had not seen
\* before.
MemoryGentle(q) ==
    /\ \A n \in DOMAIN pairs :
         /\ n \in DOMAIN pairs'
         /\ pairs[n].seen \subseteq pairs'[n].seen
         /\ \A e \in pairs'[n].cached \ pairs[n].cached :
              e.altered = {} /\ (e.round = 1 => e \notin pairs[n].seen)
    /\ \A n \in DOMAIN pairs' : \A e \in pairs'[n].seen :
         \/ n \in DOMAIN pairs /\ e \in pairs[n].seen
         \/ /\ q \in Requests /\ request[q] # None /\ ~Early(request[q])
            /\ n = request[q].pair /\ (e.sid = request[q].sid \/ Captured(q, e))

\* The first message of the request opens its session at its pair, the only
\* way a session is opened.
Opens(q, n, s) ==
    /\ q \in Requests /\ request[q] # None /\ Early(request[q])
    /\ s = request[q].sid
    /\ request'[q] # None /\ ~Early(request'[q]) /\ n = request'[q].pair

WaitsGentle(q) ==
    \A n \in DOMAIN pairs', s \in Sessions :
       pairs'[n].waits[s] # 0
       => (n \in DOMAIN pairs /\ pairs[n].waits[s] # 0) \/ Opens(q, n, s)

\* A walk is kept, emptied, or told what became of the request's message.
WalksGentle(q) ==
    \A w \in Walks :
      /\ walks[w] # None => walks'[w] # None
      /\ walks'[w] # None =>
           \/ walks'[w].sid = None /\ walks'[w].first = None /\ walks'[w].reply = None
           \/ /\ walks[w] # None
              /\ walks'[w].sid = walks[w].sid /\ walks'[w].first = walks[w].first
              /\ walks'[w].reply = walks[w].reply
           \/ /\ q \in Requests /\ request[q] # None /\ ~Early(request[q])
              /\ walks[w] # None
              /\ walks'[w].sid = request[q].sid /\ walks'[w].first = request[q].first
              /\ walks'[w].reply \in {walks[w].reply, request[q].reply}

\* The current pair stays, or a new one takes over.
CurrentGentle ==
    /\ harness.current # 0 => harness'.current # 0
    /\ harness'.current \in DOMAIN pairs => harness'.current = harness.current

\* A closure captures at most a message of the request, which the pair it
\* listens to has just sent.
CapturesFrom(q, o) ==
    /\ q \in Requests /\ request'[q] # None /\ ~Early(request'[q])
    /\ tap'[o].first.sid = request'[q].sid /\ tap'[o].first.pair = request'[q].pair
    /\ tap'[o].pair = request'[q].pair

TapsGentle(q) ==
    /\ \A o \in Requests : tap'[o] # None /\ tap'[o].first # None =>
         \/ tap[o] # None /\ tap'[o].first = tap[o].first
         \/ CapturesFrom(q, o)
    /\ \A o \in Requests \ {q} :
         /\ tap'[o] = None <=> tap[o] = None
         /\ tap[o] # None => /\ tap'[o].pair = tap[o].pair
                             /\ tap[o].first # None => tap'[o].first = tap[o].first

Gentle(q) ==
    /\ RequestGentle(q) /\ MemoryGentle(q) /\ WaitsGentle(q) /\ WalksGentle(q)
    /\ CurrentGentle /\ TapsGentle(q)

\* The session numbers stay apart.
LEMMA NumbersKept ==
    ASSUME Inv, NEW q \in Requests \cup {None}, Gentle(q), TypeOK'
    PROVE  NumbersSound'
  <1> DEFINE mine(s) == /\ q \in Requests /\ request[q] # None /\ s = request[q].sid
                        /\ ~Early(request[q]) \/ (request'[q] # None /\ ~Early(request'[q]))
  <1>1. ASSUME NEW s \in Sessions, Unused(s), ~mine(s)
        PROVE  Unused(s)'
    <2>1. ASSUME NEW w \in Walks, walks'[w] # None
          PROVE  walks'[w].sid # s
      BY <1>1, <2>1, NoneAssumption DEF Unused, Gentle, WalksGentle
    <2>2. ASSUME NEW n \in DOMAIN pairs'
          PROVE  pairs'[n].waits[s] = 0
      BY <1>1, <2>2 DEF Unused, Gentle, WaitsGentle, Opens
    <2>3. ASSUME NEW n \in DOMAIN pairs', NEW e \in pairs'[n].seen
          PROVE  e.sid # s
      BY <1>1, <2>3 DEF Unused, Gentle, MemoryGentle, Captured
    <2>4. ASSUME NEW o \in Requests, tap'[o] # None, tap'[o].first # None
          PROVE  tap'[o].first.sid # s
      <3>1. CASE CapturesFrom(q, o)
        <4>1. /\ q \in Requests /\ request'[q] # None /\ ~Early(request'[q])
              /\ tap'[o].first.sid = request'[q].sid
          BY <3>1 DEF CapturesFrom
        <4>2. request[q] # None /\ request'[q].sid = request[q].sid
          BY <4>1 DEF Gentle, RequestGentle
        <4> QED
          BY <1>1, <4>1, <4>2
      <3>2. CASE tap[o] # None /\ tap'[o].first = tap[o].first
        BY <1>1, <2>4, <3>2 DEF Unused
      <3> QED
        BY <2>4, <3>1, <3>2 DEF Gentle, TapsGentle
    <2> QED
      BY <2>1, <2>2, <2>3, <2>4 DEF Unused
  <1>2. ASSUME NEW s \in Sessions, s > posts'
        PROVE  Unused(s)' /\ \A o \in Requests : request'[o] # None => request'[o].sid # s
    <2>1. Unused(s) /\ \A o \in Requests : request[o] # None => request[o].sid # s
      BY <1>2 DEF Inv, NumbersSound, Gentle, RequestGentle
    <2>2. Unused(s)'
      BY <1>1, <2>1
    <2> QED
      BY <2>1, <2>2 DEF Gentle, RequestGentle
  <1>3. ASSUME NEW o \in Requests, request'[o] # None
        PROVE  request[o] # None /\ request'[o].sid = request[o].sid
               /\ (Early(request'[o]) => Early(request[o]))
    BY <1>3 DEF Gentle, RequestGentle
  <1>4. ASSUME NEW o \in Requests, request'[o] # None, Early(request'[o]),
               NEW s \in Sessions, s = request'[o].sid
        PROVE  /\ Unused(s)'
               /\ \A p \in Requests \ {o} : request'[p] # None => request'[p].sid # s
    <2>1. request[o] # None /\ Early(request[o]) /\ s = request[o].sid
      BY <1>3, <1>4
    <2>2. /\ Unused(s)
          /\ \A p \in Requests \ {o} : request[p] # None => request[p].sid # s
      BY <2>1 DEF Inv, NumbersSound
    <2>3. ~mine(s)
      <3>1. CASE o = q
        BY <1>4, <2>1, <3>1
      <3>2. CASE o # q
        BY <2>2, <3>2
      <3> QED
        BY <3>1, <3>2
    <2>4. Unused(s)'
      BY <1>1, <2>2, <2>3
    <2> QED
      BY <1>3, <2>2, <2>4
  <1>5. ASSUME NEW o \in Requests, request'[o] # None
        PROVE  request'[o].sid \in Sessions
    BY <1>5 DEF TypeOK, Locals
  <1> QED
    BY <1>2, <1>4, <1>5 DEF NumbersSound, Early

\* A session stays with the pair it is under way at.
LEMMA OwnersKept ==
    ASSUME Inv, NEW q \in Requests \cup {None}, Gentle(q), TypeOK'
    PROVE  Owned'
  <1> SUFFICES ASSUME NEW n \in DOMAIN pairs', NEW s \in Sessions, pairs'[n].waits[s] # 0
               PROVE  /\ \A o \in Requests :
                           request'[o] # None /\ request'[o].sid = s => request'[o].pair = n
                      /\ \A w \in Walks :
                           walks'[w] # None /\ walks'[w].first # None /\ walks'[w].sid = s
                           => walks'[w].first.pair = n
                      /\ \A m \in DOMAIN pairs' : \A e \in pairs'[m].seen : e.sid = s => m = n
                      /\ \A o \in Requests :
                           tap'[o] # None /\ tap'[o].first # None /\ tap'[o].first.sid = s
                           => tap'[o].first.pair = n
    BY DEF Owned
  <1>0. ASSUME \A o \in Requests :
                 request'[o] # None /\ request'[o].sid = s => request'[o].pair = n,
               NEW o \in Requests, CapturesFrom(q, o), tap'[o].first.sid = s
        PROVE  tap'[o].first.pair = n
    BY <1>0 DEF CapturesFrom
  <1>1. CASE n \in DOMAIN pairs /\ pairs[n].waits[s] # 0
    <2>2. /\ \A o \in Requests : request[o] # None /\ request[o].sid = s => request[o].pair = n
          /\ \A w \in Walks : walks[w] # None /\ walks[w].first # None /\ walks[w].sid = s
                              => walks[w].first.pair = n
          /\ \A m \in DOMAIN pairs : \A e \in pairs[m].seen : e.sid = s => m = n
          /\ \A o \in Requests :
               tap[o] # None /\ tap[o].first # None /\ tap[o].first.sid = s
               => tap[o].first.pair = n
      BY <1>1 DEF Inv, Owned
    <2>3. ASSUME NEW o \in Requests, request[o] # None, request[o].sid = s
          PROVE  ~Early(request[o])
      BY <1>1, <2>3 DEF Inv, NumbersSound, Unused
    <2>4. ASSUME NEW o \in Requests, request'[o] # None, request'[o].sid = s
          PROVE  request'[o].pair = n
      <3>1. request[o] # None /\ request[o].sid = s
        BY <2>4 DEF Gentle, RequestGentle
      <3>2. request'[o].pair = request[o].pair
        BY <2>3, <2>4, <3>1 DEF Gentle, RequestGentle
      <3> QED
        BY <2>2, <3>1, <3>2
    <2>5. ASSUME NEW w \in Walks, walks'[w] # None, walks'[w].first # None, walks'[w].sid = s
          PROVE  walks'[w].first.pair = n
      <3>1. CASE /\ walks[w] # None
                 /\ walks'[w].sid = walks[w].sid /\ walks'[w].first = walks[w].first
        BY <2>2, <2>5, <3>1
      <3>2. CASE /\ q \in Requests /\ request[q] # None /\ ~Early(request[q])
                 /\ walks'[w].sid = request[q].sid /\ walks'[w].first = request[q].first
        <4>1. request[q].pair = n
          BY <2>2, <2>5, <3>2
        <4>2. request[q].first.pair = request[q].pair
          BY <3>2 DEF Inv, ShapesSound, LocalsSound
        <4> QED
          BY <3>2, <4>1, <4>2
      <3> QED
        BY <2>5, <3>1, <3>2 DEF Gentle, WalksGentle
    <2>6. ASSUME NEW m \in DOMAIN pairs', NEW e \in pairs'[m].seen, e.sid = s
          PROVE  m = n
      <3>1. CASE m \in DOMAIN pairs /\ e \in pairs[m].seen
        BY <2>2, <2>6, <3>1
      <3>2. CASE /\ q \in Requests /\ request[q] # None
                 /\ m = request[q].pair /\ e.sid = request[q].sid
        BY <2>2, <2>6, <3>2
      <3>3. CASE /\ q \in Requests /\ request[q] # None
                 /\ m = request[q].pair /\ Captured(q, e)
        <4>1. e.pair = n
          BY <2>2, <2>6, <3>3 DEF Captured
        <4>2. e.pair = m
          BY <3>3 DEF Captured, Inv, ShapesSound, TapSound
        <4> QED
          BY <4>1, <4>2
      <3> QED
        BY <3>1, <3>2, <3>3 DEF Gentle, MemoryGentle
    <2>7. ASSUME NEW o \in Requests, tap'[o] # None, tap'[o].first # None,
                 tap'[o].first.sid = s
          PROVE  tap'[o].first.pair = n
      BY <1>0, <2>2, <2>4, <2>7 DEF Gentle, TapsGentle
    <2> QED
      BY <2>4, <2>5, <2>6, <2>7
  <1>2. CASE Opens(q, n, s)
    <2>1. /\ Unused(s) /\ Early(request[q]) /\ request'[q].pair = n
          /\ \A o \in Requests \ {q} : request[o] # None => request[o].sid # s
      BY <1>2 DEF Opens, Inv, NumbersSound
    <2>2. ASSUME NEW o \in Requests, request'[o] # None, request'[o].sid = s
          PROVE  request'[o].pair = n
      BY <2>1, <2>2 DEF Gentle, RequestGentle
    <2>3. ASSUME NEW w \in Walks, walks'[w] # None, walks'[w].first # None, walks'[w].sid = s
          PROVE  FALSE
      BY <2>1, <2>3 DEF Gentle, WalksGentle, Unused
    <2>4. ASSUME NEW m \in DOMAIN pairs', NEW e \in pairs'[m].seen, e.sid = s
          PROVE  FALSE
      BY <2>1, <2>4 DEF Gentle, MemoryGentle, Unused, Captured
    <2>5. ASSUME NEW o \in Requests, tap'[o] # None, tap'[o].first # None,
                 tap'[o].first.sid = s
          PROVE  tap'[o].first.pair = n
      BY <1>0, <2>1, <2>2, <2>5 DEF Gentle, TapsGentle, Unused
    <2> QED
      BY <2>2, <2>3, <2>4, <2>5
  <1> QED
    BY <1>1, <1>2 DEF Gentle, WaitsGentle

\* What was seen stays seen.
LEMMA SeenKept ==
    ASSUME NEW q \in Requests \cup {None}, MemoryGentle(q)
    PROVE  /\ \A n \in DOMAIN pairs : \A s, i : Seen(n, s, i) => Seen(n, s, i)'
           /\ \A reply : Evidence(reply) => Evidence(reply)'
  <1>1. \A n \in DOMAIN pairs : \A s, i : Seen(n, s, i) => n \in DOMAIN pairs' /\ Seen(n, s, i)'
    BY DEF MemoryGentle, Seen, Envelope
  <1> QED
    BY <1>1 DEF Evidence

\* A replay on its way does not become acceptable, and the replays already
\* answered stay refused.
LEMMA ReplaysKept ==
    ASSUME Inv, NEW q \in Requests \cup {None}, Gentle(q), NEW o \in Requests \ {q},
           At(o, "replaying")
    PROVE  Replaying(request[o])'
  <1>1. request'[o] = request[o] /\ request[o] # None /\ request[o].at = "replaying"
    BY DEF At, Gentle, RequestGentle
  <1> DEFINE r == request[o]
  <1>2. /\ r.pair \in DOMAIN pairs /\ r.sent.pair = r.pair /\ r.sent.sid = r.sid
        /\ r.sent \in Envelopes
    <2>1. r \in Locals /\ r.pair <= Len(pairs) /\ Len(pairs) \in Nat
      BY <1>1 DEF Inv, TypeOK
    <2>2. ~Early(r)
      BY <1>1 DEF Early
    <2>3. r.pair # 0 /\ r.sent # None /\ r.sent.pair = r.pair /\ r.sent.sid = r.sid
      BY <1>1, <2>2 DEF Inv, ShapesSound, LocalsSound
    <2>4. r.pair \in Nat /\ r.sent \in Envelopes \cup {None}
      BY <2>1 DEF Locals
    <2>5. pairs \in Seq(Pairs)
      BY DEF Inv, TypeOK
    <2> QED
      BY <2>1, <2>3, <2>4, <2>5
  <1>3. /\ r.sent.round = 1 /\ Seen(r.pair, r.sid, 1)
        /\ r.pair = harness.current => r.sent \notin pairs[r.pair].cached
    BY <1>1 DEF Inv, ReplaysSound, Replaying
  <1>4. Envelope(r.pair, r.sid, 1, {}) \in pairs'[r.pair].seen
    BY <1>2, <1>3 DEF Gentle, MemoryGentle, Seen
  <1>5. ASSUME r.pair = harness'.current
        PROVE  r.sent \notin pairs'[r.pair].cached
    <2>1. r.sent \notin pairs[r.pair].cached
      BY <1>2, <1>3, <1>5 DEF Gentle, CurrentGentle
    <2>2. r.sent.altered = {} => r.sent = Envelope(r.pair, r.sid, 1, {})
      BY <1>2, <1>3 DEF Envelopes, Envelope
    <2>3. r.sent.altered = {} => r.sent \in pairs[r.pair].seen
      BY <1>3, <2>2 DEF Seen
    <2> QED
      BY <1>2, <1>3, <2>1, <2>3 DEF Gentle, MemoryGentle
  <1> QED
    BY <1>1, <1>3, <1>4, <1>5 DEF Replaying, Seen, Envelope

\* The closures of other requests stay sound: one that captures a message now
\* has not sent its own first one, whose session is nobody else's.
LEMMA TapsKept ==
    ASSUME Inv, NEW q \in Requests \cup {None}, RequestGentle(q), TapsGentle(q),
           NEW o \in Requests \ {q}
    PROVE  TapSound(o)'
  <1>1. /\ request'[o] = request[o] /\ TapSound(o)
        /\ tap'[o] = None <=> tap[o] = None
    BY DEF RequestGentle, TapsGentle, Inv, ShapesSound
  <1>2. CASE tap[o] = None
    BY <1>1, <1>2 DEF TapSound
  <1>3. CASE tap[o] # None
    <2>1. tap'[o].pair = tap[o].pair /\ (tap[o].first # None => tap'[o].first = tap[o].first)
      BY <1>3 DEF TapsGentle
    <2>2. ASSUME tap[o].first = None, tap'[o].first # None
          PROVE  tap'[o].first.pair = tap'[o].pair /\ tap'[o].first.sid # request[o].sid
      <3>1. request[o] # None /\ Early(request[o])
        BY <1>1, <1>3, <2>2 DEF TapSound
      <3>2. CapturesFrom(q, o)
        BY <1>1, <1>3, <2>2 DEF TapsGentle
      <3>3. q \in Requests /\ request[q] # None /\ request'[q].sid = request[q].sid
        BY <3>2 DEF CapturesFrom, RequestGentle
      <3>4. request[q].sid # request[o].sid
        BY <3>1, <3>3 DEF Inv, NumbersSound
      <3> QED
        BY <3>2, <3>3, <3>4 DEF CapturesFrom
    <2>3. tap'[o].first # None => /\ tap'[o].first.pair = tap'[o].pair
                                  /\ tap'[o].first.sid = request[o].sid => tap'[o].first.round = 1
      BY <1>1, <1>3, <2>1, <2>2 DEF TapSound
    <2> QED
      BY <1>1, <1>3, <2>1, <2>3 DEF TapSound
  <1> QED
    BY <1>2, <1>3

\* A request whose replay was answered, and which has its own session back, got
\* a refusal.
RefusedAgain(r) == r.at = "replayed" /\ r.reply # None /\ r.reply.sid = r.sid => ~r.reply.ok

\* What a step has to show besides: where its request is now, what it knows
\* and what the receivers keep.
OwnPartSound(q) ==
    /\ q \in Requests => TapSound(q)
    /\ q \in Requests /\ request[q] # None
       => /\ LocalsSound(request[q])
          /\ Evidence(request[q].reply)
          /\ request[q].at = "replaying" => Replaying(request[q])
          /\ RefusedAgain(request[q])
    /\ \A n \in DOMAIN pairs :
         /\ PairSound(n)
         /\ \A s \in Sessions : pairs[n].waits[s] = 2 => Seen(n, s, 1)
         /\ \A s \in pairs[n].results : Seen(n, s, 1) /\ Seen(n, s, 2)

LEMMA GentleStepKeeps ==
    ASSUME Inv, NEW q \in Requests \cup {None}, Gentle(q), TypeOK', HarnessSound',
           OwnPartSound(q)'
    PROVE  Inv'
  <1>1. ASSUME NEW o \in Requests \ {q}, request'[o] # None
        PROVE  request'[o] = request[o] /\ request[o] # None
    BY <1>1 DEF Gentle, RequestGentle
  <1>2. ASSUME NEW o \in Requests, request'[o] # None
        PROVE  LocalsSound(request[o])' /\ Evidence(request[o].reply)'
    <2>1. CASE o = q
      BY <1>2, <2>1 DEF OwnPartSound
    <2>2. CASE o # q
      <3>1. o \in Requests \ {q} /\ request'[o] = request[o] /\ request[o] # None
        BY <1>1, <1>2, <2>2
      <3>2. LocalsSound(request[o]) /\ Evidence(request[o].reply)
        BY <3>1 DEF Inv, ShapesSound, EvidenceSound
      <3>3. LocalsSound(request[o])'
        BY <3>1, <3>2 DEF Gentle, WalksGentle, CurrentGentle, LocalsSound, Early
      <3>4. ASSUME NEW reply, reply = request[o].reply PROVE Evidence(reply)'
        BY <3>2, <3>4, SeenKept DEF Gentle
      <3>5. Evidence(request[o].reply)'
        BY <3>1, <3>4
      <3> QED
        BY <3>3, <3>5
    <2> QED
      BY <2>1, <2>2
  <1>3. ASSUME NEW w \in Walks, walks'[w] # None
        PROVE  WalkSound(walks[w])' /\ Evidence(walks[w].reply)'
    <2>1. CASE walks'[w].first = None /\ walks'[w].reply = None
      BY <2>1 DEF WalkSound, Evidence
    <2>2. CASE /\ walks[w] # None
               /\ walks'[w].sid = walks[w].sid /\ walks'[w].first = walks[w].first
               /\ walks'[w].reply = walks[w].reply
      <3>1. WalkSound(walks[w]) /\ Evidence(walks[w].reply)
        BY <2>2 DEF Inv, ShapesSound, EvidenceSound
      <3>2. WalkSound(walks[w])'
        BY <2>2, <3>1 DEF WalkSound, Gentle, CurrentGentle
      <3>3. ASSUME NEW reply, reply = walks[w].reply PROVE Evidence(reply)'
        BY <3>1, <3>3, SeenKept DEF Gentle
      <3>4. Evidence(walks[w].reply)'
        BY <2>2, <3>3
      <3> QED
        BY <3>2, <3>4
    <2>3. CASE /\ q \in Requests /\ request[q] # None /\ ~Early(request[q])
               /\ walks[w] # None
               /\ walks'[w].sid = request[q].sid /\ walks'[w].first = request[q].first
               /\ walks'[w].reply \in {walks[w].reply, request[q].reply}
      <3>1. LocalsSound(request[q]) /\ Evidence(request[q].reply) /\ Evidence(walks[w].reply)
        BY <2>3 DEF Inv, ShapesSound, EvidenceSound
      <3>2. request[q].sid \in Sessions
        BY <2>3 DEF Inv, TypeOK, Locals
      <3>3. WalkSound(walks[w])'
        BY <2>3, <3>1, <3>2 DEF LocalsSound, Early, WalkSound, Gentle, CurrentGentle
      <3>4. ASSUME NEW reply, reply \in {walks[w].reply, request[q].reply}
            PROVE  Evidence(reply)'
        BY <3>1, <3>4, SeenKept DEF Gentle
      <3>5. Evidence(walks[w].reply)'
        BY <2>3, <3>4
      <3> QED
        BY <3>3, <3>5
    <2> QED
      BY <1>3, <2>1, <2>2, <2>3 DEF Gentle, WalksGentle
  <1>4. ShapesSound'
    <2>1. ASSUME NEW o \in Requests PROVE TapSound(o)'
      <3>1. CASE o = q
        BY <3>1 DEF OwnPartSound
      <3>2. CASE o # q
        BY <3>2, TapsKept DEF Gentle
      <3> QED
        BY <3>1, <3>2
    <2> QED
      BY <1>2, <1>3, <2>1 DEF ShapesSound, OwnPartSound
  <1>5. EvidenceSound'
    BY <1>2, <1>3 DEF EvidenceSound, OwnPartSound
  <1>6. ResultFromBothRounds'
    BY DEF OwnPartSound, ResultFromBothRounds, Seen
  <1>7. ReplaysSound'
    <2>1. ASSUME NEW o \in Requests, At(o, "replaying")'
          PROVE  Replaying(request[o])'
      <3>1. CASE o = q
        BY <2>1, <3>1 DEF At, OwnPartSound
      <3>2. CASE o # q
        BY <1>1, <2>1, <3>2, ReplaysKept DEF At
      <3> QED
        BY <3>1, <3>2
    <2>2. ASSUME NEW o \in Requests, At(o, "replayed")', request'[o].reply # None,
                 request'[o].reply.sid = request'[o].sid
          PROVE  ~request'[o].reply.ok
      <3>1. CASE o = q
        BY <2>2, <3>1 DEF At, OwnPartSound, RefusedAgain
      <3>2. CASE o # q
        <4>1. request'[o] = request[o] /\ request[o] # None
          BY <1>1, <2>2, <3>2 DEF At
        <4> QED
          BY <2>2, <4>1 DEF Inv, ReplaysSound, ReplayIsRefused, At
      <3> QED
        BY <3>1, <3>2
    <2> QED
      BY <2>1, <2>2 DEF ReplaysSound, ReplayIsRefused
  <1> QED
    BY <1>4, <1>5, <1>6, <1>7, NumbersKept, OwnersKept DEF Inv

-----------------------------------------------------------------------------
(* Steps after which the receivers know what they knew.                     *)

\* At most a session is closed, a cache cleared, or a new pair added.
Quiet(ps) ==
    /\ \A n \in DOMAIN pairs :
         /\ n \in DOMAIN ps
         /\ ps[n].seen = pairs[n].seen /\ ps[n].results = pairs[n].results
         /\ ps[n].cached \subseteq pairs[n].cached
         /\ \A s \in Sessions : ps[n].waits[s] \in {0, pairs[n].waits[s]}
    /\ \A n \in DOMAIN ps \ DOMAIN pairs :
         /\ ps[n].seen = {} /\ ps[n].cached = {} /\ ps[n].results = {}
         /\ \A s \in Sessions : ps[n].waits[s] = 0
PairsQuiet == Quiet(pairs')

\* What the local variables have to be after the step, when nothing new is known.
RequestSound(q) ==
    /\ q \in Requests => TapSound(q)
    /\ q \in Requests /\ request[q] # None
       => /\ LocalsSound(request[q])
          /\ Evidence(request[q].reply)
          /\ request[q].at = "replaying" => Replaying(request[q])
          /\ RefusedAgain(request[q])

LEMMA QuietStepKeeps ==
    ASSUME Inv, NEW q \in Requests \cup {None}, PairsQuiet, RequestGentle(q), WalksGentle(q),
           TapsGentle(q), CurrentGentle, TypeOK', HarnessSound', RequestSound(q)'
    PROVE  Inv'
  <1>1. MemoryGentle(q) /\ WaitsGentle(q)
    BY DEF PairsQuiet, Quiet, MemoryGentle, WaitsGentle
  <1>2. ASSUME NEW n \in DOMAIN pairs'
        PROVE  /\ PairSound(n)'
               /\ \A s \in Sessions : pairs'[n].waits[s] = 2 => Seen(n, s, 1)'
               /\ \A s \in pairs'[n].results : Seen(n, s, 1)' /\ Seen(n, s, 2)'
    <2>1. CASE n \in DOMAIN pairs
      <3>1. PairSound(n) /\ \A s \in Sessions : pairs[n].waits[s] = 2 => Seen(n, s, 1)
        BY <2>1 DEF Inv, ShapesSound, EvidenceSound
      <3>2. \A s \in pairs[n].results : Seen(n, s, 1) /\ Seen(n, s, 2)
        BY <2>1 DEF Inv, ResultFromBothRounds, Seen
      <3>3. /\ pairs'[n].seen = pairs[n].seen /\ pairs'[n].results = pairs[n].results
            /\ pairs'[n].cached \subseteq pairs[n].cached
            /\ \A s \in Sessions : pairs'[n].waits[s] \in {0, pairs[n].waits[s]}
        BY <2>1 DEF PairsQuiet, Quiet
      <3> QED
        BY <3>1, <3>2, <3>3 DEF PairSound, Seen
    <2>2. CASE n \notin DOMAIN pairs
      <3>1. /\ pairs'[n].seen = {} /\ pairs'[n].cached = {} /\ pairs'[n].results = {}
            /\ \A s \in Sessions : pairs'[n].waits[s] = 0
        BY <2>2 DEF PairsQuiet, Quiet
      <3> QED
        BY <3>1 DEF PairSound
    <2> QED
      BY <2>1, <2>2
  <1>3. OwnPartSound(q)'
    BY <1>2 DEF OwnPartSound, RequestSound
  <1> QED
    BY <1>1, <1>3, GentleStepKeeps DEF Gentle

\* A step that leaves the harness alone and takes nobody to start agents.
LEMMA HarnessKept ==
    ASSUME Inv, NEW q \in Requests \cup {None}, harness' = harness, RequestGentle(q),
           q \in Requests => ~At(q, "start")'
    PROVE  HarnessSound' /\ CurrentGentle
  <1>1. ASSUME NEW o \in Requests, At(o, "start")'
        PROVE  harness.owner = o
    <2>1. o # q
      BY <1>1
    <2>2. request'[o] = request[o]
      BY <2>1 DEF RequestGentle
    <2> QED
      BY <1>1, <2>2 DEF At, Inv, HarnessSound
  <1> QED
    BY <1>1 DEF Inv, HarnessSound, CurrentGentle

LEMMA SamePairs ==
    ASSUME pairs' = pairs
    PROVE  PairsQuiet
  BY DEF PairsQuiet, Quiet

LEMMA SameWalks ==
    ASSUME walks' = walks, NEW q
    PROVE  WalksGentle(q)
  BY DEF WalksGentle

\* A step that touches no closure, of a request whose pair is set already or
\* that has none in a chain.
LEMMA SameTaps ==
    ASSUME tap' = tap, NEW q
    PROVE  TapsGentle(q)
  BY DEF TapsGentle

LEMMA OwnTapStays ==
    ASSUME Inv, NEW q \in Requests, tap' = tap, request[q] # None, request'[q] # None,
           request'[q].pair = request[q].pair, request'[q].sid = request[q].sid,
           request'[q].kind = request[q].kind, request'[q].attacks = request[q].attacks,
           Early(request'[q]) <=> Early(request[q]),
           request'[q].at \in {"ensure", "start"} <=> request[q].at \in {"ensure", "start"}
    PROVE  TapSound(q)'
  <1>1. TapSound(q)
    BY DEF Inv, ShapesSound
  <1> QED
    BY <1>1 DEF TapSound

\* A message passes through the chain of its pair: the closures that listen
\* there hold it from now on, that of the sender included.
LEMMA PassKeepsTaps ==
    ASSUME Inv, NEW q \in Requests, NEW p, NEW e \in Envelopes, Pass(p, e), e.pair = p,
           request'[q] # None, ~Early(request'[q]), request'[q].sid = e.sid,
           request'[q].pair = p
    PROVE  /\ tap' \in [Requests -> Taps \cup {None}]
           /\ TapsGentle(q)
           /\ tap[q] = None => tap'[q] = None
           /\ tap[q] # None => /\ tap'[q] # None /\ tap'[q].pair = tap[q].pair
                               /\ tap[q].first # None => tap'[q].first = tap[q].first
                               /\ tap[q].first = None /\ tap[q].pair = p
                                  => /\ tap'[q].first # None /\ tap'[q].first.pair = p
                                     /\ tap'[q].first.round = e.round
  <1>1. tap \in [Requests -> Taps \cup {None}]
    BY DEF Inv, TypeOK
  <1>2. ASSUME NEW o \in Requests, Listens(o, p)
        PROVE  /\ tap'[o] \in Taps /\ tap'[o].pair = p /\ tap[o].pair = p /\ tap[o] # None
               /\ tap[o].first = None /\ tap'[o].first \in Envelopes
               /\ tap'[o].first.pair = p /\ tap'[o].first.sid = e.sid
               /\ tap'[o].first.round = e.round
    <2> DEFINE held == [e EXCEPT !.altered = @ \cup tap[o].outer]
    <2>1. tap[o] \in Taps /\ tap[o].pair = p /\ tap[o].first = None /\ tap[o] # None
      BY <1>1, <1>2 DEF Listens
    <2>2. tap[o].outer \in SUBSET Tamperings
      BY <2>1 DEF Taps
    <2>3. held \in Envelopes /\ held.pair = e.pair /\ held.sid = e.sid /\ held.round = e.round
      BY <2>2 DEF Envelopes
    <2>4. tap'[o] = [tap[o] EXCEPT !.first = held]
      BY <1>2 DEF Pass
    <2> HIDE DEF held
    <2> QED
      BY <2>1, <2>3, <2>4 DEF Taps
  <1>3. ASSUME NEW o \in Requests, ~Listens(o, p)
        PROVE  tap'[o] = tap[o]
    BY <1>3 DEF Pass
  <1>4. ASSUME NEW o \in Requests PROVE tap'[o] \in Taps \cup {None}
    BY <1>1, <1>2, <1>3
  <1>5. tap' \in [Requests -> Taps \cup {None}]
    BY <1>4 DEF Pass
  <1>6. ASSUME NEW o \in Requests, Listens(o, p)
        PROVE  tap'[o] # None /\ tap'[o].first # None /\ CapturesFrom(q, o)
    BY <1>2, <1>6, NoneAssumption DEF CapturesFrom
  <1>7. TapsGentle(q)
    BY <1>2, <1>3, <1>6 DEF TapsGentle
  <1>8. Listens(q, p) <=> tap[q] # None /\ tap[q].pair = p /\ tap[q].first = None
    BY DEF Listens
  <1> QED
    BY <1>2, <1>3, <1>5, <1>6, <1>7, <1>8

\* The own closure after the message has passed.
LEMMA OwnTapPasses ==
    ASSUME Inv, NEW q \in Requests, NEW e \in Envelopes, request[q] # None,
           Pass(request[q].pair, e), e.pair = request[q].pair, e.sid = request[q].sid,
           request'[q] # None, ~Early(request'[q]), request'[q].pair = request[q].pair,
           request'[q].sid = request[q].sid, request'[q].kind = request[q].kind,
           request'[q].attacks = request[q].attacks,
           request[q].at \notin {"ensure", "start"},
           e.round = 1 \/ ~Early(request[q])
    PROVE  TapSound(q)'
  <1> DEFINE p == request[q].pair
  <1>1. TapSound(q)
    BY DEF Inv, ShapesSound
  <1>2. /\ tap[q] = None => tap'[q] = None
        /\ tap[q] # None => /\ tap'[q] # None /\ tap'[q].pair = tap[q].pair
                            /\ tap[q].first # None => tap'[q].first = tap[q].first
                            /\ tap[q].first = None /\ tap[q].pair = p
                               => /\ tap'[q].first # None /\ tap'[q].first.pair = p
                                  /\ tap'[q].first.round = e.round
    BY PassKeepsTaps
  <1>3. request'[q].at \notin {"ensure", "start"}
    BY DEF Early
  <1>4. CASE tap[q] = None
    BY <1>1, <1>2, <1>4 DEF TapSound
  <1>5. CASE tap[q] # None
    <2>1. tap[q].pair = p
      BY <1>1, <1>5 DEF TapSound
    <2>2. CASE tap[q].first # None
      BY <1>1, <1>2, <1>3, <1>5, <2>1, <2>2 DEF TapSound
    <2>3. CASE tap[q].first = None
      <3>1. e.round = 1
        BY <1>1, <1>5, <2>3 DEF TapSound
      <3> QED
        BY <1>2, <1>3, <1>5, <2>1, <2>3, <3>1 DEF TapSound
    <2> QED
      BY <2>2, <2>3
  <1> QED
    BY <1>4, <1>5

\* Local variables that are written again.
BegunAs(r, new, at, p, attacks) == new = [r EXCEPT !.at = at, !.pair = p, !.attacks = attacks]
AnsweredAs(r, new, at, reply)   == new = [r EXCEPT !.at = at, !.reply = reply]
SentAs(r, new, at, sent)        == new = [r EXCEPT !.at = at, !.sent = sent]

LEMMA LocalsBegin ==
    ASSUME NEW r \in Locals, NEW at \in Stages, NEW p \in Nat, NEW attacks \in SUBSET Attacks,
           NEW new, BegunAs(r, new, at, p, attacks)
    PROVE  /\ new \in Locals /\ new.at = at /\ new.pair = p /\ new.kind = r.kind
           /\ new.sid = r.sid /\ new.walk = r.walk /\ new.reply = r.reply
           /\ new.attacks = attacks
  BY DEF Locals, BegunAs

LEMMA LocalsAnswered ==
    ASSUME NEW r \in Locals, NEW at \in Stages, NEW reply \in Replies \cup {None},
           NEW new, AnsweredAs(r, new, at, reply)
    PROVE  /\ new \in Locals /\ new.at = at /\ new.pair = r.pair /\ new.kind = r.kind
           /\ new.sid = r.sid /\ new.walk = r.walk /\ new.reply = reply
           /\ new.first = r.first /\ new.sent = r.sent /\ new.attacks = r.attacks
  BY DEF Locals, AnsweredAs

LEMMA LocalsSend ==
    ASSUME NEW r \in Locals, NEW at \in Stages, NEW sent \in Envelopes,
           NEW new, SentAs(r, new, at, sent)
    PROVE  /\ new \in Locals /\ new.at = at /\ new.pair = r.pair /\ new.kind = r.kind
           /\ new.sid = r.sid /\ new.walk = r.walk /\ new.reply = r.reply
           /\ new.first = r.first /\ new.sent = sent /\ new.attacks = r.attacks
  BY DEF Locals, SentAs

\* A request that is over.
LEMMA OverSound ==
    ASSUME TypeOK, NEW q \in Requests, request' = [request EXCEPT ![q] = None],
           tap'[q] = None, posts' = posts
    PROVE  /\ RequestGentle(q) /\ RequestSound(q)' /\ ~At(q, "start")'
           /\ request' \in [Requests -> Locals \cup {None}]
           /\ \A o \in Requests : request'[o] # None => request'[o] = request[o]
  <1>1. /\ request'[q] = None /\ \A o \in Requests \ {q} : request'[o] = request[o]
        /\ request' \in [Requests -> Locals \cup {None}]
    BY DEF TypeOK
  <1> QED
    BY <1>1 DEF RequestGentle, RequestSound, TapSound, At

\* A request that is answered is over, and so is its closure.
LEMMA AnswerEnds ==
    ASSUME TypeOK, NEW q \in Requests, Answer(q), posts' = posts
    PROVE  /\ RequestGentle(q) /\ RequestSound(q)' /\ ~At(q, "start")' /\ TapsGentle(q)
           /\ request' \in [Requests -> Locals \cup {None}]
           /\ tap' \in [Requests -> Taps \cup {None}]
           /\ \A o \in Requests : request'[o] # None => request'[o] = request[o]
  <1>1. /\ request' = [request EXCEPT ![q] = None] /\ tap' = [tap EXCEPT ![q] = None]
        /\ tap \in [Requests -> Taps \cup {None}]
    BY DEF Answer, TypeOK
  <1>2. /\ tap'[q] = None /\ \A o \in Requests \ {q} : tap'[o] = tap[o]
        /\ tap' \in [Requests -> Taps \cup {None}]
    BY <1>1
  <1>3. TapsGentle(q)
    BY <1>2 DEF TapsGentle
  <1> QED
    BY <1>1, <1>2, <1>3, OverSound

\* One pair changes.
LEMMA PairChanges ==
    ASSUME TypeOK, NEW p \in DOMAIN pairs, NEW new \in Pairs,
           pairs' = [pairs EXCEPT ![p] = new]
    PROVE  /\ pairs' \in Seq(Pairs) /\ Len(pairs') = Len(pairs)
           /\ DOMAIN pairs' = DOMAIN pairs /\ pairs'[p] = new
           /\ \A n \in DOMAIN pairs \ {p} : pairs'[n] = pairs[n]
  <1>1. pairs \in Seq(Pairs)
    BY DEF TypeOK
  <1> QED
    BY <1>1

LEMMA CallFailsKeeps ==
    ASSUME Inv, NEW q \in Requests, CallFails(q) \/ ShowReplay(q)
    PROVE  Inv'
  <1>1. /\ Answer(q) /\ harness' = harness /\ pairs' = pairs /\ posted' = posted
        /\ walks' = walks /\ posts' = posts
    BY DEF CallFails, ShowReplay
  <1>2. TypeOK
    BY DEF Inv
  <1>3. TypeOK'
    BY <1>1, <1>2, AnswerEnds DEF TypeOK
  <1> QED
    BY <1>1, <1>2, <1>3, AnswerEnds, HarnessKept, SamePairs, SameWalks, QuietStepKeeps

LEMMA BuildFailsKeeps ==
    ASSUME Inv, NEW q \in Requests, BuildFails(q)
    PROVE  Inv'
  <1>1. /\ Answer(q) /\ harness' = [harness EXCEPT !.owner = None] /\ pairs' = pairs
        /\ posted' = posted /\ walks' = walks /\ posts' = posts /\ At(q, "start")
    BY DEF BuildFails, HarnessAfterFailure
  <1>2. TypeOK
    BY DEF Inv
  <1>3. /\ harness'.owner = None /\ harness'.serves = harness.serves
        /\ harness'.current = harness.current /\ harness'.lab = harness.lab
        /\ harness' \in [owner : Requests \cup {None}, serves : SUBSET (DOMAIN pairs),
                         current : 0..Len(pairs), lab : Labs \cup {None}]
    BY <1>1, <1>2 DEF TypeOK
  <1>4. TypeOK'
    BY <1>1, <1>2, <1>3, AnswerEnds DEF TypeOK
  <1>5. \A o \in Requests : ~At(o, "start")'
    <2>1. ASSUME NEW o \in Requests, At(o, "start")' PROVE FALSE
      <3>1. o # q /\ At(o, "start")
        BY <1>1, <1>2, <2>1, AnswerEnds DEF At
      <3> QED
        BY <1>1, <3>1 DEF Inv, HarnessSound
    <2> QED
      BY <2>1
  <1>6. HarnessSound' /\ CurrentGentle
    BY <1>3, <1>5 DEF Inv, HarnessSound, CurrentGentle
  <1> QED
    BY <1>1, <1>2, <1>4, <1>6, AnswerEnds, SamePairs, SameWalks, QuietStepKeeps

\* The round a session waits for changes, at one pair.
SetsWait(p, s, v) == pairs' = [pairs EXCEPT ![p].waits[s] = v]

SamePairsBut(p, s, v) ==
    /\ pairs' \in Seq(Pairs) /\ Len(pairs') = Len(pairs) /\ DOMAIN pairs' = DOMAIN pairs
    /\ \A n \in DOMAIN pairs :
         /\ pairs'[n].seen = pairs[n].seen /\ pairs'[n].cached = pairs[n].cached
         /\ pairs'[n].results = pairs[n].results
         /\ \A t \in Sessions :
              pairs'[n].waits[t] = IF n = p /\ t = s THEN v ELSE pairs[n].waits[t]

LEMMA WaitChanges ==
    ASSUME TypeOK, NEW p \in DOMAIN pairs, NEW s \in Sessions, NEW v \in 0..2,
           SetsWait(p, s, v)
    PROVE  SamePairsBut(p, s, v)
  <1> DEFINE new == [pairs[p] EXCEPT !.waits = [pairs[p].waits EXCEPT ![s] = v]]
  <1>1. pairs[p] \in Pairs
    BY DEF TypeOK
  <1>2. /\ new \in Pairs /\ new.seen = pairs[p].seen /\ new.cached = pairs[p].cached
        /\ new.results = pairs[p].results
        /\ \A t \in Sessions : new.waits[t] = IF t = s THEN v ELSE pairs[p].waits[t]
    BY <1>1 DEF Pairs
  <1>3. pairs' = [pairs EXCEPT ![p] = new]
    BY DEF SetsWait
  <1> HIDE DEF new
  <1>4. /\ pairs' \in Seq(Pairs) /\ Len(pairs') = Len(pairs)
        /\ DOMAIN pairs' = DOMAIN pairs /\ pairs'[p] = new
        /\ \A n \in DOMAIN pairs \ {p} : pairs'[n] = pairs[n]
    BY <1>2, <1>3, PairChanges
  <1> QED
    BY <1>2, <1>4 DEF SamePairsBut

\* A session is closed.
LEMMA WaitEnds ==
    ASSUME TypeOK, NEW p \in DOMAIN pairs, NEW s \in Sessions, SetsWait(p, s, 0)
    PROVE  /\ PairsQuiet
           /\ pairs' \in Seq(Pairs) /\ Len(pairs') = Len(pairs) /\ DOMAIN pairs' = DOMAIN pairs
  <1>1. 0 \in 0..2
    OBVIOUS
  <1>2. SamePairsBut(p, s, 0)
    BY <1>1, WaitChanges
  <1> QED
    BY <1>2 DEF PairsQuiet, Quiet, SamePairsBut

LEMMA PairsKeepTypes ==
    ASSUME TypeOK, pairs' \in Seq(Pairs), Len(pairs') = Len(pairs), DOMAIN pairs' = DOMAIN pairs,
           harness' = harness, posted' = posted, posts' = posts,
           walks' \in [Walks -> WalkState \cup {None}],
           request' \in [Requests -> Locals \cup {None}],
           tap' \in [Requests -> Taps \cup {None}],
           \A o \in Requests : request'[o] # None =>
              request'[o].pair <= Len(pairs)
    PROVE  TypeOK'
  BY DEF TypeOK

\* A pair is under way where a request or the harness says so.
LEMMA PairExists ==
    ASSUME Inv
    PROVE  /\ \A q \in Requests :
                request[q] # None /\ request[q].at \notin {"ensure", "start"}
                => request[q].pair \in DOMAIN pairs
           /\ harness.current # 0 => harness.current \in DOMAIN pairs
  <1>1. /\ pairs \in Seq(Pairs) /\ harness.current \in 0..Len(pairs)
        /\ request \in [Requests -> Locals \cup {None}]
        /\ \A q \in Requests : request[q] # None => request[q].pair <= Len(pairs)
    BY DEF Inv, TypeOK
  <1>2. ASSUME NEW q \in Requests, request[q] # None, request[q].at \notin {"ensure", "start"}
        PROVE  request[q].pair \in DOMAIN pairs
    <2>1. request[q].pair # 0
      BY <1>2 DEF Inv, ShapesSound, LocalsSound
    <2>2. request[q].pair \in Nat /\ request[q].pair <= Len(pairs)
      BY <1>1, <1>2 DEF Locals
    <2> QED
      BY <1>1, <2>1, <2>2
  <1> QED
    BY <1>1, <1>2

LEMMA GivesUpKeeps ==
    ASSUME Inv, NEW q \in Requests, GivesUp(q)
    PROVE  Inv'
  <1>1. /\ Answer(q) /\ harness' = harness /\ posted' = posted /\ walks' = walks
        /\ posts' = posts /\ TypeOK /\ At(q, "answered")
    BY DEF GivesUp, Inv
  <1>2. request[q].pair \in DOMAIN pairs /\ request[q].sid \in Sessions
    BY <1>1, PairExists DEF At, TypeOK, Locals
  <1>3. /\ PairsQuiet
        /\ pairs' \in Seq(Pairs) /\ Len(pairs') = Len(pairs) /\ DOMAIN pairs' = DOMAIN pairs
    <2>1. CASE pairs' = pairs
      BY <1>1, <2>1, SamePairs DEF TypeOK
    <2>2. CASE pairs' = [pairs EXCEPT ![request[q].pair].waits[request[q].sid] = 0]
      BY <1>1, <1>2, <2>2, WaitEnds DEF SetsWait
    <2> QED
      BY <2>1, <2>2 DEF GivesUp
  <1>4. TypeOK'
    <2>1. walks' \in [Walks -> WalkState \cup {None}]
      BY <1>1 DEF TypeOK
    <2>2. \A o \in Requests : request'[o] # None => request'[o].pair <= Len(pairs)
      BY <1>1, AnswerEnds DEF TypeOK
    <2> QED
      BY <1>1, <1>3, <2>1, <2>2, AnswerEnds, PairsKeepTypes
  <1> QED
    BY <1>1, <1>3, <1>4, AnswerEnds, HarnessKept, SameWalks, QuietStepKeeps

\* Steps of no request.
LEMMA NoRequest ==
    ASSUME request' = request, tap' = tap, posts' = posts
    PROVE  /\ RequestGentle(None) /\ RequestSound(None)' /\ None \notin Requests
           /\ TapsGentle(None)
  BY NoneAssumption, SameTaps DEF RequestGentle, RequestSound

LEMMA FinalizeRaisesKeeps ==
    ASSUME Inv, NEW w \in Walks, FinalizeRaises(w)
    PROVE  Inv'
  <1> DEFINE p == harness.current
             k == walks[w]
  <1>1. /\ harness' = harness /\ posted' = posted /\ walks' = walks /\ request' = request
        /\ tap' = tap /\ posts' = posts /\ TypeOK /\ k # None /\ k.reply # None
        /\ pairs' = [pairs EXCEPT ![p].waits[k.sid] = 0]
    BY DEF FinalizeRaises, Inv, Known, IsReply
  <1>2. k.sid \in Sessions /\ p # 0
    BY <1>1 DEF Inv, ShapesSound, WalkSound
  <1>3. p \in DOMAIN pairs
    BY <1>2, PairExists
  <1>4. /\ PairsQuiet
        /\ pairs' \in Seq(Pairs) /\ Len(pairs') = Len(pairs) /\ DOMAIN pairs' = DOMAIN pairs
    BY <1>1, <1>2, <1>3, WaitEnds DEF SetsWait
  <1>5. TypeOK'
    BY <1>1, <1>4, PairsKeepTypes DEF TypeOK
  <1> QED
    BY <1>1, <1>4, <1>5, NoRequest, HarnessKept, SameWalks, QuietStepKeeps

LEMMA WalkStepKeeps ==
    ASSUME Inv, NEW w \in Walks, PostReset(w) \/ ForgetWalk(w)
    PROVE  Inv'
  <1>1. /\ harness' = harness /\ posted' = posted /\ pairs' = pairs /\ request' = request
        /\ tap' = tap /\ posts' = posts /\ TypeOK
    BY DEF PostReset, ForgetWalk, Inv
  <1>2. PICK new \in {NewWalk, Gone} : walks' = [walks EXCEPT ![w] = new]
    BY DEF PostReset, ForgetWalk
  <1>3. /\ new \in WalkState /\ new.sid = None /\ new.first = None /\ new.reply = None
        /\ new # None
    <2>1. NewWalk \in WalkState /\ Gone \in WalkState
      BY DEF NewWalk, Gone, WalkState
    <2>2. new.sid = None /\ new.first = None /\ new.reply = None
      BY DEF NewWalk, Gone
    <2> QED
      BY <2>1, <2>2, NoneAssumption
  <1>4. /\ walks' \in [Walks -> WalkState \cup {None}] /\ walks'[w] = new
        /\ \A o \in Walks \ {w} : walks'[o] = walks[o]
    BY <1>1, <1>2, <1>3 DEF TypeOK
  <1>5. WalksGentle(None)
    BY <1>3, <1>4 DEF WalksGentle
  <1>6. TypeOK'
    BY <1>1, <1>4 DEF TypeOK
  <1> QED
    BY <1>1, <1>5, <1>6, NoRequest, HarnessKept, SamePairs, QuietStepKeeps

LEMMA StoreAnswerKeeps ==
    ASSUME Inv, NEW q \in Requests, StoreAnswer(q)
    PROVE  Inv'
  <1> DEFINE r == request[q]
             k == walks[r.walk]
             reply == IF r.reply = None THEN k.reply ELSE r.reply
             new == [k EXCEPT !.sid = r.sid, !.first = r.first, !.attacks = r.attacks,
                              !.reply = reply]
  <1>1. /\ Answer(q) /\ harness' = harness /\ posted' = posted /\ pairs' = pairs
        /\ posts' = posts /\ TypeOK /\ r # None /\ r.at = "answered" /\ r.kind = "send"
        /\ Update(r.walk, new)
    BY DEF StoreAnswer, Inv, At
  <1>2. /\ r \in Locals /\ r.walk \in Walks /\ k \in WalkState /\ k # None /\ ~Early(r)
    BY <1>1 DEF TypeOK, Inv, ShapesSound, LocalsSound, Early
  <1>3. reply \in Replies \cup {None} /\ reply \in {k.reply, r.reply}
    BY <1>2 DEF Locals, WalkState
  <1> HIDE DEF reply
  <1>4. /\ new \in WalkState /\ new.sid = r.sid /\ new.first = r.first /\ new.reply = reply
    BY <1>2, <1>3 DEF Locals, WalkState
  <1> HIDE DEF new
  <1>5. /\ walks' \in [Walks -> WalkState \cup {None}]
        /\ walks'[r.walk] \in {new, k}
        /\ \A o \in Walks \ {r.walk} : walks'[o] = walks[o]
    BY <1>1, <1>2, <1>4 DEF Update, TypeOK
  <1>6. WalksGentle(q)
    BY <1>1, <1>2, <1>3, <1>4, <1>5, NoneAssumption DEF WalksGentle
  <1>7. TypeOK'
    BY <1>1, <1>5, AnswerEnds DEF TypeOK
  <1> QED
    BY <1>1, <1>6, <1>7, AnswerEnds, HarnessKept, SamePairs, QuietStepKeeps

-----------------------------------------------------------------------------
(* _ensure_agents, and what follows it.                                     *)

LEMMA StopKeeps ==
    ASSUME Inv, NEW q \in Requests, Stop(q)
    PROVE  Inv'
  <1> DEFINE new == [request[q] EXCEPT !.at = "start"]
  <1>1. /\ request[q] # None /\ request[q].at = "ensure" /\ harness.owner = None
        /\ harness' = [harness EXCEPT !.owner = q, !.serves = {}]
        /\ request' = [request EXCEPT ![q] = new]
        /\ pairs' = pairs /\ posted' = posted /\ walks' = walks /\ posts' = posts /\ TypeOK
        /\ tap' = tap
    BY DEF Stop, At, LockFree, Step, Inv
  <1>2. request[q] \in Locals
    BY <1>1 DEF TypeOK
  <1>3. /\ new \in Locals /\ new.at = "start" /\ new.kind = request[q].kind
        /\ new.sid = request[q].sid /\ new.pair = request[q].pair /\ new.lab = request[q].lab
        /\ new.walk = request[q].walk /\ new.reply = request[q].reply
        /\ new.attacks = request[q].attacks
    BY <1>2 DEF Locals, Stages
  <1> HIDE DEF new
  <1>4. /\ request' \in [Requests -> Locals \cup {None}] /\ request'[q] = new
        /\ \A o \in Requests \ {q} : request'[o] = request[o]
    BY <1>1, <1>3 DEF TypeOK
  <1>5. RequestGentle(q)
    BY <1>1, <1>3, <1>4 DEF RequestGentle, Early
  <1>6. RequestSound(q)'
    <2>1. LocalsSound(request[q]) /\ Early(request[q])
      BY <1>1 DEF Inv, ShapesSound, Early
    <2>2. LocalsSound(request[q])'
      BY <1>1, <1>3, <1>4, <2>1 DEF LocalsSound, Early
    <2>3. TapSound(q)'
      BY <1>1, <1>3, <1>4, OwnTapStays, NoneAssumption DEF Early
    <2> QED
      BY <1>3, <1>4, <2>1, <2>2, <2>3 DEF RequestSound, LocalsSound, Evidence, RefusedAgain
  <1>7. /\ harness' \in [owner : Requests \cup {None}, serves : SUBSET (DOMAIN pairs),
                         current : 0..Len(pairs), lab : Labs \cup {None}]
        /\ harness'.owner = q /\ harness'.serves = {} /\ harness'.current = harness.current
    BY <1>1 DEF TypeOK
  <1>8. TypeOK'
    BY <1>1, <1>3, <1>4, <1>7 DEF TypeOK
  <1>9. HarnessSound' /\ CurrentGentle
    <2>1. ASSUME NEW o \in Requests, At(o, "start")' PROVE o = q
      <3>1. o # q => At(o, "start")
        BY <1>4, <2>1 DEF At
      <3>2. ~At(o, "start")
        BY <1>1, NoneAssumption DEF Inv, HarnessSound
      <3> QED
        BY <3>1, <3>2
    <2> QED
      BY <1>7, <2>1 DEF HarnessSound, CurrentGentle
  <1> QED
    BY <1>1, <1>5, <1>6, <1>8, <1>9, SamePairs, SameWalks, SameTaps, QuietStepKeeps

\* The pairs BeginRun and BeginSend leave: `ps' but for what is patched and
\* written on the initiator's card.
LEMMA BeginPairs ==
    ASSUME Inv, NEW q \in Requests, request[q] # None, NEW ps \in Seq(Pairs),
           NEW p \in DOMAIN ps, Quiet(ps), Begin(q, p, ps)
    PROVE  /\ PairsQuiet /\ pairs' \in Seq(Pairs)
           /\ Len(pairs') = Len(ps) /\ DOMAIN pairs' = DOMAIN ps
  <1>1. CASE BeginSend(q, p, ps)
    BY <1>1 DEF BeginSend, PairsQuiet
  <1>2. CASE BeginRun(q, p, ps)
    <2> DEFINE attacks == request[q].attacks \cup posted
               tampers == ps[p].tampers \cup (attacks \cap Tamperings)
               shown   == IF "compat_mismatch" \in attacks THEN "PIR" ELSE ps[p].card
               new     == [ps[p] EXCEPT !.tampers = tampers, !.card = shown]
    <2>1. pairs' = [ps EXCEPT ![p] = new]
      BY <1>2 DEF BeginRun
    <2>2. ps[p] \in Pairs /\ tampers \in SUBSET Tamperings /\ shown \in {"PSI", "PIR"}
      <3>1. ps[p] \in Pairs
        OBVIOUS
      <3>2. ps[p].tampers \in SUBSET Tamperings /\ ps[p].card \in {"PSI", "PIR"}
        BY <3>1 DEF Pairs
      <3> HIDE DEF attacks
      <3> QED
        BY <3>1, <3>2
    <2> HIDE DEF tampers, shown
    <2>3. /\ new \in Pairs /\ new.seen = ps[p].seen /\ new.cached = ps[p].cached
          /\ new.results = ps[p].results /\ new.waits = ps[p].waits
      BY <2>2 DEF Pairs
    <2> HIDE DEF new
    <2>4. /\ pairs' \in Seq(Pairs) /\ Len(pairs') = Len(ps) /\ DOMAIN pairs' = DOMAIN ps
          /\ pairs'[p] = new /\ \A n \in DOMAIN ps \ {p} : pairs'[n] = ps[n]
      BY <2>1, <2>3
    <2>5. \A n \in DOMAIN ps : /\ pairs'[n].seen = ps[n].seen /\ pairs'[n].cached = ps[n].cached
                               /\ pairs'[n].results = ps[n].results
                               /\ pairs'[n].waits = ps[n].waits
      BY <2>3, <2>4
    <2> QED
      BY <2>4, <2>5 DEF PairsQuiet, Quiet
  <1> QED
    BY <1>1, <1>2 DEF Begin

\* A run that patches send_envelope gets a closure that holds nothing yet, or
\* none.
NewTap(p) == [pair |-> p, first |-> None, outer |-> {}]

PatchedAs(q, p, changes, own) ==
    tap' = [o \in Requests |->
              IF o = q THEN own
              ELSE IF Listens(o, p) THEN [tap[o] EXCEPT !.outer = @ \cup changes]
              ELSE tap[o]]

LEMMA PatchKeepsTaps ==
    ASSUME Inv, NEW q \in Requests, NEW p \in Nat, NEW changes \in SUBSET Tamperings,
           NEW own \in {None, NewTap(p)}, PatchedAs(q, p, changes, own)
    PROVE  /\ tap' \in [Requests -> Taps \cup {None}]
           /\ TapsGentle(q)
           /\ tap'[q] = own
           /\ NewTap(p) # None /\ NewTap(p).pair = p /\ NewTap(p).first = None
  <1>1. tap \in [Requests -> Taps \cup {None}]
    BY DEF Inv, TypeOK
  <1>2. /\ NewTap(p) \in Taps /\ NewTap(p) # None
        /\ NewTap(p).pair = p /\ NewTap(p).first = None
    <2>1. NewTap(p) \in Taps /\ NewTap(p).pair = p /\ NewTap(p).first = None
      BY DEF NewTap, Taps
    <2> QED
      BY <2>1, NoneAssumption
  <1>3. tap'[q] = own
    BY DEF PatchedAs
  <1>4. ASSUME NEW o \in Requests \ {q}
        PROVE  /\ tap'[o] \in Taps \cup {None} /\ (tap'[o] = None <=> tap[o] = None)
               /\ tap[o] # None => tap'[o].pair = tap[o].pair /\ tap'[o].first = tap[o].first
    <2>1. CASE Listens(o, p)
      <3> DEFINE outer == tap[o].outer \cup changes
      <3>1. tap[o] \in Taps /\ tap[o] # None /\ tap'[o] = [tap[o] EXCEPT !.outer = outer]
        BY <1>1, <2>1 DEF Listens, PatchedAs
      <3>2. outer \in SUBSET Tamperings
        BY <3>1 DEF Taps
      <3> HIDE DEF outer
      <3>3. /\ tap'[o] \in Taps /\ tap'[o].pair = tap[o].pair
            /\ tap'[o].first = tap[o].first
        BY <3>1, <3>2 DEF Taps
      <3> QED
        BY <3>1, <3>3, NoneAssumption
    <2>2. CASE ~Listens(o, p)
      BY <1>1, <2>2 DEF PatchedAs
    <2> QED
      BY <2>1, <2>2
  <1>5. ASSUME NEW o \in Requests PROVE tap'[o] \in Taps \cup {None}
    BY <1>2, <1>3, <1>4
  <1>6. tap' \in [Requests -> Taps \cup {None}]
    BY <1>5 DEF PatchedAs
  <1>7. TapsGentle(q)
    BY <1>2, <1>3, <1>4 DEF TapsGentle
  <1> QED
    BY <1>2, <1>3, <1>6, <1>7

\* A run or a walk goes on with pair p, which is current from now on.
LEMMA BeginKeeps ==
    ASSUME Inv, NEW q \in Requests, At(q, "ensure") \/ At(q, "start"),
           NEW ps \in Seq(Pairs), NEW p \in DOMAIN ps, Quiet(ps), Begin(q, p, ps),
           posted' = posted, posts' = posts, CurrentGentle,
           harness' \in [owner : Requests \cup {None}, serves : SUBSET (DOMAIN ps),
                         current : 0..Len(ps), lab : Labs \cup {None}],
           harness'.current = p, harness'.serves \subseteq {p},
           harness'.owner # None => harness'.serves = {},
           \A o \in Requests \ {q} : At(o, "start") => harness'.owner = o
    PROVE  Inv'
  <1> DEFINE r == request[q]
  <1>1. /\ r # None /\ Early(r) /\ TypeOK /\ r \in Locals /\ p # 0 /\ LocalsSound(r)
        /\ r.at \in {"ensure", "start"} /\ p \in Nat /\ p <= Len(ps)
    BY DEF At, Early, Inv, TypeOK, ShapesSound
  <1>2. /\ PairsQuiet /\ pairs' \in Seq(Pairs) /\ Len(pairs') = Len(ps)
        /\ DOMAIN pairs' = DOMAIN ps
    BY <1>1, BeginPairs
  <1>3. \A o \in Requests : request[o] # None => request[o].pair <= Len(ps)
    <2>1. DOMAIN pairs \subseteq DOMAIN ps /\ Len(pairs) \in Nat /\ Len(ps) \in Nat
          /\ DOMAIN pairs = 1..Len(pairs) /\ DOMAIN ps = 1..Len(ps)
      BY <1>1 DEF Quiet, TypeOK
    <2>2. Len(pairs) <= Len(ps)
      BY <2>1
    <2>3. ASSUME NEW o \in Requests, request[o] # None PROVE request[o].pair <= Len(ps)
      <3>1. request[o].pair \in Nat /\ request[o].pair <= Len(pairs)
        BY <1>1, <2>3 DEF TypeOK, Locals
      <3> QED
        BY <2>1, <2>2, <3>1
    <2> QED
      BY <2>3
  <1>4. CASE /\ request' = [request EXCEPT ![q] = None] /\ tap'[q] = None /\ walks' = walks
             /\ TapsGentle(q) /\ tap' \in [Requests -> Taps \cup {None}]
    <2>1. TypeOK'
      <3>1. walks' \in [Walks -> WalkState \cup {None}] /\ posted' \subseteq Attacks
            /\ posts' \in 0..MaxPosts
        BY <1>1, <1>4 DEF TypeOK
      <3>2. /\ request' \in [Requests -> Locals \cup {None}]
            /\ \A o \in Requests : request'[o] # None => request'[o].pair <= Len(pairs')
        BY <1>1, <1>2, <1>3, <1>4, OverSound
      <3> QED
        BY <1>2, <1>4, <3>1, <3>2 DEF TypeOK
    <2>2. HarnessSound'
      <3>1. ASSUME NEW o \in Requests, At(o, "start")' PROVE harness'.owner = o
        <4>1. o # q /\ At(o, "start")
          BY <1>1, <1>4, <3>1, OverSound DEF At
        <4> QED
          BY <4>1
      <3> QED
        BY <3>1 DEF HarnessSound
    <2> QED
      BY <1>1, <1>2, <1>4, <2>1, <2>2, OverSound, SameWalks, QuietStepKeeps
  <1>5. ASSUME NEW attacks \in SUBSET Attacks,
               request' = [request EXCEPT ![q].at = "resolve", ![q].pair = p,
                                          ![q].attacks = attacks],
               WalksGentle(q), walks' \in [Walks -> WalkState \cup {None}],
               TapsGentle(q), tap' \in [Requests -> Taps \cup {None}],
               tap'[q] # None => tap'[q].pair = p /\ tap'[q].first = None,
               r.kind = "run" /\ "replay" \in attacks => tap'[q] # None
        PROVE  Inv'
    <2> DEFINE new == [r EXCEPT !.at = "resolve", !.pair = p, !.attacks = attacks]
    <2>1. request' = [request EXCEPT ![q] = new]
      BY <1>5
    <2>2. /\ new \in Locals /\ new.at = "resolve" /\ new.pair = p /\ new.kind = r.kind
          /\ new.sid = r.sid /\ new.walk = r.walk /\ new.reply = r.reply /\ new # None
          /\ new.attacks = attacks
      <3>1. "resolve" \in Stages
        BY DEF Stages
      <3>2. r \in Locals /\ p \in Nat /\ BegunAs(r, new, "resolve", p, attacks)
        BY <1>1 DEF BegunAs
      <3> HIDE DEF r, new
      <3>3. /\ new \in Locals /\ new.at = "resolve" /\ new.pair = p /\ new.kind = r.kind
            /\ new.sid = r.sid /\ new.walk = r.walk /\ new.reply = r.reply
            /\ new.attacks = attacks
        BY <3>1, <3>2, LocalsBegin
      <3> QED
        BY <3>3, NoneAssumption
    <2> HIDE DEF new
    <2>3. /\ request' \in [Requests -> Locals \cup {None}] /\ request'[q] = new
          /\ \A o \in Requests \ {q} : request'[o] = request[o]
      BY <1>1, <2>1, <2>2 DEF TypeOK
    <2>4. RequestGentle(q)
      BY <1>1, <2>2, <2>3 DEF RequestGentle, Early
    <2>5. RequestSound(q)'
      <3>1. r.walk \in Walks /\ walks[r.walk] # None => walks'[r.walk] # None
        BY <1>5 DEF WalksGentle
      <3>2. LocalsSound(request[q])'
        BY <1>1, <2>2, <2>3, <3>1 DEF LocalsSound, Early
      <3>3. TapSound(q)'
        BY <1>5, <2>2, <2>3 DEF TapSound, Early
      <3> QED
        BY <1>1, <2>2, <2>3, <3>2, <3>3 DEF RequestSound, LocalsSound, Evidence, RefusedAgain
    <2>6. TypeOK'
      <3>1. posted' \subseteq Attacks /\ posts' \in 0..MaxPosts
        BY <1>1 DEF TypeOK
      <3>2. \A o \in Requests : request'[o] # None => request'[o].pair <= Len(pairs')
        BY <1>1, <1>2, <1>3, <2>2, <2>3
      <3> QED
        BY <1>2, <1>5, <2>3, <3>1, <3>2 DEF TypeOK
    <2>7. HarnessSound'
      <3>1. ASSUME NEW o \in Requests, At(o, "start")' PROVE harness'.owner = o
        <4>1. o # q /\ At(o, "start")
          BY <2>2, <2>3, <3>1 DEF At
        <4> QED
          BY <4>1
      <3> QED
        BY <3>1 DEF HarnessSound
    <2> QED
      BY <1>2, <1>5, <2>4, <2>5, <2>6, <2>7, QuietStepKeeps
  <1>6. CASE BeginRun(q, p, ps)
    <2>1. r.attacks \cup posted \in SUBSET Attacks
      BY <1>1 DEF TypeOK, Locals
    <2>2. walks' = walks /\ walks' \in [Walks -> WalkState \cup {None}]
      BY <1>1, <1>6 DEF BeginRun, TypeOK
    <2> DEFINE attacks == r.attacks \cup posted
               changes == attacks \cap Tamperings
               own == IF "replay" \in attacks /\ r.lab \notin SwappedLabs
                      THEN NewTap(p) ELSE None
    <2>3. PatchedAs(q, p, changes, own)
      BY <1>6 DEF BeginRun, Patch, PatchedAs, NewTap
    <2>4. changes \in SUBSET Tamperings /\ p \in Nat /\ own \in {None, NewTap(p)}
      BY <1>1
    <2>5. /\ tap' \in [Requests -> Taps \cup {None}] /\ TapsGentle(q)
          /\ tap'[q] = own
          /\ NewTap(p) # None /\ NewTap(p).pair = p /\ NewTap(p).first = None
      <3> HIDE DEF changes, own
      <3> QED
        BY <2>3, <2>4, PatchKeepsTaps
    <2>6. CASE r.lab \in SwappedLabs
      <3>1. request' = [request EXCEPT ![q] = None] /\ own = None
        BY <1>6, <2>6 DEF BeginRun
      <3> HIDE DEF own
      <3> QED
        BY <1>4, <2>2, <2>5, <3>1
    <2>7. CASE r.lab \notin SwappedLabs
      <3>1. request' = [request EXCEPT ![q].at = "resolve", ![q].pair = p,
                                       ![q].attacks = attacks]
        BY <1>6, <2>7 DEF BeginRun
      <3>2. "replay" \in attacks => own # None
        BY <2>5, <2>7
      <3>3. own # None => own.pair = p /\ own.first = None
        BY <2>5
      <3> HIDE DEF own
      <3> QED
        BY <1>5, <2>1, <2>2, <2>5, <3>1, <3>2, <3>3, SameWalks
    <2> QED
      BY <2>6, <2>7
  <1>7. CASE BeginSend(q, p, ps)
    <2>1. r.walk \in Walks /\ walks[r.walk] # None /\ r.lab \in Labs
      BY <1>1, <1>7 DEF BeginSend, LocalsSound
    <2> DEFINE new == [NewWalk EXCEPT !.lab = r.lab]
    <2>2. /\ new \in WalkState /\ new.sid = None /\ new.first = None /\ new.reply = None
          /\ new # None
      <3>1. /\ new \in WalkState /\ new.sid = None /\ new.first = None /\ new.reply = None
        BY <2>1 DEF NewWalk, WalkState
      <3> QED
        BY <3>1, NoneAssumption
    <2> HIDE DEF new
    <2>3. walks' = walks \/ walks' = [walks EXCEPT ![r.walk] = new]
      BY <1>7 DEF BeginSend, Update, new
    <2>4. WalksGentle(q) /\ walks' \in [Walks -> WalkState \cup {None}]
      <3>1. walks \in [Walks -> WalkState \cup {None}]
        BY <1>1 DEF TypeOK
      <3>2. CASE walks' = walks
        BY <3>1, <3>2, SameWalks
      <3>3. CASE walks' = [walks EXCEPT ![r.walk] = new]
        <4>1. /\ walks' \in [Walks -> WalkState \cup {None}] /\ walks'[r.walk] = new
              /\ \A w \in Walks \ {r.walk} : walks'[w] = walks[w]
          BY <2>1, <2>2, <3>1, <3>3
        <4> QED
          BY <2>2, <4>1 DEF WalksGentle
      <3> QED
        BY <2>3, <3>2, <3>3
    <2>5. r.attacks \in SUBSET Attacks
      BY <1>1 DEF Locals
    <2>6. request' = [request EXCEPT ![q].at = "resolve", ![q].pair = p,
                                     ![q].attacks = r.attacks]
      <3>1. request' = [request EXCEPT ![q].at = "resolve", ![q].pair = p]
        BY <1>7 DEF BeginSend
      <3>2. [r EXCEPT !.at = "resolve", !.pair = p]
            = [r EXCEPT !.at = "resolve", !.pair = p, !.attacks = r.attacks]
        BY <1>1 DEF Locals
      <3> QED
        BY <3>1, <3>2
    <2>7. /\ tap' = tap /\ TapsGentle(q) /\ tap' \in [Requests -> Taps \cup {None}]
          /\ tap'[q] = None /\ r.kind # "run"
      <3>1. tap' = tap /\ r.kind = "send"
        BY <1>7 DEF BeginSend
      <3>2. tap[q] = None
        BY <1>1 DEF Inv, ShapesSound, TapSound
      <3> QED
        BY <1>1, <3>1, <3>2, SameTaps DEF TypeOK
    <2> QED
      BY <1>5, <2>4, <2>5, <2>6, <2>7
  <1> QED
    BY <1>6, <1>7 DEF Begin

LEMMA ReuseKeeps ==
    ASSUME Inv, NEW q \in Requests, Reuse(q)
    PROVE  Inv'
  <1> DEFINE p == harness.current
  <1>1. /\ At(q, "ensure") /\ Begin(q, p, pairs) /\ harness' = harness /\ posted' = posted
        /\ posts' = posts /\ p # 0 /\ TypeOK
    BY DEF Reuse, Reusable, Inv
  <1>2. p \in DOMAIN pairs /\ pairs \in Seq(Pairs) /\ Quiet(pairs) /\ CurrentGentle
    BY <1>1, PairExists DEF TypeOK, Quiet, CurrentGentle
  <1>3. /\ harness' \in [owner : Requests \cup {None}, serves : SUBSET (DOMAIN pairs),
                         current : 0..Len(pairs), lab : Labs \cup {None}]
        /\ harness'.serves \subseteq {p}
        /\ harness'.owner # None => harness'.serves = {}
        /\ \A o \in Requests \ {q} : At(o, "start") => harness'.owner = o
    BY <1>1 DEF TypeOK, Inv, HarnessSound
  <1> QED
    BY <1>1, <1>2, <1>3, BeginKeeps

LEMMA StartKeeps ==
    ASSUME Inv, NEW q \in Requests, Start(q)
    PROVE  Inv'
  <1> DEFINE p   == Len(pairs) + 1
             lab == request[q].lab
             new == NewPair(lab)
             ps  == Append(pairs, new)
  <1>1. /\ At(q, "start") /\ lab \notin BrokenLabs /\ Begin(q, p, ps)
        /\ harness' = [owner |-> None, serves |-> harness.serves \cup {p},
                       current |-> p, lab |-> lab]
        /\ posted' = posted /\ posts' = posts /\ TypeOK
    BY DEF Start, Inv
  <1>2. lab \in Labs /\ LocalsSound(request[q]) /\ pairs \in Seq(Pairs)
    BY <1>1 DEF Inv, ShapesSound, LocalsSound, At, TypeOK
  <1>3. /\ new \in Pairs /\ new.seen = {} /\ new.cached = {} /\ new.results = {}
        /\ \A s \in Sessions : new.waits[s] = 0
    BY <1>1, <1>2 DEF NewPair, Pairs
  <1> HIDE DEF new
  <1>4. /\ ps \in Seq(Pairs) /\ Len(ps) = p /\ p \in Nat /\ ps[p] = new
        /\ DOMAIN pairs = 1..Len(pairs) /\ DOMAIN ps = 1..p
        /\ \A n \in DOMAIN pairs : ps[n] = pairs[n]
    BY <1>2, <1>3
  <1>5. Quiet(ps)
    BY <1>3, <1>4 DEF Quiet
  <1>6. /\ harness.owner = q /\ harness.serves = {}
        /\ \A o \in Requests \ {q} : ~At(o, "start")
    BY <1>1, NoneAssumption DEF Inv, HarnessSound
  <1>7. /\ harness' \in [owner : Requests \cup {None}, serves : SUBSET (DOMAIN ps),
                         current : 0..Len(ps), lab : Labs \cup {None}]
        /\ harness'.current = p /\ harness'.serves = {p} /\ harness'.owner = None
    BY <1>1, <1>2, <1>4, <1>6
  <1>8. CurrentGentle /\ p \in DOMAIN ps
    BY <1>4, <1>7 DEF CurrentGentle
  <1> HIDE DEF ps, p
  <1> QED
    BY <1>1, <1>4, <1>5, <1>6, <1>7, <1>8, BeginKeeps

-----------------------------------------------------------------------------
(* The messages.                                                            *)

\* The first message opens its session at its pair.
LEMMA SendFirstKeeps ==
    ASSUME Inv, NEW q \in Requests, SendFirst(q)
    PROVE  Inv'
  <1> DEFINE r    == request[q]
             own  == IF r.kind = "send" THEN r.attacks \cap Tamperings ELSE {}
             env  == Envelope(r.pair, r.sid, 1, own)
             sent == [env EXCEPT !.altered = @ \cup pairs[r.pair].tampers]
             new  == [r EXCEPT !.at = "sending", !.first = env, !.sent = sent]
  <1>1. /\ r # None /\ r.at = "resolve" /\ TypeOK /\ SetsWait(r.pair, r.sid, 1)
        /\ request' = [request EXCEPT ![q] = new]
        /\ harness' = harness /\ posted' = posted /\ walks' = walks /\ posts' = posts
        /\ Pass(r.pair, env)
    BY DEF SendFirst, At, SetsWait, Inv
  <1>2. /\ r \in Locals /\ r.pair \in DOMAIN pairs /\ r.sid \in Sessions /\ Early(r)
        /\ LocalsSound(r) /\ r.pair \in Nat \ {0}
    <2>1. r \in Locals /\ r.pair \in DOMAIN pairs /\ LocalsSound(r) /\ Early(r)
      BY <1>1, PairExists DEF TypeOK, Inv, ShapesSound, Early
    <2>2. r.pair # 0
      BY <1>1, <2>1 DEF LocalsSound
    <2> QED
      BY <2>1, <2>2 DEF Locals
  <1>3. pairs[r.pair] \in Pairs /\ pairs[r.pair].tampers \in SUBSET Tamperings
    <2>1. pairs[r.pair] \in Pairs
      BY <1>1, <1>2 DEF TypeOK
    <2> QED
      BY <2>1 DEF Pairs
  <1>4. own \in SUBSET Tamperings
    OBVIOUS
  <1> HIDE DEF own
  <1>5. /\ env \in Envelopes /\ env.pair = r.pair /\ env.sid = r.sid /\ env.round = 1
        /\ sent \in Envelopes /\ sent.pair = r.pair /\ sent.sid = r.sid
    BY <1>2, <1>3, <1>4 DEF Envelope, Envelopes
  <1> HIDE DEF env, sent
  <1>6. /\ new \in Locals /\ new.at = "sending" /\ new.kind = r.kind /\ new.pair = r.pair
        /\ new.sid = r.sid /\ new.walk = r.walk /\ new.reply = r.reply
        /\ new.first = env /\ new.sent = sent /\ new.attacks = r.attacks /\ new # None
    <2>1. /\ new \in Locals /\ new.at = "sending" /\ new.kind = r.kind /\ new.pair = r.pair
          /\ new.sid = r.sid /\ new.walk = r.walk /\ new.reply = r.reply
          /\ new.first = env /\ new.sent = sent /\ new.attacks = r.attacks
      BY <1>2, <1>5 DEF Locals, Stages
    <2> HIDE DEF new
    <2> QED
      BY <2>1, NoneAssumption
  <1> HIDE DEF new
  <1>7. /\ request' \in [Requests -> Locals \cup {None}] /\ request'[q] = new
        /\ \A o \in Requests \ {q} : request'[o] = request[o]
    BY <1>1, <1>6 DEF TypeOK
  <1>8. SamePairsBut(r.pair, r.sid, 1)
    BY <1>1, <1>2, WaitChanges
  <1>9. RequestGentle(q)
    BY <1>1, <1>2, <1>6, <1>7 DEF RequestGentle, Early
  <1>10. MemoryGentle(q)
    BY <1>8 DEF SamePairsBut, MemoryGentle
  <1>11. WaitsGentle(q)
    <2>1. Opens(q, r.pair, r.sid)
      BY <1>1, <1>2, <1>6, <1>7, NoneAssumption DEF Opens, Early
    <2> QED
      BY <1>8, <2>1 DEF WaitsGentle, SamePairsBut
  <1>12. HarnessSound' /\ CurrentGentle
    BY <1>1, <1>6, <1>7, <1>9, HarnessKept DEF At
  <1>15. /\ tap' \in [Requests -> Taps \cup {None}] /\ TapsGentle(q) /\ TapSound(q)'
    <2>1. /\ request'[q] # None /\ ~Early(request'[q]) /\ request'[q].sid = r.sid
          /\ request'[q].pair = r.pair /\ request'[q].kind = r.kind
          /\ request'[q].attacks = r.attacks
      BY <1>6, <1>7 DEF Early
    <2> HIDE DEF r
    <2>2. tap' \in [Requests -> Taps \cup {None}] /\ TapsGentle(q)
      BY <1>1, <1>5, <2>1, PassKeepsTaps
    <2> USE DEF r
    <2>3. TapSound(q)'
      BY <1>1, <1>5, <2>1, OwnTapPasses
    <2> QED
      BY <2>2, <2>3
  <1>13. TypeOK'
    <2>1. /\ walks' \in [Walks -> WalkState \cup {None}]
          /\ \A o \in Requests : request'[o] # None => request'[o].pair <= Len(pairs)
      BY <1>1, <1>6, <1>7 DEF TypeOK
    <2> QED
      BY <1>1, <1>7, <1>8, <1>15, <2>1, PairsKeepTypes DEF SamePairsBut
  <1>14. OwnPartSound(q)'
    <2>1. LocalsSound(request[q])' /\ Evidence(request[q].reply)'
      <3>1. r.reply = None
        BY <1>2 DEF LocalsSound
      <3>2. env # None /\ sent # None
        BY <1>5, NoneAssumption
      <3>3. LocalsSound(request[q])'
        BY <1>1, <1>2, <1>5, <1>6, <1>7, <3>1, <3>2 DEF LocalsSound, Early
      <3> QED
        BY <1>6, <1>7, <3>1, <3>3 DEF Evidence
    <2>2. ASSUME NEW n \in DOMAIN pairs'
          PROVE  /\ PairSound(n)'
                 /\ \A s \in Sessions : pairs'[n].waits[s] = 2 => Seen(n, s, 1)'
                 /\ \A s \in pairs'[n].results : Seen(n, s, 1)' /\ Seen(n, s, 2)'
      <3>1. /\ n \in DOMAIN pairs /\ pairs'[n].seen = pairs[n].seen
            /\ pairs'[n].cached = pairs[n].cached /\ pairs'[n].results = pairs[n].results
            /\ \A s \in Sessions : pairs'[n].waits[s] = 2 => pairs[n].waits[s] = 2
        BY <1>8 DEF SamePairsBut
      <3>2. /\ PairSound(n) /\ \A s \in Sessions : pairs[n].waits[s] = 2 => Seen(n, s, 1)
            /\ \A s \in pairs[n].results : Seen(n, s, 1) /\ Seen(n, s, 2)
        BY <3>1 DEF Inv, ShapesSound, EvidenceSound, ResultFromBothRounds, Seen
      <3> QED
        BY <3>1, <3>2 DEF PairSound, Seen
    <2> QED
      BY <1>6, <1>7, <1>15, <2>1, <2>2 DEF OwnPartSound, RefusedAgain
  <1> QED
    BY <1>1, <1>9, <1>10, <1>11, <1>12, <1>13, <1>14, <1>15, SameWalks, GentleStepKeeps DEF Gentle

\* Two requests of the same session are under way at the same pair: what a
\* receiver has seen of it, this pair's has.
LEMMA SameOwner ==
    ASSUME Inv, NEW p \in DOMAIN pairs, NEW s \in Sessions, pairs[p].waits[s] # 0,
           NEW i, \E n \in DOMAIN pairs : Seen(n, s, i)
    PROVE  Seen(p, s, i)
  <1>1. PICK n \in DOMAIN pairs : Seen(n, s, i)
    OBVIOUS
  <1>2. Envelope(n, s, i, {}).sid = s
    BY DEF Envelope
  <1>3. n = p
    BY <1>1, <1>2 DEF Inv, Owned, Seen
  <1> QED
    BY <1>1, <1>3

\* The answer to the first message takes its session to the second.
LEMMA RunGoesOnKeeps ==
    ASSUME Inv, NEW q \in Requests, RunGoesOn(q)
    PROVE  Inv'
  <1> DEFINE r    == request[q]
             sent == SecondEnvelope(r.pair, r.sid)
             env  == SecondSigned(r.pair, r.sid)
             new  == [r EXCEPT !.at = "sending", !.sent = sent]
  <1>1. /\ r # None /\ r.at = "answered" /\ TypeOK /\ SetsWait(r.pair, r.sid, 2)
        /\ r.kind = "run" /\ IsReply(r.reply) /\ r.reply.round = 1 /\ Takes(r.pair, r.sid, r.reply)
        /\ request' = [request EXCEPT ![q] = new]
        /\ harness' = harness /\ posted' = posted /\ walks' = walks /\ posts' = posts
        /\ Pass(r.pair, env)
    BY DEF RunGoesOn, At, SetsWait, Inv
  <1>2. /\ r \in Locals /\ r.pair \in DOMAIN pairs /\ r.sid \in Sessions /\ ~Early(r)
        /\ LocalsSound(r) /\ r.pair \in Nat \ {0}
    <2>1. r \in Locals /\ r.pair \in DOMAIN pairs /\ LocalsSound(r) /\ ~Early(r)
      BY <1>1, PairExists DEF TypeOK, Inv, ShapesSound, Early
    <2>2. r.pair # 0
      BY <1>1, <2>1 DEF LocalsSound
    <2> QED
      BY <2>1, <2>2 DEF Locals
  <1>3. pairs[r.pair] \in Pairs /\ pairs[r.pair].tampers \in SUBSET Tamperings
    <2>1. pairs[r.pair] \in Pairs
      BY <1>1, <1>2 DEF TypeOK
    <2> QED
      BY <2>1 DEF Pairs
  <1>4. /\ sent \in Envelopes /\ sent.pair = r.pair /\ sent.sid = r.sid
        /\ env \in Envelopes /\ env.pair = r.pair /\ env.sid = r.sid
    BY <1>2, <1>3 DEF SecondEnvelope, SecondSigned, Envelope, Envelopes
  <1> HIDE DEF sent, env
  <1>5. /\ new \in Locals /\ new.at = "sending" /\ new.kind = r.kind /\ new.pair = r.pair
        /\ new.sid = r.sid /\ new.walk = r.walk /\ new.reply = r.reply
        /\ new.first = r.first /\ new.sent = sent /\ new.attacks = r.attacks /\ new # None
    <2>1. "sending" \in Stages
      BY DEF Stages
    <2>2. r \in Locals /\ sent \in Envelopes /\ SentAs(r, new, "sending", sent)
      BY <1>2, <1>4 DEF SentAs
    <2> HIDE DEF r, new
    <2> QED
      BY <2>1, <2>2, LocalsSend, NoneAssumption
  <1> HIDE DEF new
  <1>6. /\ request' \in [Requests -> Locals \cup {None}] /\ request'[q] = new
        /\ \A o \in Requests \ {q} : request'[o] = request[o]
    BY <1>1, <1>5 DEF TypeOK
  <1>7. SamePairsBut(r.pair, r.sid, 2)
    BY <1>1, <1>2, WaitChanges
  <1>8. /\ pairs[r.pair].waits[r.sid] # 0 /\ Seen(r.pair, r.sid, 1)
    <2>1. pairs[r.pair].waits[r.sid] = 1 /\ r.reply.sid = r.sid
      BY <1>1 DEF Takes
    <2>2. \E n \in DOMAIN pairs : Seen(n, r.sid, 1)
      BY <1>1, <2>1 DEF Inv, EvidenceSound, Evidence, IsReply
    <2> QED
      BY <1>2, <2>1, <2>2, SameOwner
  <1>9. RequestGentle(q)
    BY <1>1, <1>2, <1>5, <1>6 DEF RequestGentle, Early
  <1>10. MemoryGentle(q)
    BY <1>7 DEF SamePairsBut, MemoryGentle
  <1>11. WaitsGentle(q)
    BY <1>2, <1>7, <1>8 DEF WaitsGentle, SamePairsBut
  <1>12. HarnessSound' /\ CurrentGentle
    BY <1>1, <1>5, <1>6, <1>9, HarnessKept DEF At
  <1>15. /\ tap' \in [Requests -> Taps \cup {None}] /\ TapsGentle(q) /\ TapSound(q)'
    <2>1. /\ request'[q] # None /\ ~Early(request'[q]) /\ request'[q].sid = r.sid
          /\ request'[q].pair = r.pair /\ request'[q].kind = r.kind
          /\ request'[q].attacks = r.attacks
      BY <1>5, <1>6 DEF Early
    <2> HIDE DEF r
    <2>2. tap' \in [Requests -> Taps \cup {None}] /\ TapsGentle(q)
      BY <1>1, <1>4, <2>1, PassKeepsTaps
    <2> USE DEF r
    <2>3. TapSound(q)'
      BY <1>1, <1>2, <1>4, <2>1, OwnTapPasses
    <2> QED
      BY <2>2, <2>3
  <1>13. TypeOK'
    <2>1. /\ walks' \in [Walks -> WalkState \cup {None}]
          /\ \A o \in Requests : request'[o] # None => request'[o].pair <= Len(pairs)
      BY <1>1, <1>5, <1>6 DEF TypeOK
    <2> QED
      BY <1>1, <1>6, <1>7, <1>15, <2>1, PairsKeepTypes DEF SamePairsBut
  <1>14. OwnPartSound(q)'
    <2>1. LocalsSound(request[q])' /\ Evidence(request[q].reply)'
      <3>1. sent # None
        BY <1>4, NoneAssumption
      <3>2. LocalsSound(request[q])'
        BY <1>1, <1>2, <1>4, <1>5, <1>6, <3>1 DEF LocalsSound, Early
      <3>3. Evidence(r.reply)
        BY <1>1 DEF Inv, EvidenceSound
      <3>4. ASSUME NEW reply, reply = r.reply PROVE Evidence(reply)'
        BY <1>10, <3>3, <3>4, SeenKept
      <3>5. Evidence(request[q].reply)'
        BY <1>5, <1>6, <3>4
      <3> QED
        BY <3>2, <3>5
    <2>2. ASSUME NEW n \in DOMAIN pairs'
          PROVE  /\ PairSound(n)'
                 /\ \A s \in Sessions : pairs'[n].waits[s] = 2 => Seen(n, s, 1)'
                 /\ \A s \in pairs'[n].results : Seen(n, s, 1)' /\ Seen(n, s, 2)'
      <3>1. /\ n \in DOMAIN pairs /\ pairs'[n].seen = pairs[n].seen
            /\ pairs'[n].cached = pairs[n].cached /\ pairs'[n].results = pairs[n].results
            /\ \A s \in Sessions : pairs'[n].waits[s] = 2
                 => pairs[n].waits[s] = 2 \/ (n = r.pair /\ s = r.sid)
        BY <1>7 DEF SamePairsBut
      <3>2. /\ PairSound(n) /\ \A s \in Sessions : pairs[n].waits[s] = 2 => Seen(n, s, 1)
            /\ \A s \in pairs[n].results : Seen(n, s, 1) /\ Seen(n, s, 2)
        BY <3>1 DEF Inv, ShapesSound, EvidenceSound, ResultFromBothRounds, Seen
      <3> QED
        BY <1>8, <3>1, <3>2 DEF PairSound, Seen
    <2> QED
      BY <1>5, <1>6, <1>15, <2>1, <2>2 DEF OwnPartSound, RefusedAgain
  <1> QED
    BY <1>1, <1>9, <1>10, <1>11, <1>12, <1>13, <1>14, <1>15, SameWalks, GentleStepKeeps DEF Gentle

\* What receiver n learns from envelope e: that it came, if its own initiator
\* signed it, and the answer, if it is one.
Learns(n, before, e, after, ok) ==
    /\ after \in Pairs /\ after.waits = before.waits /\ after.results = before.results
    /\ before.seen \subseteq after.seen
    /\ \A x \in after.seen \ before.seen : x = e /\ e.pair = n /\ e.altered = {}
    /\ \A x \in after.cached \ before.cached :
         x = e /\ e.altered = {} /\ (e.round = 1 => e \notin before.seen)
    /\ after.cached \subseteq after.seen
    /\ ok \in BOOLEAN
    /\ ok => e \in after.seen /\ e.pair = n /\ e.altered = {}

LEMMA HandledLearns ==
    ASSUME NEW n, NEW p \in Pairs, NEW e \in Envelopes, NEW view \in Views(n, p, e),
           p.cached \subseteq p.seen, \A x \in p.seen : x.pair = n /\ x.altered = {}
    PROVE  /\ Learns(n, p, e, Handled(n, p, e, view).pair, Handled(n, p, e, view).ok)
           /\ e \notin p.cached /\ (e.round = 1 /\ e.pair = n /\ e.altered = {} => e \in p.seen)
              /\ e.round = 1 => ~Handled(n, p, e, view).ok
  <1> DEFINE ok     == ~Refused(n, p, e, view)
             spent  == e.pair = n /\ e.altered = {} /\ (e.round = 1 \/ e.sid \in p.open)
             seen   == IF spent THEN p.seen \cup {e} ELSE p.seen
             cached == IF ok THEN p.cached \cup {e} ELSE p.cached
             open   == IF ~ok THEN p.open
                       ELSE IF e.round = 1 THEN p.open \cup {e.sid} ELSE p.open \ {e.sid}
             after  == [p EXCEPT !.view = view, !.seen = seen, !.cached = cached, !.open = open]
  <1>1. CASE e \in p.cached
    <2>1. Handled(n, p, e, view) = [pair |-> p, ok |-> TRUE]
      BY <1>1 DEF Handled
    <2> QED
      BY <1>1, <2>1 DEF Learns
  <1>2. CASE e \notin p.cached
    <2>1. Handled(n, p, e, view) = [ok |-> ok, pair |-> after]
      BY <1>2 DEF Handled
    <2>2. /\ p.seen \in SUBSET Envelopes /\ p.cached \in SUBSET Envelopes
          /\ p.open \in SUBSET Sessions /\ e.sid \in Sessions /\ e.round \in 1..2
          /\ view \in {None, "PSI", "PIR"}
      BY DEF Pairs, Envelopes, Views
    <2>3. ok => spent
      BY <2>2 DEF Refused
    <2>4. ok /\ e.round = 1 => e \notin p.seen
      BY DEF Refused
    <2>5. ok \in BOOLEAN
      BY DEF Refused
    <2> HIDE DEF ok
    <2>6. /\ seen \in SUBSET Envelopes /\ cached \in SUBSET Envelopes
          /\ open \in SUBSET Sessions /\ p.seen \subseteq seen /\ cached \subseteq seen
          /\ \A x \in seen \ p.seen : x = e /\ e.pair = n /\ e.altered = {}
          /\ \A x \in cached \ p.cached : x = e /\ ok
      BY <2>2, <2>3
    <2>7. ok => e \in seen /\ e.pair = n /\ e.altered = {}
      BY <2>3
    <2> HIDE DEF seen, cached, open, spent
    <2>8. /\ after \in Pairs /\ after.waits = p.waits /\ after.results = p.results
          /\ after.seen = seen /\ after.cached = cached
      BY <2>2, <2>6 DEF Pairs
    <2> HIDE DEF after
    <2>9. Learns(n, p, e, after, ok)
      BY <2>4, <2>5, <2>6, <2>7, <2>8 DEF Learns
    <2> QED
      BY <2>1, <2>4, <2>7, <2>9
  <1> QED
    BY <1>1, <1>2

\* A receiver handles, or drops, the message of a request.
LEMMA DeliverKeeps ==
    ASSUME Inv, NEW q \in Requests, Deliver(q)
    PROVE  Inv'
  <1> DEFINE r == request[q]
             e == r.sent
  <1>1. /\ r # None /\ r.at \in {"sending", "replaying"} /\ TypeOK
        /\ harness' = harness /\ posted' = posted /\ walks' = walks /\ posts' = posts
        /\ tap' = tap
    BY DEF Deliver, At, Inv
  <1>2. /\ r \in Locals /\ ~Early(r) /\ LocalsSound(r) /\ r.sid \in Sessions
        /\ e \in Envelopes /\ e.pair = r.pair /\ e.sid = r.sid /\ e.round \in 1..2
    <2>1. r \in Locals /\ LocalsSound(r) /\ ~Early(r)
      BY <1>1 DEF TypeOK, Inv, ShapesSound, Early
    <2>2. e # None /\ e.pair = r.pair /\ e.sid = r.sid
      BY <2>1 DEF LocalsSound
    <2>3. e \in Envelopes
      BY <2>1, <2>2 DEF Locals
    <2> QED
      BY <2>1, <2>2, <2>3 DEF Locals, Envelopes
  <1>3. PICK n \in harness.serves : \E view \in Views(n, pairs[n], e) :
         LET h == Handled(n, pairs[n], e, view)
             drops == pairs[n].lab \in SwappedLabs
         IN  /\ pairs' = IF drops THEN pairs ELSE [pairs EXCEPT ![n] = h.pair]
             /\ request' = [request EXCEPT
                    ![q].at = IF @ = "sending" THEN "answered" ELSE "replayed",
                    ![q].reply = IF drops THEN None ELSE Reply(e, h.ok)]
    BY DEF Deliver
  <1>0. PICK view \in Views(n, pairs[n], e) :
         LET h == Handled(n, pairs[n], e, view)
             drops == pairs[n].lab \in SwappedLabs
         IN  /\ pairs' = IF drops THEN pairs ELSE [pairs EXCEPT ![n] = h.pair]
             /\ request' = [request EXCEPT
                    ![q].at = IF @ = "sending" THEN "answered" ELSE "replayed",
                    ![q].reply = IF drops THEN None ELSE Reply(e, h.ok)]
    BY <1>3
  <1>4. /\ n \in DOMAIN pairs /\ n = harness.current /\ pairs[n] \in Pairs
        /\ PairSound(n) /\ pairs \in Seq(Pairs)
    BY <1>1 DEF TypeOK, Inv, HarnessSound, ShapesSound
  <1> DEFINE h     == Handled(n, pairs[n], e, view)
             drops == pairs[n].lab \in SwappedLabs
             after == IF drops THEN pairs[n] ELSE h.pair
             at    == IF r.at = "sending" THEN "answered" ELSE "replayed"
             reply == IF drops THEN None ELSE Reply(e, h.ok)
             new   == [r EXCEPT !.at = at, !.reply = reply]
  <1>5. pairs' = [pairs EXCEPT ![n] = after] /\ request' = [request EXCEPT ![q] = new]
    <2>1. drops => pairs = [pairs EXCEPT ![n] = pairs[n]]
      BY <1>4
    <2>2. pairs' = [pairs EXCEPT ![n] = after]
      BY <1>0, <2>1
    <2> QED
      BY <1>0, <2>2
  <1> DEFINE ok == ~drops /\ h.ok
  <1>6. Learns(n, pairs[n], e, after, ok)
    <2>1. Learns(n, pairs[n], e, h.pair, h.ok)
      BY <1>2, <1>4, HandledLearns DEF PairSound
    <2>2. Learns(n, pairs[n], e, pairs[n], FALSE)
      BY <1>4 DEF Learns, PairSound
    <2>3. CASE drops
      <3>1. after = pairs[n] /\ ok = FALSE
        BY <2>3
      <3> QED
        BY <2>2, <3>1
    <2>4. CASE ~drops
      <3>1. after = h.pair /\ ok = h.ok
        BY <2>1, <2>4 DEF Learns
      <3> QED
        BY <2>1, <3>1
    <2> QED
      BY <2>3, <2>4
  <1>7. r.at = "replaying" => ~ok
    <2>1. SUFFICES ASSUME r.at = "replaying" PROVE ~h.ok
      OBVIOUS
    <2>2. Replaying(r)
      BY <1>1, <2>1 DEF At, Inv, ReplaysSound
    <2>3. CASE e.pair = n /\ e.altered = {}
      <3>1. e = Envelope(r.pair, r.sid, 1, {}) /\ r.pair = n
        BY <1>2, <2>2, <2>3 DEF Replaying, Envelopes, Envelope
      <3>2. e \in pairs[n].seen /\ e \notin pairs[n].cached /\ e.round = 1
        BY <1>4, <2>2, <3>1 DEF Replaying, Seen
      <3> QED
        BY <1>2, <1>4, <3>2, HandledLearns DEF PairSound
    <2>4. CASE ~(e.pair = n /\ e.altered = {})
      <3>1. e \notin pairs[n].cached /\ e.round = 1
        BY <1>4, <2>2, <2>4 DEF PairSound, Replaying
      <3> QED
        BY <1>2, <1>4, <2>4, <3>1, HandledLearns DEF PairSound
    <2> QED
      BY <2>3, <2>4
  <1>8. /\ reply \in Replies \cup {None}
        /\ reply # None => reply.sid = r.sid
        /\ reply # None /\ reply.ok => ok /\ reply.round = e.round
    <2>1. h.ok \in BOOLEAN
      <3>1. Learns(n, pairs[n], e, h.pair, h.ok)
        BY <1>2, <1>4, HandledLearns DEF PairSound
      <3> QED
        BY <3>1 DEF Learns
    <2>2. Reply(e, h.ok) \in Replies /\ Reply(e, h.ok).sid = r.sid
          /\ Reply(e, h.ok).ok = h.ok /\ Reply(e, h.ok).round = e.round
      BY <1>2, <2>1 DEF Reply, Replies
    <2> QED
      BY <2>2
  <1> HIDE DEF reply, after, ok
  <1>9. /\ new \in Locals /\ new.at = at /\ new.kind = r.kind /\ new.pair = r.pair
        /\ new.sid = r.sid /\ new.walk = r.walk /\ new.reply = reply
        /\ new.first = r.first /\ new.sent = r.sent /\ new.attacks = r.attacks /\ new # None
        /\ at \in {"answered", "replayed"} /\ (at = "replayed" => r.at = "replaying")
    <2>1. at \in {"answered", "replayed"} /\ (at = "replayed" => r.at = "replaying")
      BY <1>1
    <2>2. at \in Stages
      BY <2>1 DEF Stages
    <2>3. r \in Locals /\ reply \in Replies \cup {None} /\ AnsweredAs(r, new, at, reply)
      BY <1>2, <1>8 DEF AnsweredAs
    <2> HIDE DEF r, at, new
    <2>4. /\ new \in Locals /\ new.at = at /\ new.kind = r.kind /\ new.pair = r.pair
          /\ new.sid = r.sid /\ new.walk = r.walk /\ new.reply = reply
          /\ new.first = r.first /\ new.sent = r.sent /\ new.attacks = r.attacks
          /\ new # None
      BY <2>2, <2>3, LocalsAnswered, NoneAssumption
    <2> QED
      BY <2>1, <2>4
  <1> HIDE DEF new, at
  <1>10. /\ request' \in [Requests -> Locals \cup {None}] /\ request'[q] = new
         /\ \A o \in Requests \ {q} : request'[o] = request[o]
    BY <1>1, <1>5, <1>9 DEF TypeOK
  <1>11. /\ pairs' \in Seq(Pairs) /\ Len(pairs') = Len(pairs)
         /\ DOMAIN pairs' = DOMAIN pairs /\ pairs'[n] = after
         /\ \A m \in DOMAIN pairs \ {n} : pairs'[m] = pairs[m]
    BY <1>1, <1>4, <1>5, <1>6, PairChanges DEF Learns
  <1>12. RequestGentle(q)
    BY <1>1, <1>2, <1>9, <1>10 DEF RequestGentle, Early
  <1>13. MemoryGentle(q)
    <2>1. ASSUME NEW m \in DOMAIN pairs
          PROVE  /\ m \in DOMAIN pairs' /\ pairs[m].seen \subseteq pairs'[m].seen
                 /\ \A x \in pairs'[m].cached \ pairs[m].cached :
                      x.altered = {} /\ (x.round = 1 => x \notin pairs[m].seen)
      BY <1>6, <1>11 DEF Learns
    <2>2. ASSUME NEW m \in DOMAIN pairs', NEW x \in pairs'[m].seen, x \notin pairs[m].seen
          PROVE  m = r.pair /\ x.sid = r.sid
      BY <1>2, <1>6, <1>11, <2>2 DEF Learns
    <2> QED
      BY <1>1, <1>2, <1>11, <2>1, <2>2 DEF MemoryGentle
  <1>14. WaitsGentle(q)
    BY <1>6, <1>11 DEF WaitsGentle, Learns
  <1>15. HarnessSound' /\ CurrentGentle
    BY <1>1, <1>9, <1>10, <1>12, HarnessKept DEF At
  <1>16. TypeOK'
    <2>1. /\ walks' \in [Walks -> WalkState \cup {None}]
          /\ \A o \in Requests : request'[o] # None => request'[o].pair <= Len(pairs)
      BY <1>1, <1>9, <1>10 DEF TypeOK
    <2> QED
      BY <1>1, <1>10, <1>11, <2>1, PairsKeepTypes DEF TypeOK
  <1>17. OwnPartSound(q)'
    <2>1. LocalsSound(request[q])'
      BY <1>1, <1>2, <1>8, <1>9, <1>10 DEF LocalsSound, Early
    <2>2. Evidence(request[q].reply)'
      <3>1. ASSUME NEW a, a = reply, a # None, a.ok
            PROVE  Evidence(a)'
        <4>1. e \in after.seen /\ e.pair = n /\ e.altered = {} /\ a.round = e.round
              /\ a.sid = e.sid
          BY <1>2, <1>6, <1>8, <3>1 DEF Learns
        <4>2. e = Envelope(n, a.sid, a.round, {})
          BY <1>2, <4>1 DEF Envelopes, Envelope
        <4>3. Envelope(n, a.sid, a.round, {}) \in pairs'[n].seen /\ n \in DOMAIN pairs'
          BY <1>4, <1>11, <4>1, <4>2
        <4> QED
          BY <4>3 DEF Evidence, Seen, Envelope
      <3>2. PICK a : a = reply
        OBVIOUS
      <3>3. Evidence(a)'
        BY <3>1, <3>2 DEF Evidence
      <3> QED
        BY <1>9, <1>10, <3>2, <3>3
    <2>3. RefusedAgain(request[q])'
      BY <1>7, <1>8, <1>9, <1>10 DEF RefusedAgain
    <2>5. TapSound(q)'
      <3>1. /\ request'[q] # None /\ request'[q].pair = r.pair /\ request'[q].sid = r.sid
            /\ request'[q].kind = r.kind /\ request'[q].attacks = r.attacks
            /\ ~Early(request'[q])
        BY <1>9, <1>10 DEF Early
      <3> QED
        BY <1>1, <1>2, <3>1, OwnTapStays DEF Early
    <2>4. ASSUME NEW m \in DOMAIN pairs'
          PROVE  /\ PairSound(m)'
                 /\ \A s \in Sessions : pairs'[m].waits[s] = 2 => Seen(m, s, 1)'
                 /\ \A s \in pairs'[m].results : Seen(m, s, 1)' /\ Seen(m, s, 2)'
      <3>1. /\ m \in DOMAIN pairs /\ pairs[m].seen \subseteq pairs'[m].seen
            /\ pairs'[m].results = pairs[m].results /\ pairs'[m].waits = pairs[m].waits
        BY <1>6, <1>11 DEF Learns
      <3>2. /\ PairSound(m) /\ \A s \in Sessions : pairs[m].waits[s] = 2 => Seen(m, s, 1)
            /\ \A s \in pairs[m].results : Seen(m, s, 1) /\ Seen(m, s, 2)
        BY <3>1 DEF Inv, ShapesSound, EvidenceSound, ResultFromBothRounds, Seen
      <3>3. PairSound(m)'
        <4>1. CASE m = n
          BY <1>6, <1>11, <3>2, <4>1 DEF Learns, PairSound
        <4>2. CASE m # n
          BY <1>11, <3>1, <3>2, <4>2 DEF PairSound
        <4> QED
          BY <4>1, <4>2
      <3> QED
        BY <3>1, <3>2, <3>3 DEF Seen, Envelope
    <2> QED
      BY <1>9, <1>10, <2>1, <2>2, <2>3, <2>4, <2>5 DEF OwnPartSound
  <1> QED
    BY <1>1, <1>12, <1>13, <1>14, <1>15, <1>16, <1>17, SameWalks, SameTaps, GentleStepKeeps
    DEF Gentle

\* The result of session s is shown at pair p; receivers learn at most a message
\* of that session, or the one that the closure of q holds.
Shows(q, p, s) ==
    /\ pairs' \in Seq(Pairs) /\ Len(pairs') = Len(pairs) /\ DOMAIN pairs' = DOMAIN pairs
    /\ \A n \in DOMAIN pairs :
         /\ pairs[n].seen \subseteq pairs'[n].seen
         /\ \A x \in pairs'[n].seen \ pairs[n].seen :
              /\ n = p /\ x.pair = n /\ x.altered = {}
              /\ x.sid = s \/ Captured(q, x)
         /\ \A x \in pairs'[n].cached \ pairs[n].cached :
              x.altered = {} /\ (x.round = 1 => x \notin pairs[n].seen)
         /\ pairs'[n].cached \subseteq pairs'[n].seen
         /\ \A t \in Sessions : pairs'[n].waits[t] \in {0, pairs[n].waits[t]}
         /\ \A t \in pairs'[n].results : t \in pairs[n].results \/ (n = p /\ t = s)

LEMMA ShowsKeeps ==
    ASSUME Inv, NEW q \in Requests, request[q] # None, ~Early(request[q]),
           Seen(request[q].pair, request[q].sid, 1), Seen(request[q].pair, request[q].sid, 2),
           Shows(q, request[q].pair, request[q].sid), TapsGentle(q),
           RequestGentle(q), RequestSound(q)', ~At(q, "start")',
           tap' \in [Requests -> Taps \cup {None}],
           request' \in [Requests -> Locals \cup {None}],
           \A o \in Requests : request'[o] # None => request'[o].pair <= Len(pairs),
           harness' = harness, posted' = posted, walks' = walks, posts' = posts
    PROVE  Inv'
  <1> DEFINE r == request[q]
  <1>1. TypeOK
    BY DEF Inv
  <1>2. TypeOK'
    <2>1. walks' \in [Walks -> WalkState \cup {None}]
      BY <1>1 DEF TypeOK
    <2> QED
      BY <1>1, <2>1, PairsKeepTypes DEF Shows
  <1>3. HarnessSound' /\ CurrentGentle
    BY HarnessKept
  <1>4. MemoryGentle(q)
    BY DEF MemoryGentle, Shows
  <1>5. WaitsGentle(q)
    BY DEF WaitsGentle, Shows
  <1>6. ASSUME NEW n \in DOMAIN pairs'
        PROVE  /\ PairSound(n)'
               /\ \A s \in Sessions : pairs'[n].waits[s] = 2 => Seen(n, s, 1)'
               /\ \A s \in pairs'[n].results : Seen(n, s, 1)' /\ Seen(n, s, 2)'
    <2>1. /\ n \in DOMAIN pairs /\ pairs[n].seen \subseteq pairs'[n].seen
          /\ \A x \in pairs'[n].seen \ pairs[n].seen : x.pair = n /\ x.altered = {}
          /\ pairs'[n].cached \subseteq pairs'[n].seen
          /\ \A s \in Sessions : pairs'[n].waits[s] = 2 => pairs[n].waits[s] = 2
          /\ \A s \in pairs'[n].results : s \in pairs[n].results \/ (n = r.pair /\ s = r.sid)
      BY <1>6 DEF Shows
    <2>2. /\ PairSound(n) /\ \A s \in Sessions : pairs[n].waits[s] = 2 => Seen(n, s, 1)
          /\ \A s \in pairs[n].results : Seen(n, s, 1) /\ Seen(n, s, 2)
      BY <2>1 DEF Inv, ShapesSound, EvidenceSound, ResultFromBothRounds, Seen
    <2> QED
      BY <2>1, <2>2 DEF PairSound, Seen, Envelope
  <1>7. OwnPartSound(q)'
    BY <1>6 DEF OwnPartSound, RequestSound
  <1> QED
    BY <1>2, <1>3, <1>4, <1>5, <1>7, SameWalks, GentleStepKeeps DEF Gentle

\* What is known when an answer to the second message comes, and what the pairs
\* are then.
Done(r)  == [pairs[r.pair] EXCEPT !.waits = [pairs[r.pair].waits EXCEPT ![r.sid] = 0],
                                  !.results = pairs[r.pair].results \cup {r.sid}]

EndsAs(r, p, done, shown) ==
    /\ r # None /\ r.at = "answered" /\ TypeOK /\ r.kind # "send"
    /\ r \in Locals /\ p \in DOMAIN pairs /\ r.sid \in Sessions /\ ~Early(r)
    /\ LocalsSound(r) /\ p \in Nat \ {0} /\ p <= Len(pairs)
    /\ r.first \in Envelopes /\ r.first.pair = p /\ r.first.sid = r.sid
    /\ r.first.round = 1 /\ r.first # None /\ r.first.altered \in SUBSET Tamperings
    /\ Seen(p, r.sid, 1) /\ Seen(p, r.sid, 2)
    /\ pairs[p] \in Pairs /\ pairs \in Seq(Pairs) /\ PairSound(p)
    /\ done \in Pairs /\ done.seen = pairs[p].seen /\ done.cached = pairs[p].cached
    /\ done.results = pairs[p].results \cup {r.sid}
    /\ \A t \in Sessions : done.waits[t] \in {0, pairs[p].waits[t]}
    /\ shown[p] = done
    /\ shown \in Seq(Pairs) /\ Len(shown) = Len(pairs) /\ DOMAIN shown = DOMAIN pairs
    /\ \A n \in DOMAIN pairs \ {p} : shown[n] = pairs[n]
    /\ \A n \in DOMAIN pairs :
         /\ shown[n] \in Pairs /\ shown[n].seen = pairs[n].seen
         /\ shown[n].cached = pairs[n].cached /\ shown[n].cached \subseteq shown[n].seen
         /\ \A t \in Sessions : shown[n].waits[t] \in {0, pairs[n].waits[t]}
         /\ \A t \in shown[n].results : t \in pairs[n].results \/ (n = p /\ t = r.sid)

LEMMA EndsKnows ==
    ASSUME Inv, NEW q \in Requests, Ends(q)
    PROVE  EndsAs(request[q], request[q].pair, Done(request[q]), Shown(request[q]))
  <1> PICK r : r = request[q]
    OBVIOUS
  <1> PICK p : p = r.pair
    OBVIOUS
  <1> PICK done : done = Done(r)
    OBVIOUS
  <1> PICK shown : shown = Shown(r)
    OBVIOUS
  <1>1. /\ r # None /\ r.at = "answered" /\ TypeOK /\ r.kind # "send" /\ IsReply(r.reply)
        /\ r.reply.round = 2 /\ Takes(p, r.sid, r.reply)
    BY DEF Ends, At, Inv
  <1>2. /\ r \in Locals /\ p \in DOMAIN pairs /\ r.sid \in Sessions /\ ~Early(r)
        /\ LocalsSound(r) /\ p \in Nat \ {0} /\ p <= Len(pairs)
    <2>1. r \in Locals /\ p \in DOMAIN pairs /\ LocalsSound(r) /\ ~Early(r) /\ p <= Len(pairs)
      BY <1>1, PairExists DEF TypeOK, Inv, ShapesSound, Early
    <2>2. p # 0
      BY <1>1, <2>1 DEF LocalsSound
    <2> QED
      BY <2>1, <2>2 DEF Locals
  <1>3. /\ r.first \in Envelopes /\ r.first.pair = p /\ r.first.sid = r.sid
        /\ r.first.round = 1 /\ r.first # None /\ r.first.altered \in SUBSET Tamperings
    <2>1. /\ r.first # None /\ r.first.pair = p /\ r.first.sid = r.sid /\ r.first.round = 1
      BY <1>2 DEF LocalsSound
    <2>2. r.first \in Envelopes
      BY <1>2, <2>1 DEF Locals
    <2> QED
      BY <2>1, <2>2 DEF Envelopes
  <1>4. Seen(p, r.sid, 1) /\ Seen(p, r.sid, 2)
    <2>1. pairs[p].waits[r.sid] = 2 /\ r.reply.sid = r.sid
      BY <1>1 DEF Takes
    <2>2. Seen(p, r.sid, 1)
      BY <1>2, <2>1 DEF Inv, EvidenceSound
    <2>3. \E n \in DOMAIN pairs : Seen(n, r.sid, 2)
      BY <1>1, <2>1 DEF Inv, EvidenceSound, Evidence, IsReply
    <2> QED
      BY <1>2, <2>1, <2>2, <2>3, SameOwner
  <1>5. pairs[p] \in Pairs /\ pairs \in Seq(Pairs) /\ PairSound(p)
    BY <1>1, <1>2 DEF TypeOK, Inv, ShapesSound
  <1>6. /\ done \in Pairs /\ done.seen = pairs[p].seen /\ done.cached = pairs[p].cached
        /\ done.results = pairs[p].results \cup {r.sid}
        /\ \A t \in Sessions : done.waits[t] \in {0, pairs[p].waits[t]}
    <2> DEFINE waits   == [pairs[p].waits EXCEPT ![r.sid] = 0]
               results == pairs[p].results \cup {r.sid}
    <2>1. pairs[p].waits \in [Sessions -> 0..2] /\ pairs[p].results \in SUBSET Sessions
      BY <1>5 DEF Pairs
    <2>2. /\ waits \in [Sessions -> 0..2] /\ results \in SUBSET Sessions
          /\ \A t \in Sessions : waits[t] \in {0, pairs[p].waits[t]}
      BY <1>2, <2>1
    <2> HIDE DEF waits, results
    <2>3. done = [pairs[p] EXCEPT !.waits = waits, !.results = results]
      BY DEF waits, results, Done
    <2>4. /\ done \in Pairs /\ done.seen = pairs[p].seen /\ done.cached = pairs[p].cached
          /\ done.results = results /\ done.waits = waits
      BY <1>5, <2>2, <2>3 DEF Pairs
    <2> QED
      BY <2>2, <2>4 DEF results
  <1>7. shown = [pairs EXCEPT ![p] = done] /\ shown[p] = done
    BY <1>2, <1>5 DEF Shown, Done
  <1>8. /\ shown \in Seq(Pairs) /\ Len(shown) = Len(pairs) /\ DOMAIN shown = DOMAIN pairs
        /\ \A n \in DOMAIN pairs \ {p} : shown[n] = pairs[n]
    BY <1>2, <1>5, <1>6, <1>7
  <1>9. ASSUME NEW n \in DOMAIN pairs
        PROVE  /\ shown[n] \in Pairs /\ shown[n].seen = pairs[n].seen
               /\ shown[n].cached = pairs[n].cached /\ shown[n].cached \subseteq shown[n].seen
               /\ \A t \in Sessions : shown[n].waits[t] \in {0, pairs[n].waits[t]}
               /\ \A t \in shown[n].results : t \in pairs[n].results \/ (n = p /\ t = r.sid)
    <2>1. PairSound(n)
      BY DEF Inv, ShapesSound
    <2>2. CASE n = p
      BY <1>6, <1>7, <2>1, <2>2 DEF PairSound
    <2>3. CASE n # p
      BY <1>8, <2>1, <2>3 DEF PairSound
    <2> QED
      BY <2>2, <2>3
  <1> QED
    BY <1>1, <1>2, <1>3, <1>4, <1>5, <1>6, <1>7, <1>8, <1>9 DEF EndsAs

\* A second answer ends its session.
LEMMA FinishKeeps ==
    ASSUME Inv, NEW q \in Requests, Finish(q)
    PROVE  Inv'
  <1> PICK r : r = request[q]
    OBVIOUS
  <1> PICK p : p = r.pair
    OBVIOUS
  <1> PICK done : done = Done(r)
    OBVIOUS
  <1> PICK shown : shown = Shown(r)
    OBVIOUS
  <1>1. /\ Ends(q) /\ pairs' = shown /\ Answer(q) /\ harness' = harness /\ posted' = posted
        /\ walks' = walks /\ posts' = posts
    BY DEF Finish
  <1>0. EndsAs(r, p, done, shown)
    BY <1>1, EndsKnows
  <1>2. /\ r # None /\ TypeOK /\ ~Early(r) /\ Seen(p, r.sid, 1) /\ Seen(p, r.sid, 2)
        /\ shown \in Seq(Pairs) /\ Len(shown) = Len(pairs) /\ DOMAIN shown = DOMAIN pairs
        /\ \A n \in DOMAIN pairs :
             /\ shown[n] \in Pairs /\ shown[n].seen = pairs[n].seen
             /\ shown[n].cached = pairs[n].cached /\ shown[n].cached \subseteq shown[n].seen
             /\ \A t \in Sessions : shown[n].waits[t] \in {0, pairs[n].waits[t]}
             /\ \A t \in shown[n].results : t \in pairs[n].results \/ (n = p /\ t = r.sid)
    BY <1>0 DEF EndsAs
  <1>3. Shows(q, p, r.sid)
    BY <1>1, <1>2 DEF Shows
  <1>4. \A o \in Requests : request'[o] # None => request'[o].pair <= Len(pairs)
    BY <1>1, <1>2, AnswerEnds DEF TypeOK
  <1> QED
    BY <1>1, <1>2, <1>3, <1>4, AnswerEnds, ShowsKeeps

\* A run then gives its own receiver what its closure holds: its own first
\* message, which the receiver has taken, or one of another request.
LEMMA FinishRunKeeps ==
    ASSUME Inv, NEW q \in Requests, FinishRunAndReplay(q)
    PROVE  Inv'
  <1> PICK r : r = request[q]
    OBVIOUS
  <1> PICK p : p = r.pair
    OBVIOUS
  <1> PICK done : done = Done(r)
    OBVIOUS
  <1> PICK shown : shown = Shown(r)
    OBVIOUS
  <1> PICK e : e = tap[q].first
    OBVIOUS
  <1> PICK clear : clear = DedupeCleared(shown[p])
    OBVIOUS
  <1>1. /\ Ends(q) /\ r.kind = "run" /\ "replay" \in r.attacks
        /\ harness' = harness /\ posted' = posted /\ walks' = walks /\ posts' = posts
        /\ tap' = tap
        /\ \E view \in Views(p, clear, e) :
             LET again == Handled(p, clear, e, view)
             IN  /\ pairs' = [shown EXCEPT ![p] = again.pair]
                 /\ request' = [request EXCEPT ![q].at = "replayed",
                                               ![q].reply = Reply(e, again.ok)]
    BY DEF FinishRunAndReplay
  <1>0. EndsAs(r, p, done, shown)
    BY <1>1, EndsKnows
  <1>2. PICK view \in Views(p, clear, e) :
             LET again == Handled(p, clear, e, view)
             IN  /\ pairs' = [shown EXCEPT ![p] = again.pair]
                 /\ request' = [request EXCEPT ![q].at = "replayed",
                                               ![q].reply = Reply(e, again.ok)]
    BY <1>1
  <1> PICK again : again = Handled(p, clear, e, view)
    OBVIOUS
  <1>3. /\ pairs' = [shown EXCEPT ![p] = again.pair]
        /\ request' = [request EXCEPT ![q].at = "replayed", ![q].reply = Reply(e, again.ok)]
    BY <1>2
  <1>4. /\ r # None /\ TypeOK /\ ~Early(r) /\ Seen(p, r.sid, 1) /\ Seen(p, r.sid, 2)
        /\ r.at = "answered" /\ r \in Locals /\ LocalsSound(r) /\ r.sid \in Sessions
        /\ p \in DOMAIN pairs /\ p \in Nat \ {0} /\ p <= Len(pairs) /\ PairSound(p)
        /\ done \in Pairs /\ done.seen = pairs[p].seen /\ done.cached = pairs[p].cached
        /\ done.results = pairs[p].results \cup {r.sid}
        /\ \A t \in Sessions : done.waits[t] \in {0, pairs[p].waits[t]}
        /\ shown[p] = done
    BY <1>0 DEF EndsAs
  <1>5. /\ shown \in Seq(Pairs) /\ Len(shown) = Len(pairs) /\ DOMAIN shown = DOMAIN pairs
        /\ \A n \in DOMAIN pairs :
             /\ shown[n] \in Pairs /\ shown[n].seen = pairs[n].seen
             /\ shown[n].cached = pairs[n].cached /\ shown[n].cached \subseteq shown[n].seen
             /\ \A t \in Sessions : shown[n].waits[t] \in {0, pairs[n].waits[t]}
             /\ \A t \in shown[n].results : t \in pairs[n].results \/ (n = p /\ t = r.sid)
    BY <1>0 DEF EndsAs
  <1>6. /\ e \in Envelopes /\ e.pair = p /\ Captured(q, e)
        /\ e.sid = r.sid => e.round = 1
    <2>1. r.at \notin {"ensure", "start"}
      BY <1>4
    <2>2. tap[q] # None
      BY <1>1, <1>4, <2>1 DEF Inv, ShapesSound, TapSound
    <2>3. /\ tap[q].pair = p /\ e # None /\ e.pair = tap[q].pair
          /\ e.sid = r.sid => e.round = 1
      BY <1>4, <2>2 DEF Inv, ShapesSound, TapSound
    <2>4. e \in Envelopes \cup {None}
      BY <1>4, <2>2 DEF TypeOK, Taps
    <2> QED
      BY <2>2, <2>3, <2>4 DEF Captured
  <1>7. /\ clear \in Pairs /\ clear.seen = done.seen /\ clear.cached = {}
        /\ clear.results = done.results /\ clear.waits = done.waits
    BY <1>4 DEF DedupeCleared, Pairs
  <1>8. \A x \in clear.seen : x.pair = p /\ x.altered = {}
    BY <1>4, <1>7 DEF PairSound
  <1>9. Learns(p, clear, e, again.pair, again.ok)
    BY <1>6, <1>7, <1>8, HandledLearns
  <1>10. e.sid = r.sid => ~again.ok
    <2>1. SUFFICES ASSUME e.sid = r.sid PROVE ~again.ok
      OBVIOUS
    <2>2. e.round = 1
      BY <1>6, <2>1
    <2>3. ASSUME e.altered = {} PROVE e \in clear.seen
      <3>1. e = Envelope(p, r.sid, 1, {})
        BY <1>6, <2>1, <2>2, <2>3 DEF Envelopes, Envelope
      <3> QED
        BY <1>4, <1>7, <3>1 DEF Seen
    <2>4. e \notin clear.cached /\ (e.round = 1 /\ e.pair = p /\ e.altered = {} => e \in clear.seen)
      BY <1>7, <2>3
    <2>5. clear \in Pairs /\ e \in Envelopes /\ clear.cached \subseteq clear.seen
      BY <1>6, <1>7
    <2>6. ~Handled(p, clear, e, view).ok
      BY <1>8, <2>2, <2>4, <2>5, HandledLearns
    <2> QED
      BY <2>6
  <1>11. /\ pairs' \in Seq(Pairs) /\ Len(pairs') = Len(pairs) /\ DOMAIN pairs' = DOMAIN pairs
         /\ pairs'[p] = again.pair /\ \A n \in DOMAIN pairs \ {p} : pairs'[n] = shown[n]
    <2>1. again.pair \in Pairs /\ p \in DOMAIN shown
      BY <1>4, <1>5, <1>9 DEF Learns
    <2> QED
      BY <1>3, <1>5, <2>1
  <1>12. Shows(q, p, r.sid)
    <2>1. ASSUME NEW n \in DOMAIN pairs
          PROVE  /\ pairs[n].seen \subseteq pairs'[n].seen
                 /\ \A x \in pairs'[n].seen \ pairs[n].seen :
                      /\ n = p /\ x.pair = n /\ x.altered = {}
                      /\ x.sid = r.sid \/ Captured(q, x)
                 /\ \A x \in pairs'[n].cached \ pairs[n].cached :
                      x.altered = {} /\ (x.round = 1 => x \notin pairs[n].seen)
                 /\ pairs'[n].cached \subseteq pairs'[n].seen
                 /\ \A t \in Sessions : pairs'[n].waits[t] \in {0, pairs[n].waits[t]}
                 /\ \A t \in pairs'[n].results :
                      t \in pairs[n].results \/ (n = p /\ t = r.sid)
      <3>1. CASE n = p
        <4>1. /\ pairs'[n].seen = again.pair.seen /\ pairs'[n].cached = again.pair.cached
              /\ pairs'[n].waits = done.waits /\ pairs'[n].results = done.results
              /\ pairs[n].seen = clear.seen
          <5>1. again.pair.waits = clear.waits /\ again.pair.results = clear.results
            BY <1>9 DEF Learns
          <5>2. pairs'[n] = again.pair
            BY <1>11, <3>1
          <5>3. clear.waits = done.waits /\ clear.results = done.results
                /\ clear.seen = pairs[n].seen
            BY <1>4, <1>7, <3>1
          <5> QED
            BY <5>1, <5>2, <5>3
        <4>2. /\ clear.seen \subseteq again.pair.seen
              /\ \A x \in again.pair.seen \ clear.seen : x = e /\ e.altered = {}
              /\ \A x \in again.pair.cached :
                   x = e /\ e.altered = {} /\ (e.round = 1 => e \notin clear.seen)
              /\ again.pair.cached \subseteq again.pair.seen
          <5>1. /\ clear.seen \subseteq again.pair.seen
                /\ again.pair.cached \subseteq again.pair.seen
            BY <1>9 DEF Learns
          <5>2. \A x \in again.pair.seen \ clear.seen : x = e /\ e.altered = {}
            BY <1>9 DEF Learns
          <5>3. \A x \in again.pair.cached \ clear.cached :
                  x = e /\ e.altered = {} /\ (e.round = 1 => e \notin clear.seen)
            BY <1>9 DEF Learns
          <5> QED
            BY <1>7, <5>1, <5>2, <5>3
        <4>3. \A x \in pairs'[n].seen \ pairs[n].seen :
                /\ n = p /\ x.pair = n /\ x.altered = {}
                /\ x.sid = r.sid \/ Captured(q, x)
          BY <1>6, <3>1, <4>1, <4>2
        <4>4. \A x \in pairs'[n].cached \ pairs[n].cached :
                x.altered = {} /\ (x.round = 1 => x \notin pairs[n].seen)
          BY <4>1, <4>2
        <4>5. /\ \A t \in Sessions : pairs'[n].waits[t] \in {0, pairs[n].waits[t]}
              /\ \A t \in pairs'[n].results : t \in pairs[n].results \/ (n = p /\ t = r.sid)
          BY <1>4, <3>1, <4>1
        <4> QED
          BY <4>1, <4>2, <4>3, <4>4, <4>5
      <3>2. CASE n # p
        BY <1>5, <1>11, <3>2
      <3> QED
        BY <3>1, <3>2
    <2> QED
      BY <1>11, <2>1 DEF Shows
  <1> PICK reply : reply = Reply(e, again.ok)
    OBVIOUS
  <1>13. reply \in Replies /\ reply.sid = e.sid /\ reply.round = e.round /\ reply.ok = again.ok
    <2>1. again.ok \in BOOLEAN
      BY <1>9 DEF Learns
    <2> QED
      BY <1>6, <2>1 DEF Reply, Replies, Envelopes
  <1> PICK new : new = [r EXCEPT !.at = "replayed", !.reply = reply]
    OBVIOUS
  <1>14. /\ new \in Locals /\ new.at = "replayed" /\ new.kind = r.kind /\ new.pair = r.pair
         /\ new.sid = r.sid /\ new.walk = r.walk /\ new.reply = reply
         /\ new.first = r.first /\ new.sent = r.sent /\ new.attacks = r.attacks /\ new # None
    <2>1. "replayed" \in Stages /\ reply \in Replies \cup {None}
      BY <1>13 DEF Stages
    <2>2. AnsweredAs(r, new, "replayed", reply)
      BY DEF AnsweredAs
    <2> QED
      BY <1>4, <2>1, <2>2, LocalsAnswered, NoneAssumption
  <1>15. /\ request' \in [Requests -> Locals \cup {None}] /\ request'[q] = new
         /\ \A o \in Requests \ {q} : request'[o] = request[o]
    BY <1>3, <1>4, <1>14 DEF TypeOK
  <1>16. RequestGentle(q) /\ ~At(q, "start")'
    BY <1>1, <1>4, <1>14, <1>15 DEF RequestGentle, Early, At
  <1>17. RequestSound(q)'
    <2>1. LocalsSound(request[q])'
      BY <1>1, <1>4, <1>14, <1>15 DEF LocalsSound, Early
    <2>2. Evidence(request[q].reply)'
      <3>1. ASSUME NEW a, a = reply, a.ok
            PROVE  Evidence(a)'
        <4>1. e \in again.pair.seen /\ e.altered = {}
          BY <1>9, <1>13, <3>1 DEF Learns
        <4>2. e = Envelope(p, a.sid, a.round, {})
          BY <1>6, <1>13, <3>1, <4>1 DEF Envelopes, Envelope
        <4>3. Envelope(p, a.sid, a.round, {}) \in pairs'[p].seen /\ p \in DOMAIN pairs'
          BY <1>4, <1>11, <4>1, <4>2
        <4> QED
          BY <4>3 DEF Evidence, Seen, Envelope
      <3>2. PICK a : a = reply
        OBVIOUS
      <3>3. Evidence(a)'
        BY <3>1, <3>2 DEF Evidence
      <3> QED
        BY <1>14, <1>15, <3>2, <3>3
    <2>3. RefusedAgain(request[q])'
      <3>1. new.reply.sid = new.sid => ~new.reply.ok
        BY <1>10, <1>13, <1>14
      <3> QED
        BY <1>15, <3>1 DEF RefusedAgain
    <2>4. TapSound(q)'
      <3>1. /\ request'[q] # None /\ request'[q].pair = request[q].pair
            /\ request'[q].sid = request[q].sid /\ request'[q].kind = request[q].kind
            /\ request'[q].attacks = request[q].attacks
            /\ ~Early(request'[q]) /\ ~Early(request[q]) /\ request[q] # None
        BY <1>4, <1>14, <1>15 DEF Early
      <3>2. /\ request'[q].at \notin {"ensure", "start"}
            /\ request[q].at \notin {"ensure", "start"}
        BY <3>1 DEF Early
      <3> QED
        BY <1>1, <3>1, <3>2, OwnTapStays
    <2> QED
      BY <1>14, <1>15, <2>1, <2>2, <2>3, <2>4 DEF RequestSound
  <1>18. ASSUME NEW o \in Requests, request'[o] # None
         PROVE  request'[o].pair <= Len(pairs)
    <2>1. CASE o = q
      BY <1>4, <1>14, <1>15, <2>1
    <2>2. CASE o # q
      BY <1>4, <1>15, <1>18, <2>2 DEF TypeOK
    <2> QED
      BY <2>1, <2>2
  <1>19. TapsGentle(q) /\ tap' \in [Requests -> Taps \cup {None}]
    BY <1>1, <1>4, SameTaps DEF TypeOK
  <1> QED
    BY <1>1, <1>4, <1>12, <1>15, <1>16, <1>17, <1>18, <1>19, ShowsKeeps

\* A walk sends its first message again, having cleared the cache of the
\* receiver that serves.
LEMMA FinishWalkKeeps ==
    ASSUME Inv, NEW q \in Requests, FinishWalkAndReplay(q)
    PROVE  Inv'
  <1> PICK r : r = request[q]
    OBVIOUS
  <1> PICK p : p = r.pair
    OBVIOUS
  <1> PICK done : done = Done(r)
    OBVIOUS
  <1> PICK shown : shown = Shown(r)
    OBVIOUS
  <1> PICK c : c = harness.current
    OBVIOUS
  <1> PICK clear : clear = DedupeCleared(shown[c])
    OBVIOUS
  <1> PICK sent : sent = [r.first EXCEPT !.altered = @ \cup pairs[p].tampers]
    OBVIOUS
  <1> PICK new : new = [r EXCEPT !.at = "replaying", !.sent = sent]
    OBVIOUS
  <1>1. /\ Ends(q) /\ r.kind = "finalize"
        /\ harness' = harness /\ posted' = posted /\ walks' = walks /\ posts' = posts
        /\ pairs' = [shown EXCEPT ![c] = clear] /\ request' = [request EXCEPT ![q] = new]
        /\ Pass(p, r.first)
    BY DEF FinishWalkAndReplay
  <1>0. EndsAs(r, p, done, shown)
    BY <1>1, EndsKnows
  <1>2. /\ r # None /\ TypeOK /\ ~Early(r) /\ Seen(p, r.sid, 1) /\ Seen(p, r.sid, 2)
        /\ r.at = "answered" /\ r \in Locals /\ LocalsSound(r) /\ r.sid \in Sessions
        /\ p \in DOMAIN pairs /\ p \in Nat \ {0} /\ p <= Len(pairs) /\ pairs[p] \in Pairs
        /\ r.first \in Envelopes /\ r.first.pair = p /\ r.first.sid = r.sid
        /\ r.first.round = 1 /\ r.first # None /\ r.first.altered \in SUBSET Tamperings
    BY <1>0 DEF EndsAs
  <1>3. /\ shown \in Seq(Pairs) /\ Len(shown) = Len(pairs) /\ DOMAIN shown = DOMAIN pairs
        /\ \A n \in DOMAIN pairs :
             /\ shown[n] \in Pairs /\ shown[n].seen = pairs[n].seen
             /\ shown[n].cached = pairs[n].cached /\ shown[n].cached \subseteq shown[n].seen
             /\ \A t \in Sessions : shown[n].waits[t] \in {0, pairs[n].waits[t]}
             /\ \A t \in shown[n].results : t \in pairs[n].results \/ (n = p /\ t = r.sid)
    BY <1>0 DEF EndsAs
  <1>4. c \in DOMAIN pairs /\ shown[c] \in Pairs /\ c # 0
    <2>1. c # 0
      BY <1>2 DEF LocalsSound
    <2> QED
      BY <1>3, <2>1, PairExists
  <1>5. /\ clear \in Pairs /\ clear.seen = shown[c].seen /\ clear.cached = {}
        /\ clear.results = shown[c].results /\ clear.waits = shown[c].waits
    BY <1>4 DEF DedupeCleared, Pairs
  <1>6. /\ pairs' \in Seq(Pairs) /\ Len(pairs') = Len(pairs) /\ DOMAIN pairs' = DOMAIN pairs
        /\ pairs'[c] = clear /\ \A n \in DOMAIN pairs \ {c} : pairs'[n] = shown[n]
    BY <1>1, <1>3, <1>4, <1>5
  <1>7. Shows(q, p, r.sid)
    <2>1. ASSUME NEW n \in DOMAIN pairs
          PROVE  /\ pairs'[n].seen = shown[n].seen /\ pairs'[n].results = shown[n].results
                 /\ pairs'[n].waits = shown[n].waits
                 /\ pairs'[n].cached \subseteq shown[n].cached
      BY <1>5, <1>6
    <2> QED
      BY <1>3, <1>6, <2>1 DEF Shows
  <1>8. sent \in Envelopes /\ sent.pair = p /\ sent.sid = r.sid /\ sent.round = 1 /\ sent # None
    <2>1. pairs[p].tampers \in SUBSET Tamperings
      BY <1>2 DEF Pairs
    <2>2. sent \in Envelopes /\ sent.pair = p /\ sent.sid = r.sid /\ sent.round = 1
      BY <1>2, <2>1 DEF Envelopes
    <2> QED
      BY <2>2, NoneAssumption
  <1>9. /\ new \in Locals /\ new.at = "replaying" /\ new.kind = r.kind /\ new.pair = r.pair
        /\ new.sid = r.sid /\ new.walk = r.walk /\ new.reply = r.reply
        /\ new.first = r.first /\ new.sent = sent /\ new.attacks = r.attacks /\ new # None
    <2>1. "replaying" \in Stages
      BY DEF Stages
    <2>2. SentAs(r, new, "replaying", sent)
      BY DEF SentAs
    <2> QED
      BY <1>2, <1>8, <2>1, <2>2, LocalsSend, NoneAssumption
  <1>10. /\ request' \in [Requests -> Locals \cup {None}] /\ request'[q] = new
         /\ \A o \in Requests \ {q} : request'[o] = request[o]
    BY <1>1, <1>2, <1>9 DEF TypeOK
  <1>11. RequestGentle(q) /\ ~At(q, "start")'
    BY <1>1, <1>2, <1>9, <1>10 DEF RequestGentle, Early, At
  <1>12. TapsGentle(q) /\ tap' \in [Requests -> Taps \cup {None}] /\ TapSound(q)'
    <2>1. /\ request'[q] # None /\ ~Early(request'[q]) /\ request'[q].sid = r.sid
          /\ request'[q].pair = p /\ request'[q].kind = r.kind
          /\ request'[q].attacks = r.attacks
      BY <1>9, <1>10 DEF Early
    <2>2. TapsGentle(q) /\ tap' \in [Requests -> Taps \cup {None}]
      BY <1>1, <1>2, <2>1, PassKeepsTaps
    <2>3. TapSound(q)'
      BY <1>1, <1>2, <2>1, OwnTapPasses
    <2> QED
      BY <2>2, <2>3
  <1>13. RequestSound(q)'
    <2>1. LocalsSound(request[q])'
      <3>1. /\ harness.current # 0 /\ r.pair # 0 /\ r.kind = "finalize"
            /\ r.reply # None => r.reply.sid = r.sid
        BY <1>1, <1>2 DEF LocalsSound
      <3>2. harness'.current = harness.current /\ request'[q] = new /\ walks' = walks
        BY <1>1, <1>10
      <3>3. /\ ~Early(new) /\ new.kind # "send" /\ new.at \notin {"ensure", "start"}
            /\ new.pair # 0 /\ new.kind = "finalize"
        BY <1>9, <3>1 DEF Early
      <3>4. /\ new.first # None /\ new.first.pair = new.pair
            /\ new.first.sid = new.sid /\ new.first.round = 1
            /\ new.sent # None /\ new.sent.pair = new.pair /\ new.sent.sid = new.sid
            /\ new.reply # None => new.reply.sid = new.sid
        <4>1. /\ new.first # None /\ new.first.pair = new.pair
              /\ new.first.sid = new.sid /\ new.first.round = 1
          BY <1>2, <1>9
        <4>2. /\ new.sent # None /\ new.sent.pair = new.pair /\ new.sent.sid = new.sid
          BY <1>2, <1>8, <1>9
        <4>3. new.reply # None => new.reply.sid = new.sid
          BY <1>9, <3>1
        <4> QED
          BY <4>1, <4>2, <4>3
      <3>5. LocalsSound(new)'
        BY <3>1, <3>2, <3>3, <3>4 DEF LocalsSound, Early
      <3> QED
        BY <3>2, <3>5 DEF LocalsSound, Early
    <2>2. Evidence(request[q].reply)'
      <3>1. Evidence(r.reply) /\ MemoryGentle(q)
        BY <1>2, <1>7 DEF Inv, EvidenceSound, MemoryGentle, Shows
      <3>2. ASSUME NEW reply, reply = r.reply PROVE Evidence(reply)'
        BY <3>1, <3>2, SeenKept
      <3> QED
        BY <1>9, <1>10, <3>2
    <2>3. Replaying(request[q])'
      <3>1. Envelope(p, r.sid, 1, {}) \in pairs'[p].seen
        BY <1>2, <1>7 DEF Seen, Shows
      <3>2. p = harness'.current => sent \notin pairs'[p].cached
        BY <1>1, <1>5, <1>6
      <3> QED
        BY <1>8, <1>9, <1>10, <3>1, <3>2 DEF Replaying, Seen, Envelope
    <2> QED
      BY <1>9, <1>10, <1>12, <2>1, <2>2, <2>3 DEF RequestSound, RefusedAgain
  <1>14. ASSUME NEW o \in Requests, request'[o] # None
         PROVE  request'[o].pair <= Len(pairs)
    <2>1. CASE o = q
      BY <1>2, <1>9, <1>10, <2>1
    <2>2. CASE o # q
      BY <1>2, <1>10, <1>14, <2>2 DEF TypeOK
    <2> QED
      BY <2>1, <2>2
  <1> QED
    BY <1>1, <1>2, <1>7, <1>10, <1>11, <1>12, <1>13, <1>14, ShowsKeeps

-----------------------------------------------------------------------------
(* New requests.                                                            *)

\* The receivers know what they knew, and no session is opened.
NoneOpens ==
    /\ pairs' \in Seq(Pairs) /\ Len(pairs') = Len(pairs) /\ DOMAIN pairs' = DOMAIN pairs
    /\ \A n \in DOMAIN pairs :
         /\ pairs'[n].seen = pairs[n].seen /\ pairs'[n].cached = pairs[n].cached
         /\ pairs'[n].results = pairs[n].results
         /\ \A s \in Sessions : /\ pairs'[n].waits[s] # 0 => pairs[n].waits[s] # 0
                                /\ pairs'[n].waits[s] = 2 => Seen(n, s, 1)

\* The session of a walk that finalize goes on with.
WalkHas(k, new) ==
    k # None /\ k.sid = new.sid /\ k.first # None /\ k.first.pair = new.pair

\* A request that begins has a session of its own; one that finalizes a walk
\* has the walk's, with the pair that has it under way.
LEMMA PostKeeps ==
    ASSUME Inv, NEW q \in Requests, NEW new \in Locals, Post(q, new),
           NoneOpens, LocalsSound(new)', new.pair <= Len(pairs), new.reply = None,
           new.at \in {"ensure", "sending"},
           new.at = "ensure" => new.sid = posts + 1,
           new.at = "sending" => \E w \in Walks : WalkHas(walks[w], new),
           posted' \subseteq Attacks, harness' = harness, walks' = walks,
           new.at = "sending" => new.kind # "run",
           \/ tap' = tap
           \/ \E e \in Envelopes : /\ Pass(new.pair, e) /\ e.pair = new.pair /\ e.sid = new.sid
                                  /\ new.at = "sending"
    PROVE  Inv'
  <1>1. /\ request[q] = None /\ posts < MaxPosts /\ posts' = posts + 1 /\ TypeOK
        /\ request' = [request EXCEPT ![q] = new] /\ posts \in Nat /\ posts + 1 \in Sessions
        /\ posts + 1 <= MaxPosts /\ new.sid \in Sessions /\ new # None
    BY BoundAssumption, NoneAssumption DEF Post, Inv, TypeOK, Sessions, Locals
  <1>2. /\ request' \in [Requests -> Locals \cup {None}] /\ request'[q] = new
        /\ \A o \in Requests \ {q} : request'[o] = request[o]
    BY <1>1 DEF TypeOK
  <1>16. /\ tap' \in [Requests -> Taps \cup {None}] /\ TapsGentle(q) /\ tap'[q] = None
    <2>1. tap[q] = None
      BY <1>1 DEF Inv, ShapesSound, TapSound
    <2>2. CASE tap' = tap
      BY <1>1, <2>1, <2>2, SameTaps DEF TypeOK
    <2>3. ASSUME NEW e \in Envelopes, Pass(new.pair, e), e.pair = new.pair, e.sid = new.sid,
                 new.at = "sending"
          PROVE  tap' \in [Requests -> Taps \cup {None}] /\ TapsGentle(q) /\ tap'[q] = None
      <3>1. ~Early(request'[q])
        BY <1>2, <2>3 DEF Early
      <3> QED
        BY <1>1, <1>2, <2>1, <2>3, <3>1, PassKeepsTaps
    <2> QED
      BY <2>2, <2>3
  <1>3. TypeOK'
    BY <1>1, <1>2, <1>16, BoundAssumption DEF TypeOK, NoneOpens
  <1>4. HarnessSound'
    BY <1>2 DEF Inv, HarnessSound, At
  <1>17. ASSUME NEW o \in Requests, CapturesFrom(q, o)
         PROVE  /\ new.at = "sending" /\ tap'[o].first.sid = new.sid
                /\ tap'[o].first.pair = new.pair /\ tap'[o].pair = new.pair
    BY <1>2, <1>17 DEF CapturesFrom, Early
  <1>18. new.at = "sending" => ~Unused(new.sid)
    BY DEF WalkHas, Unused
  <1>5. ASSUME NEW s \in Sessions, Unused(s)
        PROVE  Unused(s)'
    <2>1. ASSUME NEW o \in Requests, tap'[o] # None, tap'[o].first # None
          PROVE  tap'[o].first.sid # s
      BY <1>5, <1>16, <1>17, <1>18, <2>1 DEF TapsGentle, Unused
    <2> QED
      BY <1>5, <2>1 DEF Unused, NoneOpens
  <1>6. ~Unused(new.sid) \/ new.sid = posts + 1
    BY DEF WalkHas, Unused
  <1>7. new.sid <= posts + 1
    <2>1. new.sid \in Nat
      BY <1>1 DEF Sessions
    <2> QED
      BY <1>1, <1>6, <2>1 DEF Inv, NumbersSound
  <1>8. ASSUME NEW o \in Requests \ {q}, request[o] # None
        PROVE  /\ new.at = "ensure" => request[o].sid # new.sid
               /\ Early(request[o]) => request[o].sid # new.sid
    <2>1. request[o].sid # posts + 1
      BY <1>1, <1>8 DEF Inv, NumbersSound
    <2>2. Early(request[o]) => Unused(request[o].sid)
      BY <1>8 DEF Inv, NumbersSound
    <2> QED
      BY <1>6, <2>1, <2>2
  <1>9. NumbersSound'
    <2>1. ASSUME NEW s \in Sessions, s > posts'
          PROVE  Unused(s)' /\ \A o \in Requests : request'[o] # None => request'[o].sid # s
      <3>1. s \in Nat /\ s > posts /\ s # new.sid
        BY <1>1, <1>7, <2>1 DEF Sessions
      <3>2. Unused(s) /\ \A o \in Requests : request[o] # None => request[o].sid # s
        BY <3>1 DEF Inv, NumbersSound
      <3> QED
        BY <1>2, <1>5, <3>1, <3>2
    <2>2. ASSUME NEW o \in Requests, request'[o] # None, Early(request'[o]),
                 NEW s \in Sessions, s = request'[o].sid
          PROVE  /\ Unused(s)'
                 /\ \A j \in Requests \ {o} : request'[j] # None => request'[j].sid # s
      <3>1. CASE o = q
        <4>1. new.at = "ensure" /\ s = posts + 1
          BY <1>2, <2>2, <3>1 DEF Early
        <4>2. Unused(s)
          BY <1>1, <4>1 DEF Inv, NumbersSound
        <4> QED
          BY <1>2, <1>5, <1>8, <2>2, <3>1, <4>1, <4>2
      <3>2. CASE o # q
        <4>1. request[o] # None /\ Early(request[o]) /\ request[o].sid = s
          BY <1>2, <2>2, <3>2
        <4>2. Unused(s) /\ \A j \in Requests \ {o} : request[j] # None => request[j].sid # s
          BY <4>1 DEF Inv, NumbersSound
        <4> QED
          BY <1>2, <1>5, <1>8, <3>2, <4>1, <4>2
      <3> QED
        BY <3>1, <3>2
    <2>3. \A o \in Requests : request'[o] # None => request'[o].sid \in Sessions
      BY <1>2 DEF Locals
    <2> QED
      BY <2>1, <2>2, <2>3 DEF NumbersSound, Early
  <1>10. Owned'
    <2> SUFFICES ASSUME NEW n \in DOMAIN pairs', NEW s \in Sessions, pairs'[n].waits[s] # 0
                 PROVE  /\ \A o \in Requests :
                             request'[o] # None /\ request'[o].sid = s => request'[o].pair = n
                        /\ \A w \in Walks :
                             walks'[w] # None /\ walks'[w].first # None /\ walks'[w].sid = s
                             => walks'[w].first.pair = n
                        /\ \A m \in DOMAIN pairs' : \A e \in pairs'[m].seen : e.sid = s => m = n
                        /\ \A o \in Requests :
                             tap'[o] # None /\ tap'[o].first # None /\ tap'[o].first.sid = s
                             => tap'[o].first.pair = n
      BY DEF Owned
    <2>1. n \in DOMAIN pairs /\ pairs[n].waits[s] # 0
      BY DEF NoneOpens
    <2>2. /\ \A o \in Requests : request[o] # None /\ request[o].sid = s => request[o].pair = n
          /\ \A w \in Walks : walks[w] # None /\ walks[w].first # None /\ walks[w].sid = s
                              => walks[w].first.pair = n
          /\ \A m \in DOMAIN pairs : \A e \in pairs[m].seen : e.sid = s => m = n
          /\ \A o \in Requests :
               tap[o] # None /\ tap[o].first # None /\ tap[o].first.sid = s
               => tap[o].first.pair = n
      BY <2>1 DEF Inv, Owned
    <2>3. new.sid = s => new.pair = n
      <3>1. new.at = "ensure" => Unused(new.sid)
        BY <1>1 DEF Inv, NumbersSound
      <3>2. new.at = "ensure" => new.sid # s
        BY <2>1, <3>1 DEF Unused
      <3> QED
        BY <2>2, <3>2 DEF WalkHas
    <2>4. ASSUME NEW o \in Requests, tap'[o] # None, tap'[o].first # None,
                 tap'[o].first.sid = s
          PROVE  tap'[o].first.pair = n
      BY <1>16, <1>17, <2>2, <2>3, <2>4 DEF TapsGentle
    <2> QED
      BY <1>2, <2>2, <2>3, <2>4 DEF NoneOpens
  <1>11. ShapesSound'
    <2>1. ASSUME NEW o \in Requests, request'[o] # None
          PROVE  LocalsSound(request[o])'
      <3>1. CASE o = q
        BY <1>2, <3>1 DEF LocalsSound, Early
      <3>2. CASE o # q
        <4>1. request'[o] = request[o] /\ LocalsSound(request[o])
          BY <1>2, <2>1, <3>2 DEF Inv, ShapesSound
        <4> QED
          BY <4>1 DEF LocalsSound, Early
      <3> QED
        BY <3>1, <3>2
    <2>2. \A w \in Walks : walks'[w] # None => WalkSound(walks[w])'
      BY DEF Inv, ShapesSound, WalkSound
    <2>3. \A n \in DOMAIN pairs' : PairSound(n)'
      BY DEF Inv, ShapesSound, PairSound, NoneOpens
    <2>4. ASSUME NEW o \in Requests
          PROVE  TapSound(o)'
      <3>1. CASE o = q
        <4>1. request'[o] = new /\ tap'[o] = None
          BY <1>2, <1>16, <3>1
        <4>2. ~(new.kind = "run" /\ new.at \notin {"ensure", "start"})
          OBVIOUS
        <4> QED
          BY <4>1, <4>2 DEF TapSound
      <3>2. CASE o # q
        <4>1. /\ request'[o] = request[o] /\ TapSound(o)
              /\ tap'[o] = None <=> tap[o] = None
          BY <1>2, <1>16, <3>2 DEF Inv, ShapesSound, TapsGentle
        <4>2. tap[o] # None => /\ tap'[o].pair = tap[o].pair
                               /\ tap[o].first # None => tap'[o].first = tap[o].first
          BY <1>16, <3>2 DEF TapsGentle
        <4>3. ASSUME tap[o] # None, tap[o].first = None, tap'[o].first # None
              PROVE  tap'[o].first.pair = tap'[o].pair /\ tap'[o].first.sid # request[o].sid
          <5>1. request[o] # None /\ Early(request[o])
            BY <4>1, <4>3 DEF TapSound
          <5>2. CapturesFrom(q, o)
            BY <1>16, <3>2, <4>1, <4>3 DEF TapsGentle
          <5> QED
            BY <1>8, <1>17, <3>2, <5>1, <5>2
        <4> QED
          BY <4>1, <4>2, <4>3 DEF TapSound
      <3> QED
        BY <3>1, <3>2
    <2> QED
      BY <2>1, <2>2, <2>3, <2>4 DEF ShapesSound
  <1>12. \A n \in DOMAIN pairs : \A s, i : Seen(n, s, i) => Seen(n, s, i)'
    BY DEF NoneOpens, Seen, Envelope
  <1>13. EvidenceSound'
    <2>1. \A reply : Evidence(reply) => Evidence(reply)'
      BY <1>12 DEF Evidence, NoneOpens
    <2>2. ASSUME NEW o \in Requests, request'[o] # None
          PROVE  Evidence(request[o].reply)'
      <3>1. CASE o = q
        BY <1>2, <3>1 DEF Evidence
      <3>2. CASE o # q
        <4>1. request'[o] = request[o] /\ Evidence(request[o].reply)
          BY <1>2, <2>2, <3>2 DEF Inv, EvidenceSound
        <4>2. ASSUME NEW reply, reply = request[o].reply PROVE Evidence(reply)'
          BY <2>1, <4>1, <4>2
        <4> QED
          BY <4>1, <4>2
      <3> QED
        BY <3>1, <3>2
    <2>3. ASSUME NEW w \in Walks, walks'[w] # None
          PROVE  Evidence(walks[w].reply)'
      <3>1. walks'[w] = walks[w] /\ Evidence(walks[w].reply)
        BY <2>3 DEF Inv, EvidenceSound
      <3>2. ASSUME NEW reply, reply = walks[w].reply PROVE Evidence(reply)'
        BY <2>1, <3>1, <3>2
      <3> QED
        BY <3>1, <3>2
    <2>4. \A n \in DOMAIN pairs', s \in Sessions : pairs'[n].waits[s] = 2 => Seen(n, s, 1)'
      BY <1>12 DEF NoneOpens
    <2> QED
      BY <2>2, <2>3, <2>4 DEF EvidenceSound
  <1>14. ResultFromBothRounds'
    BY DEF Inv, ResultFromBothRounds, NoneOpens, Envelope
  <1>15. ReplaysSound'
    <2>1. ASSUME NEW o \in Requests, At(o, "replaying")'
          PROVE  Replaying(request[o])'
      <3>1. o # q /\ request'[o] = request[o] /\ Replaying(request[o])
        BY <1>2, <2>1 DEF At, Inv, ReplaysSound
      <3>2. request[o] \in Locals /\ request[o].pair \in DOMAIN pairs
        BY <1>1, <1>2, <2>1, <3>1, PairExists DEF At, TypeOK
      <3> QED
        BY <3>1, <3>2 DEF Replaying, Seen, Envelope, NoneOpens
    <2>2. ReplayIsRefused'
      BY <1>2 DEF Inv, ReplaysSound, ReplayIsRefused, At
    <2> QED
      BY <2>1, <2>2 DEF ReplaysSound
  <1> QED
    BY <1>3, <1>4, <1>9, <1>10, <1>11, <1>13, <1>14, <1>15 DEF Inv

LEMMA PostBeginKeeps ==
    ASSUME Inv, NEW q \in Requests, NEW lab \in Labs,
           \/ \E form \in RunForms : PostRun(q, lab, form)
           \/ \E w \in Walks, attacks \in SendAttacks : PostSend(q, w, lab, attacks)
    PROVE  Inv'
  <1>1. PICK kind \in {"run", "send"}, walk \in Walks \cup {None}, attacks \in SUBSET Attacks :
          /\ Post(q, Local(kind, "ensure", lab, walk, attacks))
          /\ kind = "send" => walk \in Walks /\ walks[walk] # None
          /\ posted' \subseteq Attacks
    <2>1. ASSUME NEW form \in RunForms, PostRun(q, lab, form)
          PROVE  /\ form.scenario \in SUBSET Attacks /\ posted' \subseteq Attacks
                 /\ Post(q, Local("run", "ensure", lab, None, form.scenario))
      BY <2>1, FormAssumption DEF PostRun
    <2>2. ASSUME NEW w \in Walks, NEW attacks \in SendAttacks, PostSend(q, w, lab, attacks)
          PROVE  /\ attacks \in SUBSET Attacks /\ posted' \subseteq Attacks /\ walks[w] # None
                 /\ Post(q, Local("send", "ensure", lab, w, attacks))
      <3>1. attacks \in SUBSET (Tamperings \cup {"replay"})
        BY FormAssumption
      <3>2. posted' = posted /\ posted \subseteq Attacks
        BY <2>2 DEF PostSend, Inv, TypeOK
      <3> QED
        BY <2>2, <3>1, <3>2 DEF PostSend, Known, Attacks
    <2>3. CASE \E form \in RunForms : PostRun(q, lab, form)
      BY <2>1, <2>3
    <2>4. CASE \E w \in Walks, attacks \in SendAttacks : PostSend(q, w, lab, attacks)
      BY <2>2, <2>4
    <2> QED
      BY <2>3, <2>4
  <1>2. /\ harness' = harness /\ pairs' = pairs /\ walks' = walks /\ tap' = tap /\ TypeOK
    BY DEF PostRun, PostSend, Inv
  <1> PICK new : new = Local(kind, "ensure", lab, walk, attacks)
    OBVIOUS
  <1>3. posts \in Nat /\ posts + 1 \in Sessions
    BY <1>1, <1>2, BoundAssumption DEF Post, TypeOK, Sessions
  <1>4. /\ new \in Locals /\ new.pair = 0 /\ new.reply = None /\ new.at = "ensure"
        /\ new.kind = kind /\ new.walk = walk /\ new.lab = lab /\ new.sid = posts + 1
    BY <1>3 DEF Local, Locals, Stages
  <1>5. LocalsSound(new)'
    BY <1>1, <1>2, <1>4 DEF LocalsSound, Early
  <1>6. NoneOpens
    BY <1>2 DEF TypeOK, NoneOpens, Inv, EvidenceSound
  <1>7. new.pair <= Len(pairs)
    BY <1>2, <1>4 DEF TypeOK
  <1>8. Post(q, new)
    BY <1>1
  <1> QED
    BY <1>1, <1>2, <1>4, <1>5, <1>6, <1>7, <1>8, PostKeeps

\* The walk's answer shows that the current pair has its session under way.
LEMMA PostFinalizeKeeps ==
    ASSUME Inv, NEW q \in Requests, NEW w \in Walks, PostFinalize(q, w)
    PROVE  Inv'
  <1> DEFINE p    == harness.current
             k    == walks[w]
             sent == SecondEnvelope(p, k.sid)
             env  == SecondSigned(p, k.sid)
  <1> PICK new : new = [Local("finalize", "sending", k.lab, w, k.attacks) EXCEPT
                          !.pair = p, !.sid = k.sid, !.first = k.first, !.sent = sent]
    OBVIOUS
  <1>1. /\ k # None /\ IsReply(k.reply) /\ Takes(p, k.sid, k.reply) /\ Post(q, new)
        /\ SetsWait(p, k.sid, 2) /\ harness' = harness /\ posted' = posted /\ walks' = walks
        /\ TypeOK /\ k.reply # None /\ k.reply.ok /\ Pass(p, env)
    BY DEF PostFinalize, Known, SetsWait, Inv, IsReply
  <1>2. /\ k \in WalkState /\ k.first # None /\ k.sid \in Sessions /\ p # 0
        /\ k.first.sid = k.sid /\ k.first.round = 1
    BY <1>1 DEF TypeOK, Inv, ShapesSound, WalkSound
  <1>3. /\ p \in DOMAIN pairs /\ p \in Nat \ {0} /\ p <= Len(pairs) /\ pairs[p] \in Pairs
        /\ k.first \in Envelopes /\ k.reply \in Replies
    <2>1. p \in DOMAIN pairs
      BY <1>2, PairExists
    <2> QED
      BY <1>1, <1>2, <2>1 DEF TypeOK, WalkState
  <1>4. pairs[p].waits[k.sid] # 0 /\ Seen(p, k.sid, 1)
    <2>1. /\ k.reply.sid = k.sid /\ pairs[p].waits[k.sid] = k.reply.round
          /\ k.reply.round \in 1..2
      BY <1>1, <1>3 DEF Takes, Replies
    <2>2. \E n \in DOMAIN pairs : Seen(n, k.sid, k.reply.round)
      BY <1>1, <2>1 DEF Inv, EvidenceSound, Evidence
    <2>3. k.reply.round = 1 => Seen(p, k.sid, 1)
      BY <1>2, <1>3, <2>1, <2>2, SameOwner
    <2>4. k.reply.round = 2 => Seen(p, k.sid, 1)
      BY <1>2, <1>3, <2>1 DEF Inv, EvidenceSound
    <2> QED
      BY <2>1, <2>3, <2>4
  <1>5. k.first.pair = p
    BY <1>1, <1>2, <1>3, <1>4 DEF Inv, Owned
  <1>6. /\ sent \in Envelopes /\ sent.pair = p /\ sent.sid = k.sid
        /\ env \in Envelopes /\ env.pair = p /\ env.sid = k.sid
    <2>1. pairs[p].tampers \in SUBSET Tamperings
      BY <1>3 DEF Pairs
    <2> QED
      BY <1>2, <1>3, <2>1 DEF SecondEnvelope, SecondSigned, Envelope, Envelopes
  <1> HIDE DEF sent, env
  <1>7. sent # None
    BY <1>6, NoneAssumption
  <1>8. posts + 1 \in Sessions
    BY <1>1, BoundAssumption DEF Post, TypeOK, Sessions
  <1>9. /\ new \in Locals /\ new.at = "sending" /\ new.kind = "finalize" /\ new.pair = p
        /\ new.sid = k.sid /\ new.walk = w /\ new.reply = None /\ new.first = k.first
        /\ new.sent = sent
    BY <1>2, <1>3, <1>6, <1>8 DEF Local, Locals, Stages, WalkState
  <1>10. SamePairsBut(p, k.sid, 2)
    BY <1>1, <1>2, <1>3, WaitChanges
  <1>11. NoneOpens
    BY <1>2, <1>4, <1>10 DEF SamePairsBut, NoneOpens, Inv, EvidenceSound
  <1>12. LocalsSound(new)'
    BY <1>1, <1>2, <1>5, <1>6, <1>7, <1>9 DEF LocalsSound, Early
  <1>13. WalkHas(k, new)
    BY <1>1, <1>2, <1>5, <1>9 DEF WalkHas
  <1>14. \E e \in Envelopes : /\ Pass(new.pair, e) /\ e.pair = new.pair /\ e.sid = new.sid
                             /\ new.at = "sending"
    BY <1>1, <1>6, <1>9
  <1>15. posted' \subseteq Attacks
    BY <1>1 DEF TypeOK
  <1> QED
    BY <1>1, <1>3, <1>9, <1>11, <1>12, <1>13, <1>14, <1>15, PostKeeps

-----------------------------------------------------------------------------
(* The invariant holds.                                                     *)

LEMMA InitHolds ==
    ASSUME Init
    PROVE  Inv
  <1>1. /\ pairs \in Seq(Pairs) /\ Len(pairs) = 0 /\ DOMAIN pairs = {} /\ posts \in 0..MaxPosts
        /\ \A q \in Requests : request[q] = None /\ tap[q] = None
        /\ \A w \in Walks : walks[w] = None
        /\ harness.owner = None /\ harness.serves = {} /\ harness.current = 0
    BY BoundAssumption DEF Init
  <1>2. TypeOK
    BY <1>1 DEF Init, TypeOK
  <1>3. HarnessSound /\ ShapesSound /\ NumbersSound /\ Owned
    BY <1>1 DEF HarnessSound, At, ShapesSound, TapSound, NumbersSound, Unused, Owned
  <1>4. EvidenceSound /\ ResultFromBothRounds /\ ReplaysSound
    BY <1>1 DEF EvidenceSound, ResultFromBothRounds, ReplaysSound, ReplayIsRefused, At
  <1> QED
    BY <1>2, <1>3, <1>4 DEF Inv

LEMMA NextKeeps ==
    ASSUME Inv, [Next]_vars
    PROVE  Inv'
  <1>1. CASE UNCHANGED vars
    <2>1. /\ harness' = harness /\ posted' = posted /\ pairs' = pairs /\ walks' = walks
          /\ request' = request /\ tap' = tap /\ posts' = posts /\ TypeOK
      BY <1>1 DEF vars, Inv
    <2>2. TypeOK'
      BY <2>1 DEF TypeOK
    <2> QED
      BY <2>1, <2>2, NoRequest, HarnessKept, SamePairs, SameWalks, QuietStepKeeps
  <1>2. CASE Browser
    <2>1. ASSUME NEW w \in Walks, PostReset(w) \/ ForgetWalk(w) \/ FinalizeRaises(w)
          PROVE  Inv'
      BY <2>1, WalkStepKeeps, FinalizeRaisesKeeps
    <2>2. ASSUME NEW q \in Requests, NEW lab \in Labs,
                 \/ \E form \in RunForms : PostRun(q, lab, form)
                 \/ \E w \in Walks, attacks \in SendAttacks : PostSend(q, w, lab, attacks)
          PROVE  Inv'
      BY <2>2, PostBeginKeeps
    <2>3. ASSUME NEW q \in Requests, NEW w \in Walks, PostFinalize(q, w)
          PROVE  Inv'
      BY <2>3, PostFinalizeKeeps
    <2> QED
      BY <1>2, <2>1, <2>2, <2>3 DEF Browser
  <1>3. ASSUME NEW q \in Requests, TakeLock(q)
        PROVE  Inv'
    BY <1>3, ReuseKeeps, StopKeeps DEF TakeLock
  <1>4. ASSUME NEW q \in Requests, RequestStep(q)
        PROVE  Inv'
    <2>1. CASE BuildFails(q) \/ Start(q)
      BY <2>1, BuildFailsKeeps, StartKeeps
    <2>2. CASE SendFirst(q) \/ Deliver(q) \/ CallFails(q)
      BY <2>2, SendFirstKeeps, DeliverKeeps, CallFailsKeeps
    <2>3. CASE StoreAnswer(q) \/ RunGoesOn(q) \/ GivesUp(q)
      BY <2>3, StoreAnswerKeeps, RunGoesOnKeeps, GivesUpKeeps
    <2>4. CASE Finish(q) \/ ShowReplay(q)
      BY <2>4, FinishKeeps, CallFailsKeeps
    <2>5. CASE FinishRunAndReplay(q) \/ FinishWalkAndReplay(q)
      BY <2>5, FinishRunKeeps, FinishWalkKeeps
    <2> QED
      BY <1>4, <2>1, <2>2, <2>3, <2>4, <2>5 DEF RequestStep
  <1> QED
    BY <1>1, <1>2, <1>3, <1>4 DEF Next

LEMMA InvHolds == Spec => []Inv
  <1>1. Init => Inv
    BY InitHolds
  <1>2. Inv /\ [Next]_vars => Inv'
    BY NextKeeps
  <1> QED
    BY <1>1, <1>2, PTL DEF Spec

\* The type of the state holds: what _HARNESS, _WALKS and the requests store
\* has always the shape the code that reads it expects.
THEOREM PlaygroundTyped == Spec => []TypeOK
  <1>1. Inv => TypeOK
    BY DEF Inv
  <1> QED
    BY <1>1, InvHolds, PTL

\* One pair of agents serves at most, whatever labs overlapping requests ask
\* for and whatever start fails: _ensure_agents stops the old agents before it
\* starts others and holds the harness lock meanwhile.
THEOREM OnePairServesAlways == Spec => []OnePairServes
  <1>1. Inv => OnePairServes
    <2> SUFFICES ASSUME Inv PROVE OnePairServes
      OBVIOUS
    <2>1. harness.serves \subseteq {harness.current}
      BY DEF Inv, HarnessSound
    <2>2. IsFiniteSet({harness.current}) /\ Cardinality({harness.current}) = 1
      BY FS_Singleton
    <2>3. Cardinality(harness.serves) <= Cardinality({harness.current})
      BY <2>1, <2>2, FS_Subset
    <2> QED
      BY <2>2, <2>3 DEF OnePairServes
  <1> QED
    BY <1>1, InvHolds, PTL

\* A result is shown only for a session whose two messages the receiver of the
\* same agents took as they were signed (run_intent, finalize), whatever is
\* tampered with, however often a walk is finalized and whoever runs by then.
THEOREM ResultsAreEarned == Spec => []ResultFromBothRounds
  <1>1. Inv => ResultFromBothRounds
    BY DEF Inv
  <1> QED
    BY <1>1, InvHolds, PTL

\* A request's own first message is refused when the replay attack sends it
\* again (server.py:722, 1243), whichever agents serve by then, whoever clears a
\* dedupe cache meanwhile and whatever other requests' messages are replayed.
THEOREM ReplaysAreRefused == Spec => []ReplayIsRefused
  <1>1. Inv => ReplayIsRefused
    BY DEF Inv, ReplaysSound
  <1> QED
    BY <1>1, InvHolds, PTL
=============================================================================
