----------------------------- MODULE DoorProofs -----------------------------
(***************************************************************************)
(* Proofs about Cards and Door, for any agents, cards, offers and          *)
(* messages: two agents judge each other alike, a survey and a larger      *)
(* offer lose no partner, and which messages the LLM and the core get.     *)
(***************************************************************************)
EXTENDS Door, WellFoundedInduction, SequenceTheorems, TLAPS

-----------------------------------------------------------------------------
(* Scores.                                                                 *)

Fits(p, q, operation) ==
    /\ RolesFit(p, q)
    /\ CommonOperations(p, q) # {}
    /\ PairFound(p, q, operation)

\* The threshold is reached when all three conditions hold, and only then.
LEMMA CompatibleIffFits ==
    ASSUME NEW p, NEW q, NEW operation
    PROVE  IsCompatible(Score(p, q, operation)) <=> Fits(p, q, operation)
  <1>1. CASE ~RolesFit(p, q)
    BY <1>1 DEF IsCompatible, Score, Fits, MinCompatScore
  <1>2. CASE RolesFit(p, q) /\ CommonOperations(p, q) = {}
    BY <1>2 DEF IsCompatible, Score, Fits, MinCompatScore
  <1>3. CASE RolesFit(p, q) /\ CommonOperations(p, q) # {} /\ ~PairFound(p, q, operation)
    BY <1>3 DEF IsCompatible, Score, Fits, MinCompatScore
  <1>4. CASE Fits(p, q, operation)
    BY <1>4 DEF IsCompatible, Score, Fits, MinCompatScore
  <1> QED
    BY <1>1, <1>2, <1>3, <1>4 DEF Fits

\* No condition depends on who asks.
LEMMA FitsSymmetric ==
    ASSUME NEW p, NEW q, NEW operation, Fits(p, q, operation)
    PROVE  Fits(q, p, operation)
  <1>1. RolesFit(q, p)
    BY DEF Fits, RolesFit
  <1>2. CommonOperations(q, p) # {}
    BY DEF Fits, CommonOperations
  <1>3. PICK c \in p.commitments, d \in q.commitments : PairCompatible(c, d, operation)
    BY DEF Fits, PairFound
  <1>4. PairCompatible(d, c, operation)
    BY <1>3 DEF PairCompatible
  <1> QED
    BY <1>1, <1>2, <1>3, <1>4 DEF Fits, PairFound

\* Nor is one lost when the second agent offers more.
LEMMA FitsMonotone ==
    ASSUME NEW p, NEW q, NEW r, NEW operation, Fits(p, q, operation), Extends(r, q)
    PROVE  Fits(p, r, operation)
  <1>1. RolesFit(p, r)
    BY DEF Fits, RolesFit, Extends
  <1>2. CommonOperations(p, r) # {}
    BY DEF Fits, CommonOperations, Extends
  <1>3. PairFound(p, r, operation)
    BY DEF Fits, PairFound, Extends
  <1> QED
    BY <1>1, <1>2, <1>3 DEF Fits

\* A pair that fits an operation fits when none is named.
LEMMA FitsAnyOperation ==
    ASSUME NEW p, NEW q, Fits(p, q, "PSI")
    PROVE  Fits(p, q, None)
  <1>1. PairFound(p, q, None)
    BY DEF Fits, PairFound, PairCompatible
  <1> QED
    BY <1>1 DEF Fits

-----------------------------------------------------------------------------
(* Cards.                                                                  *)

\* Agents whose cores are up to date judge each other alike, whatever they
\* publish.
THEOREM AgentsJudgeAlike == Spec => []CompatibilityIsMutual
  <1>1. CompatibilityIsMutual
    <2> SUFFICES ASSUME NEW a \in Agents, NEW b \in Agents, UpToDate(a), UpToDate(b)
                 PROVE  Accepts(a, PeerInfo(card[b])) <=> Accepts(b, PeerInfo(card[a]))
      BY DEF CompatibilityIsMutual
    <2> DEFINE p == core[a].params
               q == core[b].params
    <2>1. /\ Accepts(a, PeerInfo(card[b])) <=> Fits(p, q, "PSI")
          /\ Accepts(b, PeerInfo(card[a])) <=> Fits(q, p, "PSI")
      BY CompatibleIffFits DEF Accepts, UpToDate
    <2> QED
      BY <2>1, FitsSymmetric
  <1> QED
    BY <1>1, PTL

\* On a card without legacy block, both readers read the same block.
LEMMA ReadersAgree ==
    ASSUME NEW blocks, PeerInfo(blocks) # None,
           \A n \in DOMAIN blocks : blocks[n].uri # "ap3_legacy"
    PROVE  DiscoveredInfo(blocks) = PeerInfo(blocks)
  <1> DEFINE current == { n \in DOMAIN blocks : blocks[n].uri \in {"ap3"} }
             either  == { n \in DOMAIN blocks : blocks[n].uri \in {"ap3", "ap3_legacy"} }
             first(hits) == IF hits = {} THEN None
                            ELSE blocks[CHOOSE n \in hits : \A m \in hits : n <= m]
  <1>1. current = either
    OBVIOUS
  <1>2. /\ FirstBlock(blocks, {"ap3"}) = first(current)
        /\ FirstBlock(blocks, {"ap3", "ap3_legacy"}) = first(either)
    BY DEF FirstBlock
  <1> HIDE DEF current, either
  <1>3. FirstBlock(blocks, {"ap3"}) = FirstBlock(blocks, {"ap3", "ap3_legacy"})
    BY <1>1, <1>2
  <1> QED
    BY <1>3 DEF PeerInfo, DiscoveredInfo

\* A survey calls compatible what a run would accept, on cards without legacy
\* blocks.
THEOREM SurveyIsComplete == Spec => []SurveyMissesNobody
  <1>1. SurveyMissesNobody
    <2> SUFFICES ASSUME NEW a \in Agents, NEW b \in Agents,
                        UpToDate(a), PeerInfo(card[b]) # None,
                        \A n \in DOMAIN card[a] : card[a][n].uri # "ap3_legacy",
                        \A n \in DOMAIN card[b] : card[b][n].uri # "ap3_legacy",
                        Accepts(a, PeerInfo(card[b]))
                 PROVE  Discover(a, b, None)
      BY DEF SurveyMissesNobody
    <2> DEFINE p == PeerInfo(card[a])
               q == PeerInfo(card[b])
    <2>1. DiscoveredInfo(card[a]) = p /\ DiscoveredInfo(card[b]) = q
      BY ReadersAgree DEF UpToDate
    <2>2. p # None /\ q # None
      BY DEF UpToDate
    <2>3. Fits(p.params, q.params, "PSI")
      BY CompatibleIffFits DEF Accepts, UpToDate
    <2>4. IsCompatible(SurveyScore(p, q))
      BY <2>3, FitsAnyOperation, CompatibleIffFits DEF SurveyScore
    <2> QED
      BY <2>1, <2>2, <2>4 DEF Discover
  <1> QED
    BY <1>1, PTL

\* A larger offer keeps every partner.
THEOREM LargerOffersKeepPartners == Spec => OfferingMoreLosesNobody
  <1> DEFINE Kept ==
        \A a, b \in Agents :
          /\ PeerInfo(card[a]) # None /\ PeerInfo(card'[a]) # None
          /\ Extends(PeerInfo(card'[a]).params, PeerInfo(card[a]).params)
          /\ core[b] # None /\ core'[b] = core[b]
          /\ Accepts(b, PeerInfo(card[a]))
          => Accepts(b, PeerInfo(card'[a]))
  <1>1. Kept
    <2> SUFFICES ASSUME NEW a \in Agents, NEW b \in Agents,
                        Extends(PeerInfo(card'[a]).params, PeerInfo(card[a]).params),
                        Accepts(b, PeerInfo(card[a]))
                 PROVE  Accepts(b, PeerInfo(card'[a]))
      OBVIOUS
    <2>1. Fits(core[b].params, PeerInfo(card[a]).params, "PSI")
      BY CompatibleIffFits DEF Accepts
    <2>2. Fits(core[b].params, PeerInfo(card'[a]).params, "PSI")
      BY <2>1, FitsMonotone
    <2> QED
      BY <2>2, CompatibleIffFits DEF Accepts
  <1> HIDE DEF Kept
  <1>2. [][Kept]_cardVars
    BY <1>1, PTL
  <1> QED
    BY <1>2, PTL DEF OfferingMoreLosesNobody, Kept

-----------------------------------------------------------------------------
(* Tasks.                                                                  *)

TaskRecord(t) ==
    t = [to |-> t.to, message |-> t.message, state |-> t.state,
         reader |-> t.reader, answer |-> t.answer]

\* A task was given to an agent that runs; who reads it depends on its parts.
TaskSound ==
    task # None =>
      /\ TaskRecord(task)
      /\ task.to \in Agents /\ core[task.to] # None
      /\ task.reader = "llm" => Found(task.message.parts) = <<>>
      /\ task.answer \notin {None, "SILENCE", "RAISED"}
         => /\ Found(task.message.parts) = <<"envelope">>
            /\ core[task.to].role = "ap3_receiver"

\* Agents stay what they were built to be.
CoresKept == core = [a \in Agents |-> core[a]]

Inv == TaskSound /\ CoresKept

\* What comes out of the parts tells which envelopes are among them.
LEMMA EnvelopeKinds ==
    ASSUME NEW parts
    PROVE  /\ EnvelopeFromParts(parts) = "none" => Found(parts) = <<>>
           /\ EnvelopeFromParts(parts) = "envelope" => Found(parts) = <<"envelope">>
           /\ EnvelopeFromParts(parts) = "raised" => NoObject(parts)
  <1>1. CASE NoObject(parts)
    BY <1>1 DEF EnvelopeFromParts
  <1>2. CASE ~NoObject(parts) /\ Found(parts) = <<>>
    BY <1>2 DEF EnvelopeFromParts
  <1>3. CASE ~NoObject(parts) /\ Found(parts) = <<"envelope">>
    BY <1>3 DEF EnvelopeFromParts
  <1>4. CASE ~NoObject(parts) /\ Found(parts) # <<>> /\ Found(parts) # <<"envelope">>
    BY <1>4 DEF EnvelopeFromParts
  <1> QED
    BY <1>1, <1>2, <1>3, <1>4

\* A new task has no reader and no answer.
LEMMA ExecutePreserves ==
    ASSUME Inv, NEW b \in Agents, NEW message, Execute(b, message)
    PROVE  Inv'
  <1> DEFINE new == [to |-> b, message |-> message, state |-> "working",
                     reader |-> "nobody", answer |-> None]
  <1>1. task' = new /\ UNCHANGED cardVars /\ core[b] # None
    BY DEF Execute
  <1>2. /\ new.to = b /\ new.message = message /\ new.state = "working"
        /\ new.reader = "nobody" /\ new.answer = None
    OBVIOUS
  <1> HIDE DEF new
  <1>3. TaskRecord(new)
    BY <1>2 DEF TaskRecord, new
  <1> QED
    BY <1>1, <1>2, <1>3 DEF Inv, TaskSound, CoresKept, cardVars

\* Cards may change and agents be built: a running agent keeps its role.
LEMMA CardStepPreserves ==
    ASSUME Inv, CardStep, UNCHANGED task
    PROVE  Inv'
  <1>1. CoresKept' /\ \A a \in Agents : core[a] # None => core'[a] = core[a]
    <2>1. ASSUME NEW a \in Agents, NEW params \in Offers, AttachAp3Extension(a, params)
          PROVE  CoresKept' /\ \A o \in Agents : core[o] # None => core'[o] = core[o]
      BY <2>1 DEF Inv, CoresKept, AttachAp3Extension
    <2>2. ASSUME NEW a \in Agents, NEW role \in Roles, NEW c \in Available,
                 BuildPrivacyAgent(a, role, c)
          PROVE  CoresKept' /\ \A o \in Agents : core[o] # None => core'[o] = core[o]
      <3>1. PICK new : core[a] = None /\ core' = [core EXCEPT ![a] = new]
        BY <2>2 DEF BuildPrivacyAgent
      <3> QED
        BY <3>1 DEF Inv, CoresKept
    <2>3. ASSUME NEW a \in Agents, NEW role \in Roles, BuildMiddleware(a, role)
          PROVE  CoresKept' /\ \A o \in Agents : core[o] # None => core'[o] = core[o]
      <3>1. PICK new : core[a] = None /\ core' = [core EXCEPT ![a] = new]
        BY <2>3 DEF BuildMiddleware
      <3> QED
        BY <3>1 DEF Inv, CoresKept
    <2> QED
      BY <2>1, <2>2, <2>3 DEF CardStep
  <1> QED
    BY <1>1 DEF Inv, TaskSound

\* The core answers only one envelope, and an answer that is not silence is a
\* receiver's.
LEMMA DispatchPreserves ==
    ASSUME Inv, DispatchProtocol
    PROVE  Inv'
  <1> DEFINE answer == HandleEnvelope(task.to, task.message)
             state  == IF answer = "RAISED" THEN task.state ELSE "completed"
             new    == [to |-> task.to, message |-> task.message, state |-> state,
                        reader |-> "core", answer |-> answer]
  <1>1. /\ task # None /\ UNCHANGED cardVars
        /\ Found(task.message.parts) = <<"envelope">>
    BY EnvelopeKinds DEF DispatchProtocol, Taken
  <1>2. TaskRecord(task) /\ task.to \in Agents /\ core[task.to] # None
    BY <1>1 DEF Inv, TaskSound
  <1>3. task' = [task EXCEPT !.reader = "core", !.answer = answer, !.state = state]
    BY DEF DispatchProtocol
  <1>4. answer # "SILENCE" => core[task.to].role = "ap3_receiver"
    BY DEF HandleEnvelope
  <1> HIDE DEF answer, state
  <1>5. task' = new
    BY <1>2, <1>3 DEF TaskRecord
  <1>6. /\ new.to = task.to /\ new.message = task.message
        /\ new.reader = "core" /\ new.answer = answer /\ TaskRecord(new)
    BY DEF TaskRecord
  <1> HIDE DEF new
  <1> QED
    BY <1>1, <1>2, <1>4, <1>5, <1>6 DEF Inv, TaskSound, CoresKept, cardVars

\* Parts that cannot be read are nobody's.
LEMMA RaisePreserves ==
    ASSUME Inv, PartsRaise
    PROVE  Inv'
  <1> DEFINE new == [to |-> task.to, message |-> task.message, state |-> task.state,
                     reader |-> task.reader, answer |-> "RAISED"]
  <1>1. /\ task # None /\ UNCHANGED cardVars
        /\ task' = [task EXCEPT !.answer = "RAISED"]
    BY DEF PartsRaise, Taken
  <1>2. TaskRecord(task) /\ task.to \in Agents /\ core[task.to] # None
    BY <1>1 DEF Inv, TaskSound
  <1>3. task' = new
    BY <1>1, <1>2 DEF TaskRecord
  <1>4. /\ new.to = task.to /\ new.message = task.message
        /\ new.reader = task.reader /\ new.answer = "RAISED" /\ TaskRecord(new)
    BY DEF TaskRecord
  <1> HIDE DEF new
  <1> QED
    BY <1>1, <1>2, <1>3, <1>4 DEF Inv, TaskSound, CoresKept, cardVars

\* The other ends of a task leave its answer alone; the LLM is asked only when
\* no part is an envelope.
LEMMA OtherEndsPreserve ==
    ASSUME Inv, RefuseParts \/ AskLLM \/ CompleteUnread
    PROVE  Inv'
  <1>1. /\ task # None /\ task.answer = None /\ UNCHANGED cardVars
        /\ AskLLM => Found(task.message.parts) = <<>>
    BY EnvelopeKinds DEF RefuseParts, AskLLM, CompleteUnread, Taken
  <1>2. TaskRecord(task) /\ task.to \in Agents /\ core[task.to] # None
    BY <1>1 DEF Inv, TaskSound
  <1>3. PICK state, reader :
          /\ task' = [to |-> task.to, message |-> task.message, state |-> state,
                      reader |-> reader, answer |-> task.answer]
          /\ reader = task.reader \/ (AskLLM /\ reader = "llm")
    <2>1. CASE RefuseParts
      <3>1. task' = [task EXCEPT !.state = "failed"]
        BY <2>1 DEF RefuseParts
      <3> QED
        BY <3>1, <1>2 DEF TaskRecord
    <2>2. CASE AskLLM
      <3>1. task' = [task EXCEPT !.reader = "llm", !.state = "completed"]
        BY <2>2 DEF AskLLM
      <3> QED
        BY <2>2, <3>1, <1>2 DEF TaskRecord
    <2>3. CASE CompleteUnread
      <3>1. task' = [task EXCEPT !.state = "completed"]
        BY <2>3 DEF CompleteUnread
      <3> QED
        BY <3>1, <1>2 DEF TaskRecord
    <2> QED
      BY <2>1, <2>2, <2>3
  <1>4. /\ task'.to = task.to /\ task'.message = task.message
        /\ task'.reader = reader /\ task'.answer = task.answer /\ TaskRecord(task')
    BY <1>3 DEF TaskRecord
  <1> QED
    BY <1>1, <1>2, <1>3, <1>4 DEF Inv, TaskSound, CoresKept, cardVars

\* The invariant holds in every state.
LEMMA InvHolds == Spec => []Inv
  <1>1. Init => Inv
    BY DEF Init, CardInit, Inv, TaskSound, CoresKept
  <1>2. ASSUME Inv, [Next]_vars
        PROVE  Inv'
    <2>1. CASE UNCHANGED vars
      BY <1>2, <2>1 DEF vars, Inv, TaskSound, CoresKept
    <2>2. ASSUME NEW a \in Agents, NEW b \in Agents, NEW url, RunIntent(a, b, url)
          PROVE  Inv'
      BY <1>2, <2>2, ExecutePreserves DEF RunIntent
    <2>3. CASE Close
      BY <1>2, <2>3 DEF Close, Inv, TaskSound, CoresKept, cardVars
    <2> QED
      BY <1>2, <2>1, <2>2, <2>3, ExecutePreserves, CardStepPreserves, DispatchPreserves,
         RaisePreserves, OtherEndsPreserve DEF Next
  <1> QED
    BY <1>1, <1>2, PTL DEF Spec

\* No part with protocol bytes reaches an LLM, whatever messages come.
THEOREM LLMSeesNoProtocol == Spec => []ProtocolNeverReachesLLM
  <1>1. Inv => ProtocolNeverReachesLLM
    BY DEF Inv, TaskSound, ProtocolNeverReachesLLM
  <1> QED
    BY <1>1, InvHolds, PTL

\* Every answer is a receiver's, to a message with exactly one envelope.
THEOREM AnswersHaveOneEnvelope == Spec => []OneEnvelopePerAnswer
  <1>1. Inv => OneEnvelopePerAnswer
    BY DEF Inv, TaskSound, OneEnvelopePerAnswer
  <1> QED
    BY <1>1, InvHolds, PTL

-----------------------------------------------------------------------------
(* Induction over numbers: what fails somewhere fails somewhere first.      *)

LEMMA LeastExists ==
    ASSUME NEW S, S \subseteq Nat, S # {}
    PROVE  \E n \in S : \A m \in S : n <= m
  <1> DEFINE Less == {ss \in Nat \X Nat : ss[1] < ss[2]}
  <1>1. IsWellFoundedOn(Less, Nat)
    BY NatLessThanWellFounded DEF OpToRel
  <1> HIDE DEF Less
  <1>2. PICK n \in S : \A m \in S : <<m, n>> \notin Less
    BY <1>1, WFMin
  <1>3. ASSUME NEW m \in S PROVE n <= m
    <2>1. n \in Nat /\ m \in Nat /\ <<m, n>> \notin Less
      BY <1>2
    <2>2. ~(m < n)
      BY <2>1 DEF Less
    <2> QED
      BY <2>1, <2>2
  <1> QED
    BY <1>3

-----------------------------------------------------------------------------
(* Types.                                                                  *)

\* The loop of OtherBlocks, as a function that is defined because each of its
\* values depends on an earlier one only.
Kept(blocks, f) ==
    [n \in 0..Len(blocks) |->
        IF n = 0 THEN <<>>
        ELSE IF blocks[n].uri = "ap3" THEN f[n - 1]
        ELSE Append(f[n - 1], blocks[n])]

LEMMA KeptExists ==
    ASSUME NEW S, NEW blocks \in Seq(S)
    PROVE  \E f \in [0..Len(blocks) -> Seq({e \in S : e.uri # "ap3"})] : f = Kept(blocks, f)
  <1> DEFINE T == {e \in S : e.uri # "ap3"}
             Value(f, n) == IF n = 0 THEN <<>>
                            ELSE IF blocks[n].uri = "ap3" THEN f[n - 1]
                            ELSE Append(f[n - 1], blocks[n])
             Upto(m) == \E f \in [0..m -> Seq(T)] : \A n \in 0..m : f[n] = Value(f, n)
             Bad == { m \in 0..Len(blocks) : ~Upto(m) }
  <1>1. Len(blocks) \in Nat /\ \A n \in 1..Len(blocks) : blocks[n] \in S
    OBVIOUS
  <1>2. Bad = {}
    <2> SUFFICES ASSUME Bad # {} PROVE FALSE
      OBVIOUS
    <2>1. Bad \subseteq Nat
      BY <1>1
    <2>2. PICK k \in Bad : \A m \in Bad : k <= m
      BY <2>1, LeastExists
    <2>3. k # 0
      <3>1. Upto(0)
        <4> DEFINE e == [n \in 0..0 |-> <<>>]
        <4>1. e \in [0..0 -> Seq(T)]
          OBVIOUS
        <4>2. ASSUME NEW n \in 0..0 PROVE e[n] = Value(e, n)
          <5>1. n = 0 /\ e[n] = <<>>
            OBVIOUS
          <5> QED
            BY <5>1
        <4> QED
          BY <4>1, <4>2
      <3> QED
        BY <3>1, <2>2
    <2>4. k \in 1..Len(blocks) /\ k - 1 \in 0..Len(blocks) /\ k - 1 \notin Bad
      <3>1. Bad \subseteq 0..Len(blocks)
        OBVIOUS
      <3> HIDE DEF Bad
      <3> QED
        BY <1>1, <2>2, <2>3, <3>1
    <2>5. Upto(k - 1)
      <3> HIDE DEF Upto
      <3> QED
        BY <2>4
    <2>6. PICK f \in [0..(k - 1) -> Seq(T)] : \A n \in 0..(k - 1) : f[n] = Value(f, n)
      BY <2>5
    <2> DEFINE g == [n \in 0..k |-> IF n = k THEN Value(f, k) ELSE f[n]]
    <2>7. Value(f, k) \in Seq(T)
      <3>1. f[k - 1] \in Seq(T)
        BY <2>4, <2>6
      <3>2. blocks[k].uri # "ap3" => blocks[k] \in T
        BY <1>1, <2>4
      <3> HIDE DEF T
      <3> QED
        BY <2>4, <3>1, <3>2
    <2>8. g \in [0..k -> Seq(T)]
      BY <2>4, <2>6, <2>7
    <2>9. ASSUME NEW n \in 0..k PROVE g[n] = Value(g, n)
      <3>1. CASE n = k
        BY <2>4, <3>1
      <3>2. CASE n # k
        <4>1. k \in Nat /\ n \in 0..(k - 1)
          BY <2>4, <3>2
        <4>2. n # 0 => n - 1 \in 0..k /\ n - 1 # k
          BY <4>1
        <4>3. g[n] = f[n] /\ (n # 0 => g[n - 1] = f[n - 1])
          BY <3>2, <4>2
        <4>4. f[n] = Value(f, n)
          BY <2>6, <4>1
        <4> QED
          BY <4>3, <4>4
      <3> QED
        BY <3>1, <3>2
    <2>10. Upto(k)
      BY <2>8, <2>9
    <2> QED
      BY <2>2, <2>10
  <1>3. Upto(Len(blocks))
    <2>1. Len(blocks) \in 0..Len(blocks)
      BY <1>1
    <2>2. Len(blocks) \notin Bad
      BY <1>2
    <2> QED
      BY <2>1, <2>2
  <1> QED
    BY <1>1, <1>3 DEF Kept

\* Removing the AP3 blocks leaves a card without one.
LEMMA OtherBlocksTyped ==
    ASSUME NEW S, NEW blocks \in Seq(S)
    PROVE  OtherBlocks(blocks) \in Seq({e \in S : e.uri # "ap3"})
  <1> DEFINE T == {e \in S : e.uri # "ap3"}
             kept == CHOOSE f : f = Kept(blocks, f)
             Bad  == { m \in 0..Len(blocks) : kept[m] \notin Seq(T) }
  <1>1. Len(blocks) \in Nat /\ \A n \in 1..Len(blocks) : blocks[n] \in S
    OBVIOUS
  <1>2. kept = Kept(blocks, kept)
    BY KeptExists
  <1>3. OtherBlocks(blocks) = kept[Len(blocks)]
    BY DEF OtherBlocks, Kept
  <1> HIDE DEF kept
  <1>4. ASSUME NEW n \in 0..Len(blocks)
        PROVE  kept[n] = IF n = 0 THEN <<>>
                         ELSE IF blocks[n].uri = "ap3" THEN kept[n - 1]
                         ELSE Append(kept[n - 1], blocks[n])
    BY <1>2 DEF Kept
  <1>5. Bad = {}
    <2> SUFFICES ASSUME Bad # {} PROVE FALSE
      OBVIOUS
    <2>1. Bad \subseteq Nat
      BY <1>1
    <2>2. PICK k \in Bad : \A m \in Bad : k <= m
      BY <2>1, LeastExists
    <2>3. k # 0
      <3>1. k = 0 => kept[k] = <<>>
        BY <1>4, <2>2
      <3>2. <<>> \in Seq(T) /\ kept[k] \notin Seq(T)
        BY <2>2
      <3> QED
        BY <3>1, <3>2
    <2>4. k \in 1..Len(blocks) /\ k - 1 \in 0..Len(blocks) /\ k - 1 \notin Bad
      <3>1. Bad \subseteq 0..Len(blocks)
        OBVIOUS
      <3> HIDE DEF Bad
      <3> QED
        BY <1>1, <2>2, <2>3, <3>1
    <2>5. kept[k - 1] \in Seq(T)
      BY <2>4
    <2>6. blocks[k].uri # "ap3" => blocks[k] \in T
      BY <1>1, <2>4
    <2>7. kept[k] = IF blocks[k].uri = "ap3" THEN kept[k - 1]
                    ELSE Append(kept[k - 1], blocks[k])
      BY <1>4, <2>2, <2>3
    <2> HIDE DEF T
    <2>8. kept[k] \in Seq(T)
      BY <2>5, <2>6, <2>7
    <2> QED
      BY <2>2, <2>8
  <1>6. Len(blocks) \in 0..Len(blocks) /\ Len(blocks) \notin Bad
    BY <1>1, <1>5
  <1> QED
    BY <1>3, <1>6

\* The first block of some kind is a block of the card, and of that kind.
LEMMA FirstBlockFound ==
    ASSUME NEW blocks \in Seq(Block), NEW uris, FirstBlock(blocks, uris) # None
    PROVE  \E n \in DOMAIN blocks :
              blocks[n].uri \in uris /\ FirstBlock(blocks, uris) = blocks[n]
  <1> DEFINE hits == { n \in DOMAIN blocks : blocks[n].uri \in uris }
             first == CHOOSE n \in hits : \A m \in hits : n <= m
  <1>1. hits # {} /\ FirstBlock(blocks, uris) = blocks[first]
    BY DEF FirstBlock
  <1>2. \E n \in hits : \A m \in hits : n <= m
    <2>1. hits \subseteq Nat
      OBVIOUS
    <2> HIDE DEF hits
    <2> QED
      BY <1>1, <2>1, LeastExists
  <1> HIDE DEF hits
  <1>3. first \in hits
    BY <1>2
  <1> QED
    BY <1>1, <1>3 DEF hits

\* The only AP3 block of a card names the agent that serves it.
KeysOwn ==
    \A a \in Agents : \A n \in DOMAIN card[a] : card[a][n].uri = "ap3" => card[a][n].key = a

CardInv == CardTypeOK /\ KeysOwn

\* What a run reads from a card is the block of the agent that serves it.
LEMMA PeerInfoTyped ==
    ASSUME CardInv, NEW a \in Agents, PeerInfo(card[a]) # None
    PROVE  PeerInfo(card[a]) \in Block /\ PeerInfo(card[a]).key = a
  <1>1. card[a] \in Seq(Block)
    BY DEF CardInv, CardTypeOK
  <1>2. PeerInfo(card[a]) = FirstBlock(card[a], {"ap3"})
    BY DEF PeerInfo
  <1>3. PICK n \in DOMAIN card[a] :
           card[a][n].uri = "ap3" /\ PeerInfo(card[a]) = card[a][n]
    BY <1>1, <1>2, FirstBlockFound
  <1>4. card[a][n] \in Block
    BY <1>1
  <1> QED
    BY <1>3, <1>4 DEF CardInv, KeysOwn

\* An offer goes at the end of a card, in place of the block that was there.
LEMMA AttachPreserves ==
    ASSUME CardInv, NEW a \in Agents, NEW params \in Offers, AttachAp3Extension(a, params)
    PROVE  CardInv'
  <1> DEFINE rest  == OtherBlocks(card[a])
             block == Ap3Block(a, params)
             new   == Append(rest, block)
  <1>1. /\ card \in [Agents -> Seq(Block)]
        /\ card' = [card EXCEPT ![a] = new] /\ core' = core
    BY DEF CardInv, CardTypeOK, AttachAp3Extension
  <1>2. block \in Block /\ block.key = a
    BY CardAssumption DEF Ap3Block, Block
  <1>3. rest \in Seq({e \in Block : e.uri # "ap3"})
    BY <1>1, OtherBlocksTyped
  <1>4. rest \in Seq(Block) /\ \A n \in DOMAIN rest : rest[n].uri # "ap3"
    BY <1>3
  <1> HIDE DEF rest, block
  <1>5. new \in Seq(Block)
    BY <1>2, <1>4
  <1>6. \A n \in DOMAIN new : new[n].uri = "ap3" => new[n].key = a
    <2> SUFFICES ASSUME NEW n \in DOMAIN new PROVE new[n].uri = "ap3" => new[n].key = a
      OBVIOUS
    <2>1. /\ n \in 1..(Len(rest) + 1) /\ Len(rest) \in Nat
          /\ new[n] = IF n = Len(rest) + 1 THEN block ELSE rest[n]
      BY <1>4
    <2>2. CASE n = Len(rest) + 1
      BY <1>2, <2>1, <2>2
    <2>3. CASE n \in DOMAIN rest
      BY <1>4, <2>1, <2>3
    <2> QED
      BY <1>4, <2>1, <2>2, <2>3
  <1> HIDE DEF new
  <1>7. card' \in [Agents -> Seq(Block)] /\ card'[a] = new
        /\ \A b \in Agents \ {a} : card'[b] = card[b]
    BY <1>1, <1>5
  <1> QED
    BY <1>1, <1>6, <1>7 DEF CardInv, CardTypeOK, KeysOwn

\* A PrivacyAgent publishes one commitment, signed with its own key or another.
LEMMA BuildAgentPreserves ==
    ASSUME CardInv, NEW a \in Agents, NEW role \in Roles, NEW c \in Available,
           BuildPrivacyAgent(a, role, c)
    PROVE  CardInv'
  <1> DEFINE params == [roles |-> {role}, operations |-> {"PSI"},
                        commitments |-> {Signed(c, a)}]
             block  == Ap3Block(a, params)
             new    == [role |-> role, params |-> params, ownsCard |-> TRUE]
  <1>1. /\ card \in [Agents -> Seq(Block)] /\ core \in [Agents -> Core \cup {None}]
        /\ card' = [card EXCEPT ![a] = <<block>>]
        /\ core' = [core EXCEPT ![a] = new]
    BY DEF CardInv, CardTypeOK, BuildPrivacyAgent
  <1>2. c \in Commitment
    <2>1. ASSUME NEW schema \in Schemas PROVE CreateCommitment(schema) \in Commitment
      <3>1. FreshnessOf(schema.frequency) \in Freshness
        BY DEF FreshnessOf, Freshness
      <3> QED
        BY <3>1, CardAssumption DEF CreateCommitment, Commitment, Signers
    <2> QED
      BY <2>1, CardAssumption DEF Available
  <1>3. Signed(c, a) \in Commitment
    BY <1>2 DEF Signed, Commitment, Signers
  <1>4. params \in Params
    BY <1>3 DEF Params
  <1> HIDE DEF params
  <1>5. block \in Block /\ block.key = a /\ new \in Core
    BY <1>4 DEF Ap3Block, Block, Core
  <1> HIDE DEF block, new
  <1>6. /\ card' \in [Agents -> Seq(Block)] /\ card'[a] = <<block>>
        /\ \A b \in Agents \ {a} : card'[b] = card[b]
        /\ core' \in [Agents -> Core \cup {None}]
    BY <1>1, <1>5
  <1>7. \A n \in DOMAIN <<block>> : <<block>>[n].key = a
    BY <1>5
  <1>8. KeysOwn'
    BY <1>6, <1>7 DEF CardInv, KeysOwn
  <1> QED
    BY <1>6, <1>8 DEF CardInv, CardTypeOK

\* Middleware takes its parameters from the card.
LEMMA MiddlewarePreserves ==
    ASSUME CardInv, NEW a \in Agents, NEW role \in Roles, BuildMiddleware(a, role)
    PROVE  CardInv'
  <1> DEFINE new == [role |-> role, params |-> PeerInfo(card[a]).params, ownsCard |-> FALSE]
  <1>1. PeerInfo(card[a]) \in Block
    BY PeerInfoTyped DEF BuildMiddleware
  <1>2. new \in Core
    BY <1>1 DEF Block, Core
  <1>3. core' = [core EXCEPT ![a] = new] /\ card' = card
    BY DEF BuildMiddleware
  <1> HIDE DEF new
  <1> QED
    BY <1>2, <1>3 DEF CardInv, CardTypeOK, KeysOwn

\* Every step on the cards keeps them typed and keyed.
LEMMA CardStepKeeps ==
    ASSUME CardInv, CardStep
    PROVE  CardInv'
  BY AttachPreserves, BuildAgentPreserves, MiddlewarePreserves DEF CardStep

LEMMA CardInitKeeps ==
    ASSUME CardInit
    PROVE  CardInv
  BY CardAssumption DEF CardInit, CardInv, CardTypeOK, KeysOwn

-----------------------------------------------------------------------------
(* The checks of an envelope, one condition at a time.                      *)

Clean(checks)      == \A n \in DOMAIN checks : ~checks[n][1]
Fails(checks, x)   == \E n \in DOMAIN checks : checks[n][1] /\ checks[n][2] = x

\* The answer is that of some check that fails, or REPLY when none does.
LEMMA FirstFailureTold ==
    ASSUME NEW X, NEW checks \in Seq(X)
    PROVE  \/ Clean(checks) /\ FirstFailure(checks) = "REPLY"
           \/ Fails(checks, FirstFailure(checks))
  <1> DEFINE failed == { n \in DOMAIN checks : checks[n][1] }
             first  == CHOOSE n \in failed : \A m \in failed : n <= m
  <1>1. CASE failed = {}
    BY <1>1 DEF FirstFailure, Clean
  <1>2. CASE failed # {}
    <2>1. failed \subseteq Nat
      OBVIOUS
    <2>2. FirstFailure(checks) = checks[first][2]
      BY <1>2 DEF FirstFailure
    <2>3. first \in failed
      <3> HIDE DEF failed
      <3> QED
        BY <1>2, <2>1, LeastExists
    <2> QED
      BY <2>2, <2>3 DEF Fails
  <1> QED
    BY <1>1, <1>2

\* Checks in a row fail where one of them fails.
LEMMA ChecksInARow ==
    ASSUME NEW X, NEW s \in Seq(X), NEW t \in Seq(X), NEW x
    PROVE  /\ Clean(s \o t) => Clean(s) /\ Clean(t)
           /\ Fails(s \o t, x) => Fails(s, x) \/ Fails(t, x)
  <1>1. /\ Len(s) \in Nat /\ Len(t) \in Nat
        /\ DOMAIN s = 1..Len(s) /\ DOMAIN t = 1..Len(t)
        /\ DOMAIN (s \o t) = 1..(Len(s) + Len(t))
        /\ \A n \in 1..(Len(s) + Len(t)) :
             (s \o t)[n] = IF n <= Len(s) THEN s[n] ELSE t[n - Len(s)]
    OBVIOUS
  <1>2. ASSUME Clean(s \o t) PROVE Clean(s) /\ Clean(t)
    <2>1. ASSUME NEW n \in DOMAIN s PROVE ~s[n][1]
      <3>1. n \in 1..(Len(s) + Len(t)) /\ n <= Len(s)
        BY <1>1
      <3>2. (s \o t)[n] = s[n]
        BY <1>1, <3>1
      <3> QED
        BY <1>1, <1>2, <3>1, <3>2 DEF Clean
    <2>2. ASSUME NEW n \in DOMAIN t PROVE ~t[n][1]
      <3>1. /\ n + Len(s) \in 1..(Len(s) + Len(t)) /\ ~(n + Len(s) <= Len(s))
            /\ (n + Len(s)) - Len(s) = n
        BY <1>1
      <3>2. (s \o t)[n + Len(s)] = t[n]
        BY <1>1, <3>1
      <3> QED
        BY <1>1, <1>2, <3>1, <3>2 DEF Clean
    <2> QED
      BY <2>1, <2>2 DEF Clean
  <1>3. ASSUME Fails(s \o t, x) PROVE Fails(s, x) \/ Fails(t, x)
    <2>1. PICK n \in 1..(Len(s) + Len(t)) : (s \o t)[n][1] /\ (s \o t)[n][2] = x
      BY <1>1, <1>3 DEF Fails
    <2>2. CASE n <= Len(s)
      BY <1>1, <2>1, <2>2 DEF Fails
    <2>3. CASE ~(n <= Len(s))
      <3>1. n - Len(s) \in DOMAIN t
        BY <1>1, <2>3
      <3> QED
        BY <1>1, <2>1, <2>3, <3>1 DEF Fails
    <2> QED
      BY <2>2, <2>3
  <1> QED
    BY <1>2, <1>3

\* Which of the checks on an intent can be behind an answer.
Refusal(b, i, x) ==
    \/ x = "INVALID_INTENT" /\ (i.shape = "invalid" \/ "empty" \in {i.initiator.form, i.receiver.form})
    \/ x = "RAISED" /\ (Normalize(i.receiver) = None \/ Peer(i) = None \/ DirectiveRaises(i)
                         \/ InitiatorUrlRaises(i.initiator) \/ b \in Unconfigured)
    \/ x = "WRONG_RECEIVER" /\ Normalize(i.receiver) # SelfUrl(b)
    \/ x = "INVALID_INITIATOR_URL" /\ UnsafeInitiatorUrl(i.initiator)
    \/ x = "BAD_SIGNATURE" /\ Peer(i) # None /\ i.signer # Peer(i).key
    \/ x = "INTENT_SESSION_MISMATCH" /\ i.session = "other"
    \/ x = "INTENT_REJECTED" /\ ~DirectiveValid(i)
    \/ x = "INTENT_PAYLOAD_MISMATCH" /\ i.payloadHash # "payload"
    \/ x = "INCOMPATIBLE_PEER" /\ Peer(i) # None /\ ~Accepts(b, Peer(i))

Passes(b, i) ==
    /\ i.shape # "invalid" /\ Normalize(i.receiver) = SelfUrl(b)
    /\ Peer(i) # None /\ i.signer = Peer(i).key
    /\ i.session # "other" /\ ~DirectiveRaises(i) /\ DirectiveValid(i)
    /\ i.payloadHash = "payload"

\* A list of checks and the set of them.
LEMMA EightListed ==
    ASSUME NEW c1, NEW c2, NEW c3, NEW c4, NEW c5, NEW c6, NEW c7, NEW c8, NEW x
    PROVE  LET checks == <<c1, c2, c3, c4, c5, c6, c7, c8>>
               set    == {c1, c2, c3, c4, c5, c6, c7, c8}
           IN  /\ checks \in Seq(set)
               /\ Fails(checks, x) => \E c \in set : c[1] /\ c[2] = x
               /\ Clean(checks) => \A c \in set : ~c[1]
  BY DEF Fails, Clean

LEMMA FourListed ==
    ASSUME NEW c1, NEW c2, NEW c3, NEW c4, NEW x
    PROVE  LET checks == <<c1, c2, c3, c4>>
               set    == {c1, c2, c3, c4}
           IN  /\ checks \in Seq(set)
               /\ Fails(checks, x) => \E c \in set : c[1] /\ c[2] = x
               /\ Clean(checks) => \A c \in set : ~c[1]
  BY DEF Fails, Clean

LEMMA AddressChecksTold ==
    ASSUME NEW b, NEW i, NEW x
    PROVE  /\ Fails(AddressChecks(b, i), x) => Refusal(b, i, x)
           /\ Clean(AddressChecks(b, i))
              => /\ i.shape # "invalid" /\ Normalize(i.receiver) = SelfUrl(b)
                 /\ Peer(i) # None /\ i.signer = Peer(i).key
  <1> DEFINE shape == i.shape = "invalid"
             empty == "empty" \in {i.initiator.form, i.receiver.form}
             raises == Normalize(i.receiver) = None
             wrong  == Normalize(i.receiver) # SelfUrl(b)
             nourl  == InitiatorUrlRaises(i.initiator)
             unsafe == UnsafeInitiatorUrl(i.initiator)
             unread == Peer(i) = None
             forged == Peer(i) # None /\ i.signer # Peer(i).key
             set == { <<shape, "INVALID_INTENT">>,
                      <<empty, "INVALID_INTENT">>, <<raises, "RAISED">>,
                      <<wrong, "WRONG_RECEIVER">>, <<nourl, "RAISED">>,
                      <<unsafe, "INVALID_INITIATOR_URL">>,
                      <<unread, "RAISED">>, <<forged, "BAD_SIGNATURE">> }
  <1>1. /\ Fails(AddressChecks(b, i), x) => \E c \in set : c[1] /\ c[2] = x
        /\ Clean(AddressChecks(b, i)) => \A c \in set : ~c[1]
    BY EightListed DEF AddressChecks
  <1>2. /\ empty => Refusal(b, i, "INVALID_INTENT")
        /\ raises \/ nourl \/ unread => Refusal(b, i, "RAISED")
        /\ wrong => Refusal(b, i, "WRONG_RECEIVER")
        /\ unsafe => Refusal(b, i, "INVALID_INITIATOR_URL")
        /\ forged => Refusal(b, i, "BAD_SIGNATURE")
        /\ shape => Refusal(b, i, "INVALID_INTENT")
    BY DEF Refusal
  <1>3. ~shape /\ ~wrong /\ ~unread /\ ~forged
        => /\ i.shape # "invalid" /\ Normalize(i.receiver) = SelfUrl(b)
           /\ Peer(i) # None /\ i.signer = Peer(i).key
    OBVIOUS
  <1> HIDE DEF shape, empty, raises, wrong, nourl, unsafe, unread, forged
  <1>4. (\E c \in set : c[1] /\ c[2] = x) => Refusal(b, i, x)
    <2>1. (\E c \in set : c[1] /\ c[2] = x)
          => \/ (shape \/ empty) /\ x = "INVALID_INTENT"
             \/ (raises \/ nourl \/ unread) /\ x = "RAISED"
             \/ wrong /\ x = "WRONG_RECEIVER"
             \/ unsafe /\ x = "INVALID_INITIATOR_URL"
             \/ forged /\ x = "BAD_SIGNATURE"
      OBVIOUS
    <2> HIDE DEF set
    <2> QED
      BY <1>2, <2>1
  <1>5. (\A c \in set : ~c[1]) => ~shape /\ ~wrong /\ ~unread /\ ~forged
    OBVIOUS
  <1> QED
    BY <1>1, <1>3, <1>4, <1>5

LEMMA ConsistencyChecksTold ==
    ASSUME NEW b, NEW i, NEW x
    PROVE  /\ Fails(ConsistencyChecks(i), x) => Refusal(b, i, x)
           /\ Clean(ConsistencyChecks(i))
              => /\ i.session # "other" /\ ~DirectiveRaises(i) /\ DirectiveValid(i)
                 /\ i.payloadHash = "payload"
  <1> DEFINE other   == i.session = "other"
             raises  == DirectiveRaises(i)
             invalid == ~DirectiveValid(i)
             unbound == i.payloadHash # "payload"
             set == { <<other, "INTENT_SESSION_MISMATCH">>,
                      <<raises, "RAISED">>, <<invalid, "INTENT_REJECTED">>,
                      <<unbound, "INTENT_PAYLOAD_MISMATCH">> }
  <1>1. /\ Fails(ConsistencyChecks(i), x) => \E c \in set : c[1] /\ c[2] = x
        /\ Clean(ConsistencyChecks(i)) => \A c \in set : ~c[1]
    BY FourListed DEF ConsistencyChecks
  <1>2. /\ other => Refusal(b, i, "INTENT_SESSION_MISMATCH")
        /\ raises => Refusal(b, i, "RAISED")
        /\ invalid => Refusal(b, i, "INTENT_REJECTED")
        /\ unbound => Refusal(b, i, "INTENT_PAYLOAD_MISMATCH")
    BY DEF Refusal
  <1>3. (~other => i.session # "other") /\ (~raises => ~DirectiveRaises(i))
    OBVIOUS
  <1>4. ~invalid => DirectiveValid(i)
    OBVIOUS
  <1>5. ~unbound => i.payloadHash = "payload"
    OBVIOUS
  <1> HIDE DEF other, raises, invalid, unbound
  <1>6. (\E c \in set : c[1] /\ c[2] = x) => Refusal(b, i, x)
    <2>1. (\E c \in set : c[1] /\ c[2] = x)
          => \/ other /\ x = "INTENT_SESSION_MISMATCH"
             \/ raises /\ x = "RAISED"
             \/ invalid /\ x = "INTENT_REJECTED"
             \/ unbound /\ x = "INTENT_PAYLOAD_MISMATCH"
      OBVIOUS
    <2> HIDE DEF set
    <2> QED
      BY <1>2, <2>1
  <1>7. (\A c \in set : ~c[1]) => ~other /\ ~raises /\ ~invalid /\ ~unbound
    OBVIOUS
  <1> QED
    BY <1>1, <1>3, <1>4, <1>5, <1>6, <1>7

LEMMA CompatibilityCheckTold ==
    ASSUME NEW b, NEW i, NEW x, Fails(CompatibilityCheck(b, i), x)
    PROVE  Refusal(b, i, x)
  <1> DEFINE misfit == Peer(i) # None /\ ~Accepts(b, Peer(i))
             checks == << <<misfit, "INCOMPATIBLE_PEER">> >>
  <1>1. CompatibilityCheck(b, i) = checks
    BY DEF CompatibilityCheck
  <1>2. misfit => Refusal(b, i, "INCOMPATIBLE_PEER")
    BY DEF Refusal
  <1> HIDE DEF misfit
  <1>3. Fails(checks, x) => Refusal(b, i, x)
    BY <1>2 DEF Fails
  <1> QED
    BY <1>1, <1>3

LEMMA ConfigCheckTold ==
    ASSUME NEW b, NEW i, NEW x, Fails(ConfigCheck(b), x)
    PROVE  Refusal(b, i, x)
  <1> DEFINE raises == b \in Unconfigured
             checks == << <<raises, "RAISED">> >>
  <1>1. ConfigCheck(b) = checks
    BY DEF ConfigCheck
  <1>2. raises => Refusal(b, i, "RAISED")
    BY DEF Refusal
  <1> HIDE DEF raises
  <1>3. Fails(checks, x) => Refusal(b, i, x)
    BY <1>2 DEF Fails
  <1> QED
    BY <1>1, <1>3

\* Every answer of a receiver has its reason.
LEMMA Judged ==
    ASSUME NEW b, NEW e, core[b].role = "ap3_receiver"
    PROVE  LET x == HandleEnvelope(b, e)
               i == e.intent
           IN  \/ e.header # "ap3" /\ x \in {"SILENCE", "UNSUPPORTED_WIRE_VERSION"}
               \/ i = None /\ x = "MISSING_INTENT"
               \/ e.header = "ap3" /\ i # None /\ Refusal(b, i, x)
               \/ e.header = "ap3" /\ i # None /\ x = "REPLY" /\ Passes(b, i)
  <1> DEFINE x     == HandleEnvelope(b, e)
             i     == e.intent
             door  == FirstFailure(DoorChecks(e))
             first == AddressChecks(b, i)
             then  == ConsistencyChecks(i)
             fit   == CompatibilityCheck(b, i)
             last  == ConfigCheck(b)
             answer == FirstFailure(first \o then \o fit \o last)
  <1>1. x = IF door # "REPLY" THEN door ELSE answer
    BY DEF HandleEnvelope
  <1>2. \/ e.header # "ap3" /\ door \in {"SILENCE", "UNSUPPORTED_WIRE_VERSION"}
        \/ i = None /\ door = "MISSING_INTENT"
        \/ e.header = "ap3" /\ i # None /\ door = "REPLY"
    <2> DEFINE foreign == e.header # "ap3"
               missing == i = None
               silence == IF e.header = "foreign_operation" THEN "SILENCE"
                          ELSE "UNSUPPORTED_WIRE_VERSION"
               checks  == << <<foreign, silence>>, <<missing, "MISSING_INTENT">> >>
    <2>1. checks \in Seq({<<foreign, silence>>, <<missing, "MISSING_INTENT">>})
      OBVIOUS
    <2>2. (Clean(checks) /\ door = "REPLY") \/ Fails(checks, door)
      BY <2>1, FirstFailureTold DEF DoorChecks
    <2>3. silence \in {"SILENCE", "UNSUPPORTED_WIRE_VERSION"}
      OBVIOUS
    <2>4. (~foreign => e.header = "ap3") /\ (foreign => e.header # "ap3")
      OBVIOUS
    <2>5. (~missing => i # None) /\ (missing => i = None)
      OBVIOUS
    <2> HIDE DEF foreign, missing, silence, door, i
    <2>6. Clean(checks) => ~foreign /\ ~missing
      BY DEF Clean
    <2>7. Fails(checks, door)
          => (foreign /\ door = silence) \/ (missing /\ door = "MISSING_INTENT")
      <3>1. Fails(checks, door)
            => \E c \in {<<foreign, silence>>, <<missing, "MISSING_INTENT">>} :
                 c[1] /\ c[2] = door
        BY DEF Fails
      <3>2. (\E c \in {<<foreign, silence>>, <<missing, "MISSING_INTENT">>} :
                 c[1] /\ c[2] = door)
            => (foreign /\ door = silence) \/ (missing /\ door = "MISSING_INTENT")
        OBVIOUS
      <3> QED
        BY <3>1, <3>2
    <2> QED
      BY <2>2, <2>3, <2>4, <2>5, <2>6, <2>7
  <1>3. Refusal(b, i, answer) \/ (answer = "REPLY" /\ Passes(b, i))
    <2>1. PICK X : first \in Seq(X) /\ then \in Seq(X) /\ fit \in Seq(X) /\ last \in Seq(X)
      <3>1. PICK X1 : first \in Seq(X1)
        <4>1. first \in Seq({first[1], first[2], first[3], first[4], first[5], first[6],
                             first[7], first[8]})
          BY DEF AddressChecks
        <4> HIDE DEF first
        <4> QED
          BY <4>1
      <3>2. PICK X2 : then \in Seq(X2)
        <4>1. then \in Seq({then[1], then[2], then[3], then[4]})
          BY DEF ConsistencyChecks
        <4> HIDE DEF then
        <4> QED
          BY <4>1
      <3>3. PICK X3 : fit \in Seq(X3)
        <4>1. fit \in Seq({fit[1]})
          BY DEF CompatibilityCheck
        <4> QED
          BY <4>1
      <3>4. PICK X4 : last \in Seq(X4)
        <4>1. last \in Seq({last[1]})
          BY DEF ConfigCheck
        <4> QED
          BY <4>1
      <3> HIDE DEF first, then, fit, last
      <3> DEFINE X == X1 \cup X2 \cup X3 \cup X4
      <3>5. first \in Seq(X)
        BY <3>1
      <3>6. then \in Seq(X)
        BY <3>2
      <3>7. fit \in Seq(X)
        BY <3>3
      <3>8. last \in Seq(X)
        BY <3>4
      <3> QED
        BY <3>5, <3>6, <3>7, <3>8
    <2> HIDE DEF first, then, fit, last
    <2> DEFINE two == first \o then  three == two \o fit
    <2>2. two \in Seq(X) /\ three \in Seq(X) /\ three \o last \in Seq(X)
      BY <2>1
    <2> HIDE DEF answer
    <2>3. \/ Clean(three \o last) /\ answer = "REPLY"
          \/ Fails(three \o last, answer)
      BY <2>2, FirstFailureTold DEF answer
    <2>4. Clean(three \o last) => Clean(first) /\ Clean(then)
      <3>1. Clean(three \o last) => Clean(three)
        BY <2>1, <2>2, ChecksInARow
      <3>2. Clean(three) => Clean(two)
        BY <2>1, <2>2, ChecksInARow
      <3>3. Clean(two) => Clean(first) /\ Clean(then)
        BY <2>1, ChecksInARow
      <3> QED
        BY <3>1, <3>2, <3>3
    <2>5. Fails(three \o last, answer)
          => Fails(first, answer) \/ Fails(then, answer) \/ Fails(fit, answer)
               \/ Fails(last, answer)
      <3>1. Fails(three \o last, answer) => Fails(three, answer) \/ Fails(last, answer)
        BY <2>1, <2>2, ChecksInARow
      <3>2. Fails(three, answer) => Fails(two, answer) \/ Fails(fit, answer)
        BY <2>1, <2>2, ChecksInARow
      <3>3. Fails(two, answer) => Fails(first, answer) \/ Fails(then, answer)
        BY <2>1, ChecksInARow
      <3> QED
        BY <3>1, <3>2, <3>3
    <2>6. Clean(first) /\ Clean(then) => Passes(b, i)
      BY AddressChecksTold, ConsistencyChecksTold DEF Passes, first, then
    <2>7. Fails(first, answer) \/ Fails(then, answer) => Refusal(b, i, answer)
      BY AddressChecksTold, ConsistencyChecksTold DEF first, then
    <2>8. Fails(fit, answer) \/ Fails(last, answer) => Refusal(b, i, answer)
      BY CompatibilityCheckTold, ConfigCheckTold DEF fit, last
    <2> QED
      BY <2>3, <2>4, <2>5, <2>6, <2>7, <2>8
  <1> HIDE DEF x, door, answer
  <1>4. e.header = "ap3" /\ i # None /\ door = "REPLY" => x = answer
    BY <1>1
  <1>5. door # "REPLY" => x = door
    BY <1>1
  <1>6. \/ e.header # "ap3" /\ x \in {"SILENCE", "UNSUPPORTED_WIRE_VERSION"}
        \/ i = None /\ x = "MISSING_INTENT"
        \/ e.header = "ap3" /\ i # None /\ Refusal(b, i, x)
        \/ e.header = "ap3" /\ i # None /\ x = "REPLY" /\ Passes(b, i)
    BY <1>2, <1>3, <1>4, <1>5
  <1> QED
    BY <1>6 DEF x

-----------------------------------------------------------------------------
(* Messages and tasks are typed; an agent's own message says what            *)
(* run_intent signs.                                                         *)

LEMMA CardUrlTyped ==
    ASSUME NEW a \in Agents
    PROVE  CardUrl(a) \in Url /\ SelfUrl(a) \in Url
  BY DEF SelfUrl, CardUrl, Normalize, At, Url, Address, Spellings, NotAUrl

LEMMA OwnMessageTyped ==
    ASSUME NEW a \in Agents, NEW b \in Agents, NEW url \in Urls(b)
    PROVE  OwnMessage(a, url) \in Message /\ SignedIntent(a, url) \in Intent
  <1>1. Normalize(url) \in Url
    <2>1. CASE b \in V6Agents
      BY <2>1, CardUrlTyped DEF Urls, SelfUrl
    <2>2. CASE b \notin V6Agents
      BY <2>2 DEF Urls, Normalize, At, Url, Address, Spellings, NotAUrl
    <2> QED
      BY <2>1, <2>2
  <1>2. SignedIntent(a, url) \in Intent
    BY <1>1, CardUrlTyped DEF SignedIntent, Intent
  <1>3. <<"envelope">> \in Seq(Parts)
    BY DEF Parts, EnvelopeParts
  <1> HIDE DEF Intent
  <1> QED
    BY <1>2, <1>3 DEF OwnMessage, Message

\* What handle_envelope can answer.
LEMMA AnswersTyped ==
    ASSUME NEW b, NEW e
    PROVE  HandleEnvelope(b, e) \in Answers
  <1>1. CASE core[b].role # "ap3_receiver"
    BY <1>1 DEF HandleEnvelope, Answers
  <1>2. CASE core[b].role = "ap3_receiver"
    <2>1. \/ HandleEnvelope(b, e) \in {"SILENCE", "UNSUPPORTED_WIRE_VERSION"}
          \/ HandleEnvelope(b, e) \in {"MISSING_INTENT", "REPLY"}
          \/ Refusal(b, e.intent, HandleEnvelope(b, e))
      BY <1>2, Judged
    <2> QED
      BY <2>1 DEF Refusal, Answers
  <1> QED
    BY <1>1, <1>2

\* Only run_intent makes messages of an agent's own.
OwnMessagesSigned ==
    task # None =>
      (task.message.own =>
         \E a \in Agents : \E url \in Urls(task.to) : task.message = OwnMessage(a, url))

TypedInv == TypeOK /\ KeysOwn /\ OwnMessagesSigned

LEMMA TypedExecute ==
    ASSUME TypedInv, NEW b \in Agents, NEW message \in Message, Execute(b, message),
           message.own => \E a \in Agents : \E url \in Urls(b) : message = OwnMessage(a, url)
    PROVE  TypedInv'
  <1> DEFINE new == [to |-> b, message |-> message, state |-> "working",
                     reader |-> "nobody", answer |-> None]
  <1>1. task' = new /\ card' = card /\ core' = core
    BY DEF Execute, cardVars
  <1>2. new \in Task /\ new.to = b /\ new.message = message
    BY DEF Task
  <1> HIDE DEF new
  <1> QED
    BY <1>1, <1>2 DEF TypedInv, TypeOK, CardTypeOK, KeysOwn, OwnMessagesSigned

\* The other steps of a task leave its message and its agent alone.
LEMMA TypedEnds ==
    ASSUME TypedInv,
           RefuseParts \/ PartsRaise \/ DispatchProtocol \/ AskLLM \/ CompleteUnread
    PROVE  TypedInv'
  <1>1. /\ task # None /\ task \in Task /\ card' = card /\ core' = core
        /\ task.state = "working"
    BY DEF TypedInv, TypeOK, RefuseParts, PartsRaise, DispatchProtocol, AskLLM, CompleteUnread, Taken,
           cardVars
  <1>2. task' \in Task /\ task'.to = task.to /\ task'.message = task.message
    <2>1. CASE RefuseParts
      <3>1. task' = [task EXCEPT !.state = "failed"]
        BY <2>1 DEF RefuseParts
      <3> QED
        BY <1>1, <3>1 DEF Task
    <2>2. CASE AskLLM
      <3>1. task' = [task EXCEPT !.reader = "llm", !.state = "completed"]
        BY <2>2 DEF AskLLM
      <3> QED
        BY <1>1, <3>1 DEF Task
    <2>3. CASE CompleteUnread
      <3>1. task' = [task EXCEPT !.state = "completed"]
        BY <2>3 DEF CompleteUnread
      <3> QED
        BY <1>1, <3>1 DEF Task
    <2>4. CASE DispatchProtocol
      <3> DEFINE answer == HandleEnvelope(task.to, task.message)
                 state  == IF answer = "RAISED" THEN task.state ELSE "completed"
      <3>1. task' = [task EXCEPT !.reader = "core", !.answer = answer, !.state = state]
        BY <2>4 DEF DispatchProtocol
      <3>2. answer \in Answers /\ state \in {"working", "completed"}
        BY <1>1, AnswersTyped
      <3> HIDE DEF answer, state
      <3> QED
        BY <1>1, <3>1, <3>2 DEF Task
    <2>5. CASE PartsRaise
      <3>1. task' = [task EXCEPT !.answer = "RAISED"]
        BY <2>5 DEF PartsRaise
      <3> QED
        BY <1>1, <3>1 DEF Task, Answers
    <2> QED
      BY <2>1, <2>2, <2>3, <2>4, <2>5
  <1> QED
    BY <1>1, <1>2 DEF TypedInv, TypeOK, CardTypeOK, KeysOwn, OwnMessagesSigned

LEMMA TypedInvHolds == Spec => []TypedInv
  <1>1. Init => TypedInv
    BY CardInitKeeps DEF Init, TypedInv, TypeOK, OwnMessagesSigned, CardInv
  <1>2. ASSUME TypedInv, [Next]_vars
        PROVE  TypedInv'
    <2>1. CASE UNCHANGED vars
      BY <1>2, <2>1 DEF vars, TypedInv, TypeOK, CardTypeOK, KeysOwn, OwnMessagesSigned
    <2>2. ASSUME CardStep, UNCHANGED task
          PROVE  TypedInv'
      BY <1>2, <2>2, CardStepKeeps DEF TypedInv, TypeOK, CardInv, OwnMessagesSigned
    <2>3. ASSUME NEW b \in Agents, NEW message \in Messages, Execute(b, message)
          PROVE  TypedInv'
      BY <1>2, <2>3, TypedExecute, MessageAssumption
    <2>4. ASSUME NEW a \in Agents, NEW b \in Agents, NEW url \in Urls(b), RunIntent(a, b, url)
          PROVE  TypedInv'
      BY <1>2, <2>4, TypedExecute, OwnMessageTyped DEF RunIntent
    <2>5. CASE Close
      BY <1>2, <2>5 DEF Close, TypedInv, TypeOK, CardTypeOK, KeysOwn, OwnMessagesSigned,
                        cardVars
    <2> QED
      BY <1>2, <2>1, <2>2, <2>3, <2>4, <2>5, TypedEnds DEF Next
  <1> QED
    BY <1>1, <1>2, PTL DEF Spec

\* Cards, cores and tasks are of their types in every state.
THEOREM DoorTyped == Spec => []TypeOK
  <1>1. TypedInv => TypeOK
    BY DEF TypedInv
  <1> QED
    BY <1>1, TypedInvHolds, PTL

-----------------------------------------------------------------------------
(* What the core answers.                                                  *)

LEMMA DispatchAnswers ==
    ASSUME TypedInv, DispatchProtocol
    PROVE  /\ task'.answer = HandleEnvelope(task.to, task.message)
           /\ task \in Task /\ task.to \in Agents
           /\ task.message.intent # None => task.message.intent \in Intent
           /\ card' = card /\ core' = core
  <1>1. task \in Task
    BY DEF TypedInv, TypeOK, DispatchProtocol, Taken
  <1> DEFINE answer == HandleEnvelope(task.to, task.message)
             state  == IF answer = "RAISED" THEN task.state ELSE "completed"
  <1>2. task' = [task EXCEPT !.reader = "core", !.answer = answer, !.state = state]
    BY DEF DispatchProtocol
  <1>3. task.message \in Message /\ task.to \in Agents
    BY <1>1 DEF Task
  <1>4. task'.answer = answer
    <2> HIDE DEF answer, state
    <2> QED
      BY <1>1, <1>2 DEF Task
  <1>5. task.message.intent \in Intent \cup {None}
    BY <1>3 DEF Message
  <1> QED
    BY <1>1, <1>3, <1>4, <1>5 DEF DispatchProtocol, cardVars

\* Nothing becomes empty by being normalised.
LEMMA NormalizeTold ==
    ASSUME NEW url \in Url, NEW a, Normalize(url) = SelfUrl(a)
    PROVE  url.form # "empty"
  <1>1. SelfUrl(a).form \in {"v6_bare", "canonical"}
    BY DEF SelfUrl, CardUrl, Normalize, At, Spellings, NotAUrl
  <1>2. url.form = "empty" => Normalize(url) = url
    BY DEF Normalize, Spellings, NotAUrl
  <1> QED
    BY <1>1, <1>2

\* Only two steps leave a task open.
LEMMA TwoRaise ==
    ASSUME TypedInv, [Next]_vars,
           task # None, task.answer = None, task' # None, task'.answer = "RAISED"
    PROVE  PartsRaise \/ DispatchProtocol
  <1>1. task \in Task /\ None # "RAISED"
    BY NoneAssumption DEF TypedInv, TypeOK, Answers
  <1>2. task' # task
    BY <1>1
  <1>3. CASE RefuseParts
    <2>1. task' = [task EXCEPT !.state = "failed"]
      BY <1>3 DEF RefuseParts
    <2> QED
      BY <1>1, <2>1 DEF Task
  <1>4. CASE AskLLM
    <2>1. task' = [task EXCEPT !.reader = "llm", !.state = "completed"]
      BY <1>4 DEF AskLLM
    <2> QED
      BY <1>1, <2>1 DEF Task
  <1>5. CASE CompleteUnread
    <2>1. task' = [task EXCEPT !.state = "completed"]
      BY <1>5 DEF CompleteUnread
    <2> QED
      BY <1>1, <2>1 DEF Task
  <1> QED
    BY <1>2, <1>3, <1>4, <1>5 DEF Next, vars, Execute, RunIntent, Close

\* A task is left open for the causes named and no other, whatever the message:
\* every check that refuses is answered.
THEOREM RaisesAreExplained == Spec => RaisesHaveCauses
  <1> DEFINE Told ==
        task # None /\ task.answer = None /\ task' # None /\ task'.answer = "RAISED"
        => MayRaise(task.to, task.message)
  <1>1. ASSUME TypedInv, [Next]_vars PROVE Told
    <2> SUFFICES ASSUME task # None, task.answer = None, task' # None,
                        task'.answer = "RAISED"
                 PROVE  MayRaise(task.to, task.message)
      OBVIOUS
    <2>1. CASE PartsRaise
      BY <2>1, EnvelopeKinds DEF PartsRaise, Taken, MayRaise
    <2>2. CASE DispatchProtocol
      <3> DEFINE b == task.to
                 i == task.message.intent
      <3>1. HandleEnvelope(b, task.message) = "RAISED"
        BY <1>1, <2>2, DispatchAnswers
      <3>2. core[b].role = "ap3_receiver"
        BY <3>1 DEF HandleEnvelope
      <3>3. i # None /\ Refusal(b, i, "RAISED")
        BY <3>1, <3>2, Judged
      <3> QED
        BY <3>3 DEF Refusal, MayRaise, DirectiveRaises
    <2> QED
      BY <1>1, <2>1, <2>2, TwoRaise
  <1> HIDE DEF Told
  <1>2. TypedInv /\ [Next]_vars => [Told]_vars
    BY <1>1
  <1> QED
    BY <1>2, TypedInvHolds, PTL DEF Spec, RaisesHaveCauses, Told

\* The playground's mirror passes what the receiver answers, and refuses
\* nothing else but what it does not look at.
THEOREM MirrorIsFaithful == Spec => MirrorAgrees
  <1> DEFINE mirrored(key) == MirroredChecks(task.message, CardUrl(task.to), key)
             Told ==
        /\ DispatchProtocol
        /\ task.message.header = "ap3"
        /\ core[task.to].role = "ap3_receiver"
        => /\ task'.answer = "REPLY" => mirrored(Peer(task.message.intent).key)
           /\ /\ task.message.intent # None
              /\ Peer(task.message.intent) # None
              /\ task.to \notin Unconfigured
              /\ mirrored(Peer(task.message.intent).key)
              => task'.answer \in {"REPLY"} \cup NotMirrored
  <1>1. ASSUME TypedInv PROVE Told
    <2> SUFFICES ASSUME DispatchProtocol, task.message.header = "ap3",
                        core[task.to].role = "ap3_receiver"
                 PROVE  Told
      OBVIOUS
    <2> DEFINE b == task.to
               i == task.message.intent
               x == HandleEnvelope(b, task.message)
    <2>1. task'.answer = x /\ (i # None => i \in Intent)
      BY <1>1, DispatchAnswers
    <2>2. \/ i = None /\ x = "MISSING_INTENT"
          \/ i # None /\ Refusal(b, i, x)
          \/ i # None /\ x = "REPLY" /\ Passes(b, i)
      BY Judged
    <2>3. ASSUME x = "REPLY"
          PROVE  mirrored(Peer(i).key)
      <3>1. i # None /\ Passes(b, i)
        BY <2>2, <2>3 DEF Refusal
      <3>2. i.shape = "valid" /\ i.session = "own"
        BY <2>1, <3>1 DEF Passes, Intent
      <3> QED
        BY <3>1, <3>2 DEF MirroredChecks, Passes, SelfUrl
    <2>4. ASSUME i # None, Peer(i) # None, b \notin Unconfigured, mirrored(Peer(i).key)
          PROVE  x \in {"REPLY"} \cup NotMirrored
      <3>1. /\ i.shape = "valid" /\ i.session = "own"
            /\ Normalize(i.receiver) = SelfUrl(b)
            /\ i.signer = Peer(i).key
            /\ ~DirectiveRaises(i) /\ DirectiveValid(i) /\ i.payloadHash = "payload"
        BY <2>4 DEF MirroredChecks, SelfUrl
      <3>2. i.receiver \in Url /\ i.initiator \in Url
        BY <2>1, <2>4 DEF Intent
      <3>3. i.receiver.form # "empty"
        BY <3>1, <3>2, NormalizeTold
      <3>4. i.initiator.form # "empty" /\ ~InitiatorUrlRaises(i.initiator)
        <4>1. i.initiator.of # None
          BY <2>4 DEF Peer
        <4> QED
          BY <3>2, <4>1 DEF Url, Address, Spellings, InitiatorUrlRaises
      <3>5. Normalize(i.receiver) # None
        <4>1. SelfUrl(b) # None
          BY <1>1, DispatchAnswers, CardUrlTyped, NoneAssumption
        <4> QED
          BY <3>1, <4>1
      <3>6. CASE Refusal(b, i, x)
        BY <2>4, <3>1, <3>3, <3>4, <3>5, <3>6 DEF Refusal, NotMirrored
      <3> QED
        BY <2>2, <2>4, <3>6
    <2> QED
      BY <2>1, <2>3, <2>4
  <1> HIDE DEF Told
  <1>2. TypedInv /\ [Next]_vars => [Told]_vars
    BY <1>1
  <1> QED
    BY <1>2, TypedInvHolds, PTL DEF Spec, MirrorAgrees, Told

\* Where no agent's address is an IPv6 literal (the run ipv6 shows why), the
\* receiver an initiator meant answers, in whatever spelling it was addressed.
THEOREM OwnMessagesAnswered ==
    ASSUME V6Agents = {}
    PROVE  Spec => OwnMessageAnswered
  <1> DEFINE Told ==
        LET i == task.message.intent
        IN  /\ DispatchProtocol
            /\ task.message.own
            /\ core[task.to].role = "ap3_receiver"
            /\ task.to \notin Unconfigured
            /\ UpToDate(i.signer) /\ UpToDate(task.to)
            /\ Accepts(i.signer, PeerInfo(card[task.to]))
            => task'.answer = "REPLY"
  <1>1. ASSUME TypedInv PROVE Told
    <2> DEFINE b == task.to
               i == task.message.intent
               x == HandleEnvelope(b, task.message)
    <2> SUFFICES ASSUME DispatchProtocol, task.message.own,
                        core[b].role = "ap3_receiver", b \notin Unconfigured,
                        UpToDate(i.signer), UpToDate(b),
                        Accepts(i.signer, PeerInfo(card[b]))
                 PROVE  task'.answer = "REPLY"
      OBVIOUS
    <2>1. task'.answer = x /\ b \in Agents /\ (i # None => i \in Intent)
      BY <1>1, DispatchAnswers
    <2>2. PICK a \in Agents, url \in Urls(b) : task.message = OwnMessage(a, url)
      BY <1>1 DEF TypedInv, OwnMessagesSigned, DispatchProtocol, Taken
    <2>3. /\ i = SignedIntent(a, url) /\ task.message.header = "ap3"
          /\ i.signer = a /\ i.session = "own" /\ i.shape = "valid"
          /\ i.initiator = SelfUrl(a) /\ i.receiver = Normalize(url)
          /\ i.expiry = "ahead" /\ i.nonce = "given" /\ i.payloadHash = "payload"
      BY <2>2 DEF OwnMessage, SignedIntent
    <2>4. \A o \in Agents : SelfUrl(o) = At(o, "canonical")
      BY DEF SelfUrl, CardUrl, Normalize, At, Spellings, NotAUrl
    <2>5. i.receiver = At(b, "canonical")
      BY <2>2, <2>3 DEF Urls, Normalize, At, Spellings, NotAUrl
    <2>6. /\ Normalize(i.receiver) = SelfUrl(b) /\ Normalize(i.receiver) # None
          /\ i.receiver.form # "empty"
      <3>1. Normalize(i.receiver) = At(b, "canonical") /\ i.receiver.form = "canonical"
        BY <2>5 DEF Normalize, At, Spellings, NotAUrl
      <3>2. SelfUrl(b) # None
        BY <2>1, CardUrlTyped, NoneAssumption
      <3> QED
        BY <2>1, <2>4, <3>1, <3>2
    <2>7. i.initiator.form = "canonical" /\ i.initiator.of = a
      BY <2>2, <2>3, <2>4 DEF At
    <2>8. Peer(i) = PeerInfo(card[a]) /\ Peer(i) # None /\ Peer(i).key = a
      <3>1. a # None
        BY AbsentAssumption
      <3>2. Peer(i) = PeerInfo(card[a])
        BY <2>7, <3>1 DEF Peer
      <3>3. PeerInfo(card[a]) # None
        BY <2>3 DEF UpToDate
      <3> QED
        BY <1>1, <3>2, <3>3, PeerInfoTyped DEF TypedInv, TypeOK, CardInv
    <2>9. Accepts(b, Peer(i))
      <3>1. Fits(core[a].params, core[b].params, "PSI")
        BY <2>3, CompatibleIffFits DEF Accepts, UpToDate
      <3>2. Fits(core[b].params, core[a].params, "PSI")
        BY <3>1, FitsSymmetric
      <3> QED
        BY <2>3, <2>8, <3>2, CompatibleIffFits DEF Accepts, UpToDate
    <2>10. /\ DirectiveValid(i) /\ ~DirectiveRaises(i)
           /\ ~UnsafeInitiatorUrl(i.initiator) /\ ~InitiatorUrlRaises(i.initiator)
      BY <2>3, <2>7 DEF DirectiveValid, DirectiveRaises, UnsafeInitiatorUrl, Refused,
                        InitiatorUrlRaises
    <2>11. i # None
      <3>1. SignedIntent(a, url) \in Intent
        BY <2>1, <2>2, OwnMessageTyped
      <3> QED
        BY <2>3, <3>1, NoneAssumption
    <2>12. ~Refusal(b, i, x)
      BY <2>3, <2>6, <2>7, <2>8, <2>9, <2>10 DEF Refusal
    <2>13. x = "REPLY"
      BY <2>3, <2>11, <2>12, Judged
    <2> QED
      BY <2>1, <2>13
  <1> HIDE DEF Told
  <1>2. TypedInv /\ [Next]_vars => [Told]_vars
    BY <1>1
  <1> QED
    BY <1>2, TypedInvHolds, PTL DEF Spec, OwnMessageAnswered, Told
=============================================================================
