----------------------------- MODULE PsiProofs ------------------------------
(***************************************************************************)
(* Proofs about Psi, for any number of sessions, any sanction lists and    *)
(* any field of scalars: its types, what a result means, which answer      *)
(* belongs to which question, and that an honest answer is accepted.       *)
(***************************************************************************)
EXTENDS Psi, FiniteSetTheorems, TLAPS

-----------------------------------------------------------------------------
(* Algebra.                                                                *)

\* The laws of the field, one by one.
LEMMA Laws ==
    /\ \A a, b \in Scalars : Times(a, b) \in Scalars /\ Plus(a, b) \in Scalars
    /\ \A a, b \in Scalars : Times(a, b) = Times(b, a)
    /\ \A a, b, c \in Scalars : Times(Times(a, b), c) = Times(a, Times(b, c))
    /\ \A a, b, c \in Scalars : Times(a, Plus(b, c)) = Plus(Times(a, b), Times(a, c))
  BY FieldAssumption

\* The equation the proof rests on.
LEMMA ResponseLaw ==
    \A b, k, w, c \in Scalars :
      Times(b, Plus(w, Times(c, k))) = Plus(Times(b, w), Times(Times(b, k), c))
  <1> SUFFICES ASSUME NEW b \in Scalars, NEW k \in Scalars, NEW w \in Scalars,
                      NEW c \in Scalars
               PROVE  Times(b, Plus(w, Times(c, k)))
                        = Plus(Times(b, w), Times(Times(b, k), c))
    OBVIOUS
  <1>1. \A d \in Scalars : Times(b, Plus(w, d)) = Plus(Times(b, w), Times(b, d))
    BY Laws
  <1>2. Times(c, k) \in Scalars /\ Times(c, k) = Times(k, c)
    BY Laws
  <1>3. Times(Times(b, k), c) = Times(b, Times(k, c))
    BY Laws
  <1> QED
    BY <1>1, <1>2, <1>3

\* The sets of the model, as far as the proofs look into them.
LEMMA PowerType ==
    ASSUME NEW p \in Points, NEW s \in Scalars
    PROVE  /\ Multiply(p, s) \in Points
           /\ Multiply(p, s).hash = p.hash
           /\ Multiply(p, s).power = Times(p.power, s)
           /\ p.power \in NonZero /\ s \in NonZero => Multiply(p, s).power \in NonZero
  <1>1. Times(p.power, s) \in Scalars
    BY FieldAssumption DEF Points
  <1> QED
    BY <1>1, FieldAssumption DEF Points, Multiply, NonZero

\* The same for points: the response to the challenge c lies where the verifier
\* looks for it.
LEMMA ResponseOnPoints ==
    ASSUME NEW base \in Points, NEW k \in Scalars, NEW w \in Scalars, NEW c \in Scalars
    PROVE  Multiply(base, Plus(w, Times(c, k)))
             = Add(Multiply(base, w), Multiply(Multiply(base, k), c))
  <1>1. PICK b \in Scalars : b = base.power
    BY DEF Points
  <1>2. Times(b, Plus(w, Times(c, k))) = Plus(Times(b, w), Times(Times(b, k), c))
    BY <1>1, ResponseLaw
  <1>3. Add(Multiply(base, w), Multiply(Multiply(base, k), c))
          = [hash |-> base.hash, power |-> Plus(Times(b, w), Times(Times(b, k), c))]
    BY <1>1 DEF Add, Multiply
  <1>4. Multiply(base, Plus(w, Times(c, k)))
          = [hash |-> base.hash, power |-> Times(b, Plus(w, Times(c, k)))]
    BY <1>1 DEF Multiply
  <1> QED
    BY <1>2, <1>3, <1>4

\* The proof made for a key k and a blinded customer verifies.
LEMMA ProofVerifies ==
    ASSUME NEW base \in Points, NEW k \in NonZero, NEW w \in NonZero,
           NEW sid \in SessionIds
    PROVE  /\ Prove(k, base, sid, w) \in [t : Points, s : Scalars]
           /\ Verify(Prove(k, base, sid, w), Multiply(base, k), base, sid)
  <1>1. k \in Scalars /\ w \in Scalars /\ base.power \in Scalars
    BY DEF NonZero, Points
  <1>2. Multiply(base, k) \in Points /\ Multiply(base, w) \in Points
    BY <1>1, PowerType
  <1>3. PICK c \in Scalars : c = FiatShamir(Multiply(base, k), Multiply(base, w), base, sid)
    <2>1. Multiply(base, k).power \in Scalars /\ Multiply(base, w).power \in Scalars
      BY <1>2 DEF Points
    <2> QED
      BY <2>1, <1>1, OracleAssumption DEF FiatShamir
  <1>4. Prove(k, base, sid, w) = [t |-> Multiply(base, w), s |-> Plus(w, Times(c, k))]
    BY <1>3 DEF Prove
  <1>5. Plus(w, Times(c, k)) \in Scalars
    BY <1>1, <1>3, Laws
  <1>6. Verify([t |-> Multiply(base, w), s |-> Plus(w, Times(c, k))],
               Multiply(base, k), base, sid)
    BY <1>1, <1>3, ResponseOnPoints DEF Verify
  <1> QED
    BY <1>2, <1>4, <1>5, <1>6

\* Taking the blinding off a blinded customer that was raised to k leaves the
\* customer raised to k.
LEMMA Unblinded ==
    ASSUME NEW r \in NonZero, NEW k \in NonZero, NEW sid \in SessionIds, NEW v \in Hashes
    PROVE  Multiply(Multiply(Multiply(H1(sid, v), r), k), Invert(r)) = Multiply(H1(sid, v), k)
  <1>1. /\ r \in Scalars /\ k \in Scalars
        /\ Invert(r) \in Scalars
    BY FieldAssumption DEF NonZero
  <1>2. Times(One, r) = r /\ Times(One, k) = k
    BY <1>1, FieldAssumption
  <1>3. Times(Times(r, k), Invert(r)) = k
    <2>1. Times(r, k) = Times(k, r)
      BY <1>1, FieldAssumption
    <2>2. Times(Times(k, r), Invert(r)) = Times(k, Times(r, Invert(r)))
      BY <1>1, Laws
    <2>3. Times(r, Invert(r)) = One
      BY FieldAssumption
    <2>4. Times(k, One) = Times(One, k)
      BY <1>1, FieldAssumption
    <2> QED
      BY <2>1, <2>2, <2>3, <2>4, <1>2
  <1> QED
    BY <1>2, <1>3 DEF Multiply, H1

\* The initiator finds its customer in the answer iff it is on the list.
LEMMA MatchIsMembership ==
    ASSUME NEW r \in NonZero, NEW k \in NonZero, NEW sid \in SessionIds,
           NEW v \in Hashes, NEW hashes \in SUBSET Hashes
    PROVE  H2(sid, H1(sid, v),
              Multiply(Multiply(Multiply(H1(sid, v), r), k), Invert(r)))
             \in HatBigY(sid, hashes, k)
           <=> v \in hashes
  <1>1. H2(sid, H1(sid, v), Multiply(H1(sid, v), k)) \in HatBigY(sid, hashes, k)
        <=> v \in hashes
    <2>1. ASSUME NEW u \in hashes,
                 H2(sid, H1(sid, v), Multiply(H1(sid, v), k))
                   = H2(sid, H1(sid, u), Multiply(H1(sid, u), k))
          PROVE  u = v
      <3>1. H1(sid, v) = H1(sid, u)
        BY <2>1 DEF H2
      <3>2. H1(sid, v).hash = H1(sid, u).hash
        BY <3>1
      <3> QED
        BY <3>2 DEF H1
    <2> QED
      BY <2>1 DEF HatBigY
  <1> QED
    BY <1>1, Unblinded

-----------------------------------------------------------------------------
(* The inductive invariant.                                                *)

QuestionsSent == { m \in sent : m.phase = "msg1" }
AnswersSent   == { m \in sent : m.phase = "msg2" }

\* What an initiator's session holds is its own.
AskersOwn ==
    \A i \in Askers :
        /\ asker[i] # None => input[i] # None
        /\ asker[i] \in Committed =>
             asker[i] = [customer_data |-> input[i], sid_0 |-> i, blind |-> i]
        /\ asker[i] \in Asked =>
             /\ asker[i].sid[1] = i
             /\ asker[i].h1_x = H1(asker[i].sid, GenerateHash(input[i]))
             /\ asker[i].big_a = Multiply(asker[i].h1_x, asker[i].r)
             /\ \E m \in QuestionsSent : m.body.sid_0 = i

\* A question is one of a started session, that asks no second one.
QuestionsSound ==
    \A m \in QuestionsSent :
        LET q == m.body
        IN  /\ input[q.sid_0] # None
            /\ asker[q.sid_0] \notin Committed
            /\ q.blind = q.sid_0
            /\ q.sid[1] = q.sid_0
            /\ asker[q.sid_0] \in Asked =>
                 q.sid = asker[q.sid_0].sid /\ q.big_a = asker[q.sid_0].big_a
            /\ \A other \in QuestionsSent :
                 other.body.sid_0 = q.sid_0 => other.body = q

\* A receiver's session is open until it replied, and it replied to a question
\* asked for it.
RepliesSound ==
    \A j \in Answerers :
        /\ answerer[j] # None => replied[j] = None /\ answerer[j].sid_1 = j
        /\ replied[j] # None =>
             /\ \E m \in QuestionsSent : m.body = replied[j].to
             /\ replied[j].to.sid = <<replied[j].to.sid_0, j>>
             /\ replied[j].commit = <<replied[j].to.sid_0, replied[j].to.blind>>
             /\ Cardinality(replied[j].hashes) <= MaxEntries

\* An answer is what the receiver's session computed from the question.
AnswersSound ==
    \A m \in AnswersSent :
        LET a    == m.body
            from == replied[a.sid[2]]
        IN  /\ from # None
            /\ from.to.sid = a.sid
            /\ \E k, w \in NonZero :
                 /\ a.big_b = Multiply(from.to.big_a, k)
                 /\ a.proof = Prove(k, from.to.big_a, a.sid, w)
                 /\ a.hat_big_y = HatBigY(a.sid, from.hashes, k)

Inv ==
    /\ TypeOK
    /\ AskersOwn
    /\ QuestionsSound
    /\ RepliesSound
    /\ AnswersSound
    /\ ResultIsMembership

\* Sessions of one stage are not of another, and none is the absent value.
LEMMA StagesDiffer ==
    /\ \A st \in Committed : st # None /\ st \notin Asked
    /\ \A st \in Asked : st # None /\ st \notin Committed
    /\ \A st \in Waiting \cup Answers \cup Results \cup Replies \cup Customers : st # None
  <1>1. \A st \in Committed : st \notin Asked
    <2>1. \A st \in Committed : DOMAIN st = {"customer_data", "sid_0", "blind"}
      BY DEF Committed
    <2>2. \A st \in Asked : DOMAIN st = {"sid", "h1_x", "r", "big_a"}
      BY DEF Asked
    <2> QED
      BY <2>1, <2>2
  <1> QED
    BY <1>1, NoneAssumption

\* Messages have the body their phase tells.
LEMMA BodyTypes ==
    ASSUME TypeOK, NEW m \in sent
    PROVE  /\ m.phase = "init" => m.body \in Askers \X Askers
           /\ m.phase = "msg0" => m.body \in Answerers
           /\ m.phase = "msg1" => m.body \in Openings
           /\ m.phase = "msg2" => m.body \in Replies
  BY DEF TypeOK, Messages

\* A payload that was read is one that was sent.
LEMMA ReadWasSent ==
    ASSUME NEW m \in sent \cup Garbled, m.body # None
    PROVE  m \in sent
  BY DEF Garbled

\* What a step that sends a message does to the sets of messages.
LEMMA SentNext ==
    ASSUME NEW phase, NEW body, Send(phase, body)
    PROVE  LET new == [phase |-> phase, body |-> body]
           IN  /\ new.phase = phase /\ new.body = body
               /\ sent' = sent \cup {new}
               /\ QuestionsSent' = QuestionsSent \cup (IF phase = "msg1" THEN {new} ELSE {})
               /\ AnswersSent' = AnswersSent \cup (IF phase = "msg2" THEN {new} ELSE {})
  BY DEF Send, QuestionsSent, AnswersSent

\* Questions and answers have their types.
LEMMA SentTypes ==
    ASSUME TypeOK
    PROVE  /\ \A m \in QuestionsSent : m.body \in Openings
           /\ \A m \in AnswersSent : m.body \in Replies
  BY BodyTypes DEF QuestionsSent, AnswersSent

\* A result is that of a question its initiator asked.
LEMMA ResultIsOfQuestion ==
    ASSUME Inv, NEW i \in Askers, outcome[i] # None
    PROVE  /\ outcome[i].sid[2] \in Answerers
           /\ \E m \in QuestionsSent : m.body.sid_0 = i
  <1>1. outcome[i].sid[2] \in Answerers
    BY DEF Inv, TypeOK, Results, SessionIds
  <1> QED
    BY <1>1 DEF Inv, ResultIsMembership, RepliesSound

-----------------------------------------------------------------------------
(* The initiator's steps.                                                  *)

\* Starting a session preserves the invariant.
LEMMA StartPreserves ==
    ASSUME Inv, NEW i \in Askers, OnStart(i)
    PROVE  Inv'
  <1> USE DEF Inv
  <1>1. PICK x \in Customers :
          /\ input' = [input EXCEPT ![i] = x]
          /\ asker' = [asker EXCEPT ![i] =
                         [customer_data |-> x, sid_0 |-> i, blind |-> i]]
    BY DEF OnStart
  <1>2. /\ input[i] = None /\ asker[i] = None
        /\ Send("init", <<i, i>>)
        /\ UNCHANGED <<answerer, list, outcome, replied>>
    BY DEF OnStart, AskersOwn, CreateCommitment
  <1> DEFINE st == [customer_data |-> x, sid_0 |-> i, blind |-> i]
  <1>3. st \in Committed /\ st \notin Asked /\ x # None
    BY StagesDiffer DEF Committed
  <1>4. /\ asker'[i] = st /\ input'[i] = x
        /\ \A other \in Askers \ {i} : asker'[other] = asker[other] /\ input'[other] = input[other]
    BY <1>1 DEF TypeOK
  <1>5. TypeOK'
    <2>1. asker' \in [Askers -> Committed \cup Asked \cup {None}]
      BY <1>1, <1>3 DEF TypeOK
    <2>2. sent' \subseteq Messages
      BY <1>2 DEF TypeOK, Send, Messages
    <2> QED
      BY <1>1, <1>2, <2>1, <2>2 DEF TypeOK
  <1> HIDE DEF st
  <1>6. QuestionsSent' = QuestionsSent /\ AnswersSent' = AnswersSent
    BY <1>2, SentNext
  <1>7. AskersOwn'
    BY <1>3, <1>4, <1>6 DEF AskersOwn, st
  <1>8. \A m \in QuestionsSent : m.body.sid_0 \in Askers \ {i}
    BY <1>2, SentTypes DEF QuestionsSound, Openings
  <1>9. QuestionsSound'
    BY <1>4, <1>6, <1>8 DEF QuestionsSound
  <1>10. RepliesSound' /\ AnswersSound'
    BY <1>2, <1>6 DEF RepliesSound, AnswersSound
  <1>11. \A o \in Askers : outcome[o] # None => o # i
    BY <1>8, ResultIsOfQuestion
  <1>12. ResultIsMembership'
    BY <1>2, <1>4, <1>11 DEF ResultIsMembership
  <1> QED
    BY <1>5, <1>7, <1>9, <1>10, <1>12

\* Asking preserves the invariant: the question is the session's first.
LEMMA AskPreserves ==
    ASSUME Inv, NEW i \in Askers, NEW m \in sent \cup Garbled, Ask(i, m)
    PROVE  Inv'
  <1> USE DEF Inv
  <1>1. /\ asker[i] = [customer_data |-> input[i], sid_0 |-> i, blind |-> i]
        /\ input[i] \in Customers
        /\ m.body \in Answerers
        /\ UNCHANGED <<answerer, list, input, outcome, replied>>
    <2>1. m \in sent
      BY ReadWasSent DEF Ask
    <2> QED
      BY <2>1, BodyTypes, StagesDiffer DEF Ask, AskersOwn, TypeOK
  <1> DEFINE sid == <<i, m.body>>
             x == H1(sid, GenerateHash(input[i]))
  <1>2. PICK r \in NonZero :
          /\ asker' = [asker EXCEPT ![i] =
                         [sid |-> sid, h1_x |-> x, r |-> r, big_a |-> Multiply(x, r)]]
          /\ Send("msg1", [sid_0 |-> i, blind |-> i, sid |-> sid, big_a |-> Multiply(x, r)])
    <2>1. asker[i].sid_0 = i /\ asker[i].blind = i /\ asker[i].customer_data = input[i]
      BY <1>1
    <2> QED
      BY <2>1 DEF Ask, ComputeSessionId
  <1>3. sid \in SessionIds /\ sid[1] = i /\ x \in Points /\ Multiply(x, r) \in Points
    <2>1. sid \in SessionIds /\ sid[1] = i
      BY <1>1 DEF SessionIds
    <2>2. GenerateHash(input[i]) \in Hashes
      BY <1>1 DEF GenerateHash, Hashes
    <2>3. x \in Points
      BY <2>1, <2>2, FieldAssumption DEF H1, Points
    <2> QED
      BY <2>1, <2>3, PowerType DEF NonZero
  <1> HIDE DEF sid, x
  <1> DEFINE st == [sid |-> sid, h1_x |-> x, r |-> r, big_a |-> Multiply(x, r)]
             q  == [sid_0 |-> i, blind |-> i, sid |-> sid, big_a |-> Multiply(x, r)]
             new == [phase |-> "msg1", body |-> q]
  <1>4. st \in Asked /\ st # None /\ st \notin Committed /\ q \in Openings
    BY <1>3, StagesDiffer DEF Asked, Openings
  <1>5. /\ asker'[i] = st
        /\ \A other \in Askers \ {i} : asker'[other] = asker[other]
    BY <1>2 DEF TypeOK
  <1>6. /\ new.phase = "msg1" /\ new.body = q
        /\ sent' = sent \cup {new}
        /\ QuestionsSent' = QuestionsSent \cup {new}
        /\ AnswersSent' = AnswersSent
    BY <1>2, SentNext
  <1>7. TypeOK'
    <2>1. asker' \in [Askers -> Committed \cup Asked \cup {None}]
      BY <1>2, <1>4 DEF TypeOK
    <2>2. new \in Messages
      BY <1>4 DEF Messages
    <2> HIDE DEF new
    <2> QED
      BY <1>1, <1>6, <2>1, <2>2 DEF TypeOK
  <1>8. \A n \in QuestionsSent : n.body.sid_0 \in Askers \ {i}
    <2>1. asker[i] \in Committed
      BY DEF Ask
    <2> QED
      BY <2>1, SentTypes DEF QuestionsSound, Openings
  <1> HIDE DEF new
  <1>9. AskersOwn'
    <2>1. ASSUME NEW o \in Askers \ {i}
          PROVE  /\ asker[o] # None => input[o] # None
                 /\ asker[o] \in Committed =>
                      asker[o] = [customer_data |-> input[o], sid_0 |-> o, blind |-> o]
                 /\ asker[o] \in Asked =>
                      /\ asker[o].sid[1] = o
                      /\ asker[o].h1_x = H1(asker[o].sid, GenerateHash(input[o]))
                      /\ asker[o].big_a = Multiply(asker[o].h1_x, asker[o].r)
                      /\ \E n \in QuestionsSent' : n.body.sid_0 = o
      BY <1>6 DEF AskersOwn
    <2>2. /\ input[i] # None
          /\ st.sid[1] = i
          /\ st.h1_x = H1(st.sid, GenerateHash(input[i]))
          /\ st.big_a = Multiply(st.h1_x, st.r)
          /\ \E n \in QuestionsSent' : n.body.sid_0 = i
      BY <1>1, <1>3, <1>6, StagesDiffer DEF x
    <2> HIDE DEF st, q
    <2> QED
      BY <2>1, <2>2, <1>1, <1>4, <1>5 DEF AskersOwn
  <1>10. QuestionsSound'
    <2>1. input[i] # None
      BY <1>1, StagesDiffer
    <2>2. /\ q.sid_0 = i /\ q.blind = i /\ q.sid = sid /\ q.big_a = Multiply(x, r)
          /\ st.sid = sid /\ st.big_a = Multiply(x, r)
      OBVIOUS
    <2> HIDE DEF st, q
    <2>3. ASSUME NEW n \in QuestionsSent
          PROVE  /\ n.body.sid_0 \in Askers \ {i}
                 /\ asker'[n.body.sid_0] = asker[n.body.sid_0]
                 /\ n.body.sid_0 # new.body.sid_0
      BY <1>5, <1>6, <1>8, <2>2
    <2> QED
      BY <1>1, <1>3, <1>4, <1>5, <1>6, <2>1, <2>2, <2>3 DEF QuestionsSound
  <1>11. RepliesSound'
    BY <1>1, <1>6 DEF RepliesSound
  <1>12. AnswersSound'
    BY <1>1, <1>6 DEF AnswersSound
  <1>13. ResultIsMembership'
    BY <1>1 DEF ResultIsMembership
  <1> QED
    BY <1>7, <1>9, <1>10, <1>11, <1>12, <1>13

\* A session that ends, with a result or without, leaves what was sent alone.
LEMMA AskerEnds ==
    ASSUME Inv, NEW i \in Askers, asker' = [asker EXCEPT ![i] = None],
           UNCHANGED <<answerer, list, sent, input, replied>>
    PROVE  AskersOwn' /\ QuestionsSound' /\ RepliesSound' /\ AnswersSound'
  <1> USE DEF Inv
  <1>1. /\ asker'[i] = None /\ None \notin Committed /\ None \notin Asked
        /\ \A other \in Askers \ {i} : asker'[other] = asker[other]
    BY NoneAssumption DEF TypeOK
  <1>2. QuestionsSent' = QuestionsSent /\ AnswersSent' = AnswersSent
    BY DEF QuestionsSent, AnswersSent
  <1>3. AskersOwn'
    BY <1>1, <1>2 DEF AskersOwn
  <1>4. \A m \in QuestionsSent : m.body.sid_0 \in Askers
    BY SentTypes DEF Openings
  <1>5. QuestionsSound'
    BY <1>1, <1>2, <1>4 DEF QuestionsSound
  <1>6. RepliesSound' /\ AnswersSound'
    BY <1>2 DEF RepliesSound, AnswersSound
  <1> QED
    BY <1>3, <1>5, <1>6

\* A failed round preserves the invariant.
LEMMA AskerFailsPreserves ==
    ASSUME Inv, NEW i \in Askers, NEW m \in sent \cup Garbled, AskerFails(i, m)
    PROVE  Inv'
  <1>1. AskersOwn' /\ QuestionsSound' /\ RepliesSound' /\ AnswersSound'
    BY AskerEnds DEF AskerFails
  <1>2. TypeOK' /\ ResultIsMembership'
    BY DEF AskerFails, Inv, TypeOK, ResultIsMembership
  <1> QED
    BY <1>1, <1>2 DEF Inv

\* The answer an initiator accepts is its own, so the result is membership.
LEMMA ResultIsRight ==
    ASSUME Inv, NEW i \in Askers, asker[i] \in Asked, NEW m \in AnswersSent,
           asker[i].sid = m.body.sid
    PROVE  LET from == replied[m.body.sid[2]]
           IN  /\ m.body.sid[2] \in Answerers
               /\ from # None
               /\ from.to.sid_0 = i
               /\ \E k, w \in NonZero :
                    m.body.proof = Prove(k, asker[i].big_a, asker[i].sid, w)
                    /\ m.body.big_b = Multiply(asker[i].big_a, k)
               /\ m.body.hat_big_y \in { HatBigY(asker[i].sid, from.hashes, k) : k \in NonZero }
               /\ IsMatch(asker[i], m.body) = (GenerateHash(input[i]) \in from.hashes)
  <1> USE DEF Inv
  <1> DEFINE j == m.body.sid[2]
             from == replied[j]
             st == asker[i]
  <1>1. /\ m.body \in Replies /\ st.sid \in SessionIds /\ st.r \in NonZero
        /\ j \in Answerers /\ st.sid[1] = i
    BY SentTypes DEF Replies, SessionIds, Asked, AskersOwn
  <1>2. /\ from # None /\ from.to.sid = m.body.sid
        /\ from.to.sid = <<from.to.sid_0, j>>
        /\ \E q \in QuestionsSent : q.body = from.to
        /\ from.hashes \in SUBSET Hashes
    BY <1>1 DEF AnswersSound, RepliesSound, TypeOK, Answers
  <1>3. from.to.sid_0 = i
    <2>1. <<from.to.sid_0, j>>[1] = i
      BY <1>1, <1>2
    <2> QED
      BY ONLY <2>1
  <1>4. from.to.big_a = st.big_a
    BY <1>2, <1>3 DEF QuestionsSound
  <1>5. PICK k \in NonZero, w \in NonZero :
          /\ m.body.big_b = Multiply(st.big_a, k)
          /\ m.body.proof = Prove(k, st.big_a, st.sid, w)
          /\ m.body.hat_big_y = HatBigY(st.sid, from.hashes, k)
    BY <1>4 DEF AnswersSound
  <1> DEFINE v == GenerateHash(input[i])
  <1>6. /\ st.big_a = Multiply(st.h1_x, st.r) /\ st.h1_x = H1(st.sid, v)
        /\ v \in Hashes
    <2>1. input[i] \in Customers
      BY StagesDiffer DEF AskersOwn, TypeOK
    <2> QED
      BY <2>1 DEF AskersOwn, GenerateHash, Hashes
  <1> HIDE DEF from, j, st, v
  <1>7. IsMatch(st, m.body) = (v \in from.hashes)
    BY <1>1, <1>2, <1>5, <1>6, MatchIsMembership DEF IsMatch
  <1> QED
    BY <1>1, <1>2, <1>3, <1>5, <1>7 DEF from, j, st, v

\* Finishing preserves the invariant: the result is right.
LEMMA FinishPreserves ==
    ASSUME Inv, NEW i \in Askers, NEW m \in sent \cup Garbled, Finish(i, m)
    PROVE  Inv'
  <1>1. AskersOwn' /\ QuestionsSound' /\ RepliesSound' /\ AnswersSound'
    BY AskerEnds DEF Finish
  <1>2. m \in AnswersSent /\ asker[i] \in Asked /\ asker[i].sid = m.body.sid
    BY ReadWasSent DEF Finish, Msg2Accepted, AnswersSent
  <1> DEFINE res == [is_match |-> IsMatch(asker[i], m.body), sid |-> m.body.sid]
  <1>3. res \in Results
    <2>1. m.body.sid \in SessionIds
      BY <1>2, SentTypes DEF Inv, Replies
    <2>2. IsMatch(asker[i], m.body) \in BOOLEAN
      BY DEF IsMatch
    <2> QED
      BY <2>1, <2>2 DEF Results
  <1>4. /\ res.sid = m.body.sid
        /\ res.is_match = IsMatch(asker[i], m.body)
    OBVIOUS
  <1>5. outcome' = [outcome EXCEPT ![i] = res] /\ UNCHANGED <<answerer, list, sent, input, replied>>
    BY DEF Finish
  <1> HIDE DEF res
  <1>6. TypeOK'
    BY <1>3, <1>5 DEF Finish, Inv, TypeOK
  <1>7. ResultIsMembership'
    <2>1. outcome'[i] = res /\ \A o \in Askers \ {i} : outcome'[o] = outcome[o]
      BY <1>5 DEF Inv, TypeOK
    <2>2. LET from == replied[res.sid[2]]
          IN  /\ from # None
              /\ from.to.sid_0 = i
              /\ res.is_match = (GenerateHash(input[i]) \in from.hashes)
      BY <1>2, <1>4, ResultIsRight
    <2> QED
      BY <2>1, <2>2, <1>5 DEF Inv, ResultIsMembership
  <1> QED
    BY <1>1, <1>6, <1>7 DEF Inv

-----------------------------------------------------------------------------
(* The receiver's steps.                                                   *)

\* Opening a session preserves the invariant.
LEMMA RevealPreserves ==
    ASSUME Inv, NEW j \in Answerers, NEW m \in sent \cup Garbled, Reveal(j, m)
    PROVE  Inv'
  <1> USE DEF Inv
  <1> DEFINE st == [commit |-> m.body, sid_1 |-> j,
                    sanction_hashes |-> { GenerateHash(row) : row \in list }]
             new == [phase |-> "msg0", body |-> j]
  <1>1. /\ replied[j] = None
        /\ m.body \in Askers \X Askers
        /\ answerer' = [answerer EXCEPT ![j] = st]
        /\ Send("msg0", j)
        /\ UNCHANGED <<asker, list, input, outcome, replied>>
    BY ReadWasSent, BodyTypes DEF Reveal
  <1>2. st \in Waiting /\ st.sid_1 = j
    <2>1. \A row \in list : GenerateHash(row) \in Hashes
      BY ListAssumption DEF TypeOK, GenerateHash, Hashes
    <2> QED
      BY <1>1, <2>1 DEF Waiting
  <1> HIDE DEF st
  <1>3. QuestionsSent' = QuestionsSent /\ AnswersSent' = AnswersSent /\ sent' = sent \cup {new}
    BY <1>1, SentNext
  <1>4. TypeOK'
    <2>1. new \in Messages
      BY DEF Messages
    <2> HIDE DEF new
    <2> QED
      BY <1>1, <1>2, <1>3, <2>1 DEF TypeOK
  <1>5. AskersOwn' /\ QuestionsSound'
    BY <1>1, <1>3 DEF AskersOwn, QuestionsSound
  <1>7. AnswersSound'
    BY <1>1, <1>3 DEF AnswersSound
  <1>8. ResultIsMembership'
    BY <1>1 DEF ResultIsMembership
  <1>6. RepliesSound'
    <2>1. answerer'[j] = st /\ \A o \in Answerers \ {j} : answerer'[o] = answerer[o]
      BY <1>1 DEF TypeOK
    <2> QED
      BY <1>1, <1>2, <1>3, <2>1 DEF RepliesSound
  <1> QED
    BY <1>4, <1>5, <1>6, <1>7, <1>8

\* A failed round and a new list preserve the invariant.
LEMMA AnswererFailsPreserves ==
    ASSUME Inv, \/ UpdateList
                \/ \E j \in Answerers, m \in sent \cup Garbled : AnswererFails(j, m)
    PROVE  Inv'
  <1> USE DEF Inv
  <1>1. /\ UNCHANGED <<asker, sent, input, outcome, replied>>
        /\ answerer' \in [Answerers -> Waiting \cup {None}]
        /\ list' \in Lists
        /\ \A o \in Answerers : answerer'[o] # None => answerer'[o] = answerer[o]
    BY DEF AnswererFails, UpdateList, TypeOK
  <1>2. QuestionsSent' = QuestionsSent /\ AnswersSent' = AnswersSent
    BY <1>1 DEF QuestionsSent, AnswersSent
  <1>3. TypeOK'
    BY <1>1 DEF TypeOK
  <1>4. AskersOwn' /\ QuestionsSound'
    BY <1>1, <1>2 DEF AskersOwn, QuestionsSound
  <1>5. AnswersSound'
    BY <1>1, <1>2 DEF AnswersSound
  <1>6. RepliesSound'
    BY <1>1, <1>2 DEF RepliesSound
  <1>7. ResultIsMembership'
    BY <1>1 DEF ResultIsMembership
  <1> QED
    BY <1>3, <1>4, <1>5, <1>6, <1>7

\* Replying preserves the invariant: the answer is made from the question.
LEMMA ReplyPreserves ==
    ASSUME Inv, NEW j \in Answerers, NEW m \in sent \cup Garbled, Reply(j, m)
    PROVE  Inv'
  <1> USE DEF Inv
  <1> DEFINE st  == answerer[j]
             q   == m.body
             sid == <<q.sid_0, j>>
             rep == [commit |-> st.commit, to |-> q, hashes |-> st.sanction_hashes]
  <1>1. /\ st # None /\ st \in Waiting /\ st.sid_1 = j /\ replied[j] = None
        /\ m \in QuestionsSent /\ q \in Openings
        /\ q.sid = sid /\ sid \in SessionIds
        /\ st.commit = <<q.sid_0, q.blind>>
        /\ Cardinality(st.sanction_hashes) <= MaxEntries
    <2>1. st # None /\ st \in Waiting /\ st.sid_1 = j /\ replied[j] = None
      BY DEF Reply, TypeOK, RepliesSound
    <2>2. m \in QuestionsSent
      BY ReadWasSent DEF Reply, Msg1Accepted, QuestionsSent
    <2>3. q \in Openings
      BY <2>2, SentTypes
    <2>4. /\ q.sid = sid
          /\ st.commit = <<q.sid_0, q.blind>>
          /\ Cardinality(st.sanction_hashes) <= MaxEntries
      BY <2>1 DEF Reply, Msg1Accepted, VerifyCommitment, CreateCommitment, ComputeSessionId
    <2> QED
      BY <2>1, <2>2, <2>3, <2>4 DEF Openings
  <1>2. PICK k \in NonZero, w \in NonZero :
          Send("msg2", [sid |-> sid,
                        big_b |-> Multiply(q.big_a, k),
                        proof |-> Prove(k, q.big_a, sid, w),
                        hat_big_y |-> HatBigY(sid, st.sanction_hashes, k)])
    BY <1>1 DEF Reply, ComputeSessionId
  <1>3. /\ answerer' = [answerer EXCEPT ![j] = None]
        /\ replied' = [replied EXCEPT ![j] = rep]
        /\ UNCHANGED <<asker, list, input, outcome>>
    BY DEF Reply
  <1> DEFINE a == [sid |-> sid, big_b |-> Multiply(q.big_a, k),
                   proof |-> Prove(k, q.big_a, sid, w),
                   hat_big_y |-> HatBigY(sid, st.sanction_hashes, k)]
             new == [phase |-> "msg2", body |-> a]
  <1>4. /\ new.phase = "msg2" /\ new.body = a /\ sent' = sent \cup {new}
        /\ QuestionsSent' = QuestionsSent /\ AnswersSent' = AnswersSent \cup {new}
    BY <1>2, SentNext
  <1>5. rep \in Answers /\ rep # None
    <2>1. rep \in Answers
      BY <1>1 DEF Answers, Waiting, Openings
    <2> QED
      BY <2>1, StagesDiffer
  <1>6. a \in Replies
    <2>1. q.big_a \in Points /\ k \in Scalars
      BY <1>1 DEF Openings, NonZero
    <2>2. Multiply(q.big_a, k) \in Points
      BY <2>1, PowerType
    <2>3. Prove(k, q.big_a, sid, w) \in [t : Points, s : Scalars]
      BY <1>1, <2>1, ProofVerifies
    <2>4. HatBigY(sid, st.sanction_hashes, k) \in SUBSET (SessionIds \X Points \X Points)
      <3>1. \A v \in Hashes : H1(sid, v) \in Points
        BY <1>1, FieldAssumption DEF H1, Points
      <3>2. \A v \in Hashes : Multiply(H1(sid, v), k) \in Points
        BY <3>1, <2>1, PowerType
      <3>3. \A v \in st.sanction_hashes : v \in Hashes
        BY <1>1 DEF Waiting
      <3> HIDE DEF sid
      <3> QED
        BY <1>1, <3>1, <3>2, <3>3 DEF HatBigY, H2
    <2> HIDE DEF sid
    <2> QED
      BY <1>1, <2>2, <2>3, <2>4 DEF Replies
  <1>7. /\ a.sid = sid /\ a.big_b = Multiply(q.big_a, k)
        /\ a.proof = Prove(k, q.big_a, sid, w)
        /\ a.hat_big_y = HatBigY(sid, st.sanction_hashes, k)
        /\ rep.to = q /\ rep.hashes = st.sanction_hashes /\ rep.commit = st.commit
        /\ sid[2] = j
    OBVIOUS
  <1>8. /\ replied'[j] = rep /\ answerer'[j] = None
        /\ \A o \in Answerers \ {j} : replied'[o] = replied[o] /\ answerer'[o] = answerer[o]
    BY <1>3 DEF TypeOK
  <1> HIDE DEF a, rep, st
  <1>9. TypeOK'
    <2>1. new \in Messages
      BY <1>6 DEF Messages
    <2> HIDE DEF new
    <2> QED
      BY <1>3, <1>4, <1>5, <2>1 DEF TypeOK
  <1> HIDE DEF new
  <1>10. AskersOwn' /\ QuestionsSound'
    BY <1>3, <1>4 DEF AskersOwn, QuestionsSound
  <1>11. RepliesSound'
    <2> HIDE DEF sid, q
    <2>1. /\ \E n \in QuestionsSent : n.body = rep.to
          /\ rep.to.sid = <<rep.to.sid_0, j>>
          /\ rep.commit = <<rep.to.sid_0, rep.to.blind>>
          /\ Cardinality(rep.hashes) <= MaxEntries
      BY <1>1, <1>7 DEF q, sid
    <2> QED
      BY <2>1, <1>4, <1>8 DEF RepliesSound
  <1>12. AnswersSound'
    <2>1. ASSUME NEW n \in AnswersSent
          PROVE  n.body.sid[2] \in Answerers \ {j}
      BY <1>1, SentTypes DEF AnswersSound, Replies, SessionIds
    <2>2. /\ replied'[a.sid[2]] = rep
          /\ rep # None /\ rep.to.sid = a.sid
          /\ a.big_b = Multiply(rep.to.big_a, k)
          /\ a.proof = Prove(k, rep.to.big_a, a.sid, w)
          /\ a.hat_big_y = HatBigY(a.sid, rep.hashes, k)
      BY <1>1, <1>5, <1>7, <1>8
    <2> HIDE DEF sid, q
    <2> QED
      BY <2>1, <2>2, <1>4, <1>8 DEF AnswersSound
  <1>13. ResultIsMembership'
    <2>1. ASSUME NEW i \in Askers, outcome[i] # None
          PROVE  outcome[i].sid[2] \in Answerers \ {j}
      BY <2>1, <1>1, ResultIsOfQuestion DEF ResultIsMembership
    <2> QED
      BY <2>1, <1>3, <1>8 DEF ResultIsMembership
  <1> QED
    BY <1>9, <1>10, <1>11, <1>12, <1>13

-----------------------------------------------------------------------------
(* The theorems.                                                           *)

\* An answer has no more entries than the list it was made from.
LEMMA AnswerSize ==
    ASSUME NEW sid, NEW hashes, IsFiniteSet(hashes), NEW k
    PROVE  Cardinality(HatBigY(sid, hashes, k)) <= Cardinality(hashes)
  <1> DEFINE f == [v \in hashes |-> H2(sid, H1(sid, v), Multiply(H1(sid, v), k))]
  <1>1. f \in Surjection(hashes, HatBigY(sid, hashes, k))
    BY DEF HatBigY, Surjection
  <1> HIDE DEF f
  <1> QED
    BY <1>1, FS_Surjection

\* The lists sessions hold and held are finite.
FiniteLists ==
    /\ \A j \in Answerers : answerer[j] # None => IsFiniteSet(answerer[j].sanction_hashes)
    /\ \A j \in Answerers : replied[j] # None => IsFiniteSet(replied[j].hashes)

\* The lists stay finite.
LEMMA ListsStayFinite == Inv /\ FiniteLists /\ [Next]_vars => FiniteLists'
  <1> SUFFICES ASSUME Inv, FiniteLists, [Next]_vars PROVE FiniteLists'
    OBVIOUS
  <1>1. CASE UNCHANGED <<answerer, replied>>
    BY <1>1 DEF FiniteLists
  <1>2. ASSUME NEW j \in Answerers, NEW m \in sent \cup Garbled, Reveal(j, m)
        PROVE  FiniteLists'
    <2> DEFINE hashes == { GenerateHash(row) : row \in list }
               f == [row \in list |-> GenerateHash(row)]
    <2>1. f \in Surjection(list, hashes)
      BY DEF Surjection
    <2>2. IsFiniteSet(list)
      BY ListAssumption DEF Inv, TypeOK
    <2> HIDE DEF f
    <2>3. IsFiniteSet(hashes)
      BY <2>1, <2>2, FS_Surjection
    <2>4. /\ replied' = replied
          /\ answerer' = [answerer EXCEPT ![j] =
                            [commit |-> m.body, sid_1 |-> j, sanction_hashes |-> hashes]]
      BY <1>2 DEF Reveal
    <2> HIDE DEF hashes
    <2> QED
      BY <2>3, <2>4 DEF FiniteLists, Inv, TypeOK
  <1>3. ASSUME NEW j \in Answerers, NEW m \in sent \cup Garbled, Reply(j, m)
        PROVE  FiniteLists'
    BY <1>3 DEF Reply, FiniteLists, Inv, TypeOK
  <1>4. ASSUME NEW j \in Answerers, NEW m \in sent \cup Garbled, AnswererFails(j, m)
        PROVE  FiniteLists'
    BY <1>4, NoneAssumption DEF AnswererFails, FiniteLists, Inv, TypeOK
  <1> QED
    BY <1>1, <1>2, <1>3, <1>4
       DEF Next, vars, OnStart, Ask, Finish, AskerFails, UpdateList

\* The invariant holds initially.
LEMMA InitInv == Init => Inv
  <1> SUFFICES ASSUME Init PROVE Inv
    OBVIOUS
  <1>1. QuestionsSent = {} /\ AnswersSent = {}
    BY DEF Init, QuestionsSent, AnswersSent
  <1>2. \A i \in Askers : asker[i] \notin Committed /\ asker[i] \notin Asked
    BY StagesDiffer DEF Init
  <1> QED
    BY <1>1, <1>2 DEF Init, Inv, TypeOK, AskersOwn, QuestionsSound, RepliesSound,
                      AnswersSound, ResultIsMembership

\* Every step preserves it.
LEMMA StepInv == Inv /\ [Next]_vars => Inv'
  <1> SUFFICES ASSUME Inv, [Next]_vars PROVE Inv'
    OBVIOUS
  <1>1. CASE UNCHANGED vars
    <2>1. /\ UNCHANGED <<asker, answerer, list, sent, input, outcome, replied>>
          /\ QuestionsSent' = QuestionsSent /\ AnswersSent' = AnswersSent
      BY <1>1 DEF vars, QuestionsSent, AnswersSent
    <2>2. TypeOK' /\ AskersOwn' /\ QuestionsSound'
      BY <2>1 DEF Inv, TypeOK, AskersOwn, QuestionsSound
    <2>3. RepliesSound' /\ ResultIsMembership'
      BY <2>1 DEF Inv, RepliesSound, ResultIsMembership
    <2>4. AnswersSound'
      BY <2>1 DEF Inv, AnswersSound
    <2> QED
      BY <2>2, <2>3, <2>4 DEF Inv
  <1>2. CASE Next
    BY <1>2, StartPreserves, AskPreserves, FinishPreserves, AskerFailsPreserves,
       RevealPreserves, ReplyPreserves, AnswererFailsPreserves DEF Next
  <1> QED
    BY <1>1, <1>2

\* The invariant holds in every state.
LEMMA InvHolds == Spec => []Inv
  BY InitInv, StepInv, PTL DEF Spec

\* Every variable keeps its type, however many sessions run.
THEOREM PsiTypesCorrect == Spec => []TypeOK
  <1>1. Inv => TypeOK
    BY DEF Inv
  <1> QED
    BY <1>1, InvHolds, PTL

\* A result is membership of the customer asked for in the list of the session
\* that answered, for every field, every list and any number of sessions.
THEOREM PsiResultIsMembership == Spec => []ResultIsMembership
  <1>1. Inv => ResultIsMembership
    BY DEF Inv
  <1> QED
    BY <1>1, InvHolds, PTL

\* Answers belong to the questions of the initiators that opened the sessions,
\* one answer to one question.
THEOREM PsiAnswersMatchQuestions == Spec => []AnswersMatchQuestions
  <1>1. Inv => AnswersMatchQuestions
    <2> SUFFICES ASSUME Inv, NEW j \in Answerers, replied[j] # None
                 PROVE  /\ replied[j].commit[1] = replied[j].to.sid_0
                        /\ \A other \in Answerers \ {j} :
                             replied[other] # None =>
                               replied[other].to.sid_0 # replied[j].to.sid_0
      BY DEF AnswersMatchQuestions
    <2>1. replied[j].commit[1] = replied[j].to.sid_0
      BY DEF Inv, RepliesSound
    <2>2. ASSUME NEW other \in Answerers, replied[other] # None,
                 replied[other].to.sid_0 = replied[j].to.sid_0
          PROVE  other = j
      <3>1. replied[other].to = replied[j].to
        BY <2>2 DEF Inv, RepliesSound, QuestionsSound
      <3> QED
        BY <2>2, <3>1 DEF Inv, RepliesSound
    <2> QED
      BY <2>1, <2>2
  <1> QED
    BY <1>1, InvHolds, PTL

\* The answer to an initiator's own question is accepted: the proof verifies
\* and both sides agree on the size limit.
THEOREM PsiOwnAnswerAccepted == Spec => []OwnAnswerAccepted
  <1>1. Init => FiniteLists
    BY DEF Init, FiniteLists
  <1>2. Inv /\ FiniteLists => OwnAnswerAccepted
    <2> SUFFICES ASSUME Inv, FiniteLists, NEW i \in Askers, NEW m \in sent,
                        asker[i] \in Asked, m.phase = "msg2",
                        m.body.sid = asker[i].sid, m.body.proof.s # Zero
                 PROVE  Msg2Accepted(asker[i], m)
      BY DEF OwnAnswerAccepted
    <2> DEFINE from == replied[m.body.sid[2]]
               st   == asker[i]
    <2>1. m \in AnswersSent
      BY DEF AnswersSent
    <2>2. /\ m.body \in Replies
          /\ st.sid \in SessionIds /\ st.big_a \in Points
      BY <2>1, SentTypes DEF Inv, Asked
    <2>3. Verify(m.body.proof, m.body.big_b, st.big_a, st.sid)
      BY <2>1, <2>2, ResultIsRight, ProofVerifies
    <2>4. Cardinality(m.body.hat_big_y) <= MaxEntries
      <3>1. /\ IsFiniteSet(from.hashes)
            /\ Cardinality(from.hashes) <= MaxEntries
        BY <2>1, ResultIsRight DEF FiniteLists, Inv, RepliesSound
      <3>2. PICK k \in NonZero : m.body.hat_big_y = HatBigY(st.sid, from.hashes, k)
        BY <2>1, ResultIsRight
      <3>3. Cardinality(m.body.hat_big_y) <= Cardinality(from.hashes)
        BY <3>1, <3>2, AnswerSize
      <3>4. /\ Cardinality(from.hashes) \in Nat
            /\ Cardinality(m.body.hat_big_y) \in Nat
        <4>1. IsFiniteSet(m.body.hat_big_y)
          <5> DEFINE f == [v \in from.hashes |->
                             H2(st.sid, H1(st.sid, v), Multiply(H1(st.sid, v), k))]
          <5>1. f \in Surjection(from.hashes, HatBigY(st.sid, from.hashes, k))
            BY DEF HatBigY, Surjection
          <5> HIDE DEF f
          <5> QED
            BY <5>1, <3>1, <3>2, FS_Surjection
        <4> QED
          BY <3>1, <4>1, FS_CardinalityType
      <3> QED
        BY <3>1, <3>3, <3>4, ListAssumption
    <2>5. m.body # None
      BY <2>2, StagesDiffer
    <2> QED
      BY <2>3, <2>4, <2>5 DEF Msg2Accepted
  <1> QED
    BY <1>1, <1>2, ListsStayFinite, InvHolds, PTL DEF Spec
=============================================================================
