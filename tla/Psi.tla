-------------------------------- MODULE Psi ---------------------------------
(***************************************************************************)
(* The PSI operation (packages/ap3-functions/ap3_functions/psi): an        *)
(* initiator learns whether its customer is on the receiver's sanction     *)
(* list, in four messages init, msg0, msg1, msg2.                          *)
(*                                                                         *)
(* Several sessions of each side run at once.  The layers below may hand a *)
(* session any message that was ever sent, any number of times, or one     *)
(* whose payload cannot be parsed, so that this module says what the       *)
(* operation's own checks are worth.                                       *)
(*                                                                         *)
(* Cryptography is symbolic.  A random string is named for the session     *)
(* that draws it, a hash is the tuple of what is hashed, and a point is a  *)
(* multiple of the point its session id and customer hash to.  Scalars are *)
(* any field, given by its operations: blinding and proofs are computed.       *)
(***************************************************************************)
EXTENDS FiniteSets, Naturals

CONSTANTS
    Askers,         \* sessions of PSI initiators; also their sid_0 and blind
    Answerers,      \* sessions of PSI receivers; also their sid_1
    Customers,      \* what may be asked for or listed
    Lists,          \* the sanction lists config_provider may return
    Scalars,        \* the scalar field: its elements,
    Zero, One,      \* its constants
    Plus(_, _),     \* and its operations
    Times(_, _),
    Invert(_),
    Oracle(_, _, _, _), \* the Fiat-Shamir hash, reduced to a scalar
    MaxEntries,     \* _MAX_SANCTION_ENTRIES
    None

NonZero    == Scalars \ {Zero}
SessionIds == Askers \X Answerers
Hashes     == {"Customer"} \X Customers
Points     == [hash : SessionIds \X Hashes, power : Scalars]

ASSUME FieldAssumption ==
    /\ One \in Scalars /\ Zero \in Scalars
    /\ \A a, b \in Scalars : Plus(a, b) \in Scalars /\ Times(a, b) \in Scalars
    /\ \A a \in NonZero : Invert(a) \in NonZero
    /\ \A a, b \in NonZero : Times(a, b) \in NonZero
    /\ \A a, b \in Scalars : Times(a, b) = Times(b, a)
    /\ \A a, b, c \in Scalars : Times(Times(a, b), c) = Times(a, Times(b, c))
    /\ \A a, b, c \in Scalars :
         Times(a, Plus(b, c)) = Plus(Times(a, b), Times(a, c))
    /\ \A a \in Scalars : Times(One, a) = a
    /\ \A a \in NonZero : Times(a, Invert(a)) = One
ASSUME OracleAssumption ==
    \A sid \in SessionIds, y, t, base \in Scalars : Oracle(sid, y, t, base) \in Scalars
ASSUME ListAssumption ==
    /\ \A list \in Lists : list \subseteq Customers /\ IsFiniteSet(list)
    /\ MaxEntries \in Nat

VARIABLES
    asker,      \* Operation._sessions of the initiators, by session
    answerer,   \* Operation._sessions of the receivers
    list,       \* the sanction list config_provider returns now
    sent,       \* every message that was ever sent
    input,      \* history: the customer an initiator's session asks for
    outcome,    \* history: the result it returned, if any
    replied     \* history: what a receiver's session answered, to what

vars == <<asker, answerer, list, sent, input, outcome, replied>>

-----------------------------------------------------------------------------
(* The primitives.                                                         *)

GenerateHash(data) == <<"Customer", data>>

\* sid_0 and the blinding value are both drawn by the session sid_0.
CreateCommitment(sid_0, blind) == <<sid_0, blind>>
VerifyCommitment(commit, sid_0, blind) == commit = CreateCommitment(sid_0, blind)

\* Variant for the checks: the two contributions are swapped.
SessionIdSwapped(sid_0, sid_1) == <<sid_1, sid_0>>

ComputeSessionId(sid_0, sid_1) == <<sid_0, sid_1>>

H1(sid, x) == [hash |-> <<sid, x>>, power |-> One]
H2(sid, p, q) == <<sid, p, q>>

Multiply(p, s) == [hash |-> p.hash, power |-> Times(p.power, s)]
Add(p, q)      == [hash |-> p.hash, power |-> Plus(p.power, q.power)]

\* Points are hashed with their base, which enters through the session id.
FiatShamir(y, t, base, sid) == Oracle(sid, y.power, t.power, base.power)

Prove(k, base, sid, w) ==
    LET t == Multiply(base, w)
    IN  [t |-> t,
         s |-> Plus(w, Times(FiatShamir(Multiply(base, k), t, base, sid), k))]

Verify(proof, y, base, sid) ==
    Multiply(base, proof.s) =
      Add(proof.t, Multiply(y, FiatShamir(y, proof.t, base, sid)))

-----------------------------------------------------------------------------
(* Messages and sessions.                                                  *)

Openings == [sid_0 : Askers, blind : Askers, sid : SessionIds, big_a : Points]
Replies  == [sid : SessionIds, big_b : Points,
             proof : [t : Points, s : Scalars],
             hat_big_y : SUBSET (SessionIds \X Points \X Points)]

Messages == [phase : {"init"}, body : Askers \X Askers]
            \cup [phase : {"msg0"}, body : Answerers]
            \cup [phase : {"msg1"}, body : Openings]
            \cup [phase : {"msg2"}, body : Replies]

\* A payload that is too short, too long or not a point.
Garbled == [phase : {"init", "msg0", "msg1", "msg2"}, body : {None}]

Committed == [customer_data : Customers, sid_0 : Askers, blind : Askers]
Asked     == [sid : SessionIds, h1_x : Points, r : NonZero, big_a : Points]
Waiting   == [commit : Askers \X Askers, sid_1 : Answerers,
              sanction_hashes : SUBSET Hashes]

Answers == [commit : Askers \X Askers, to : Openings, hashes : SUBSET Hashes]
Results == [is_match : BOOLEAN, sid : SessionIds]

ASSUME NoneAssumption ==
    None \notin Customers \cup Committed \cup Asked \cup Waiting \cup Answers
                \cup Results \cup Replies

Send(phase, body) == sent' = sent \cup {[phase |-> phase, body |-> body]}

-----------------------------------------------------------------------------
(* The initiator.                                                          *)

\* start: a session that has not been used.
OnStart(i) ==
    /\ input[i] = None
    /\ \E x \in Customers :
         /\ input' = [input EXCEPT ![i] = x]
         /\ asker' = [asker EXCEPT ![i] =
                        [customer_data |-> x, sid_0 |-> i, blind |-> i]]
    /\ Send("init", CreateCommitment(i, i))
    /\ UNCHANGED <<answerer, list, outcome, replied>>

\* msg0: the blinded customer, under the session id both contributed to.
Ask(i, m) ==
    /\ asker[i] \in Committed
    /\ m.phase = "msg0" /\ m.body # None
    /\ LET st  == asker[i]
           sid == ComputeSessionId(st.sid_0, m.body)
           x   == H1(sid, GenerateHash(st.customer_data))
       IN  \E r \in NonZero :
             /\ asker' = [asker EXCEPT ![i] =
                            [sid |-> sid, h1_x |-> x, r |-> r, big_a |-> Multiply(x, r)]]
             /\ Send("msg1", [sid_0 |-> st.sid_0, blind |-> st.blind,
                              sid |-> sid, big_a |-> Multiply(x, r)])
    /\ UNCHANGED <<answerer, list, input, outcome, replied>>

\* Variant for the checks: an off-by-one in the size limit.
Msg2AcceptedShort(st, m) ==
    /\ m.phase = "msg2" /\ m.body # None
    /\ Cardinality(m.body.hat_big_y) < MaxEntries
    /\ m.body.proof.s # Zero
    /\ st.sid = m.body.sid
    /\ Verify(m.body.proof, m.body.big_b, st.big_a, st.sid)

\* What the initiator checks of msg2: limits, session, proof.
Msg2Accepted(st, m) ==
    /\ m.phase = "msg2" /\ m.body # None
    /\ Cardinality(m.body.hat_big_y) <= MaxEntries
    /\ m.body.proof.s # Zero
    /\ st.sid = m.body.sid
    /\ Verify(m.body.proof, m.body.big_b, st.big_a, st.sid)

\* Variant for the checks: the blinding is not taken off.
IsMatchBlinded(st, body) ==
    H2(st.sid, st.h1_x, body.big_b) \in body.hat_big_y

IsMatch(st, body) ==
    H2(st.sid, st.h1_x, Multiply(body.big_b, Invert(st.r))) \in body.hat_big_y

Finish(i, m) ==
    /\ asker[i] \in Asked
    /\ Msg2Accepted(asker[i], m)
    /\ asker' = [asker EXCEPT ![i] = None]
    /\ outcome' = [outcome EXCEPT ![i] =
                     [is_match |-> IsMatch(asker[i], m.body), sid |-> m.body.sid]]
    /\ UNCHANGED <<answerer, list, sent, input, replied>>

\* Every other message raises, and the session is aborted.
AskerFails(i, m) ==
    /\ asker[i] # None
    /\ ~(asker[i] \in Committed /\ m.phase = "msg0" /\ m.body # None)
    /\ ~(asker[i] \in Asked /\ Msg2Accepted(asker[i], m))
    /\ asker' = [asker EXCEPT ![i] = None]
    /\ UNCHANGED <<answerer, list, sent, input, outcome, replied>>

-----------------------------------------------------------------------------
(* The receiver.                                                           *)

\* init: receive() on a session that is not open.  Other first messages, and
\* an empty list, raise before a session is saved.
Reveal(j, m) ==
    /\ answerer[j] = None /\ replied[j] = None
    /\ [phase |-> "msg0", body |-> j] \notin sent
    /\ m.phase = "init" /\ m.body # None
    /\ list # {}
    /\ answerer' = [answerer EXCEPT ![j] =
                      [commit |-> m.body, sid_1 |-> j,
                       sanction_hashes |-> { GenerateHash(row) : row \in list }]]
    /\ Send("msg0", j)
    /\ UNCHANGED <<asker, list, input, outcome, replied>>

\* Variant for the checks: the session id inside msg1 is not compared.
Msg1AcceptedForAnySession(st, m) ==
    /\ m.phase = "msg1" /\ m.body # None
    /\ VerifyCommitment(st.commit, m.body.sid_0, m.body.blind)
    /\ Cardinality(st.sanction_hashes) <= MaxEntries

Msg1Accepted(st, m) ==
    /\ m.phase = "msg1" /\ m.body # None
    /\ VerifyCommitment(st.commit, m.body.sid_0, m.body.blind)
    /\ Cardinality(st.sanction_hashes) <= MaxEntries
    /\ ComputeSessionId(m.body.sid_0, st.sid_1) = m.body.sid

HatBigY(sid, hashes, k) ==
    { H2(sid, H1(sid, v), Multiply(H1(sid, v), k)) : v \in hashes }

\* msg1: the blinded customer and the list, under one fresh key k; the session
\* is done.
Reply(j, m) ==
    /\ answerer[j] # None
    /\ Msg1Accepted(answerer[j], m)
    /\ LET st  == answerer[j]
           sid == ComputeSessionId(m.body.sid_0, st.sid_1)
       IN  \E k, w \in NonZero :
             Send("msg2", [sid |-> sid,
                           big_b |-> Multiply(m.body.big_a, k),
                           proof |-> Prove(k, m.body.big_a, sid, w),
                           hat_big_y |-> HatBigY(sid, st.sanction_hashes, k)])
    /\ answerer' = [answerer EXCEPT ![j] = None]
    /\ replied' = [replied EXCEPT ![j] =
                     [commit |-> answerer[j].commit, to |-> m.body,
                      hashes |-> answerer[j].sanction_hashes]]
    /\ UNCHANGED <<asker, list, input, outcome>>

AnswererFails(j, m) ==
    /\ answerer[j] # None
    /\ ~Msg1Accepted(answerer[j], m)
    /\ answerer' = [answerer EXCEPT ![j] = None]
    /\ UNCHANGED <<asker, list, sent, input, outcome, replied>>

\* The application changes its sanction list.
UpdateList ==
    /\ list' \in Lists \ {list}
    /\ UNCHANGED <<asker, answerer, sent, input, outcome, replied>>

-----------------------------------------------------------------------------
Init ==
    /\ asker = [i \in Askers |-> None]
    /\ answerer = [j \in Answerers |-> None]
    /\ list \in Lists
    /\ sent = {}
    /\ input = [i \in Askers |-> None]
    /\ outcome = [i \in Askers |-> None]
    /\ replied = [j \in Answerers |-> None]

Next ==
    \/ \E i \in Askers : OnStart(i)
    \/ \E i \in Askers, m \in sent \cup Garbled :
         Ask(i, m) \/ Finish(i, m) \/ AskerFails(i, m)
    \/ \E j \in Answerers, m \in sent \cup Garbled :
         Reveal(j, m) \/ Reply(j, m) \/ AnswererFails(j, m)
    \/ UpdateList

Spec == Init /\ [][Next]_vars

-----------------------------------------------------------------------------
(* Properties.                                                             *)

\* The type of every variable.
TypeOK ==
    /\ asker \in [Askers -> Committed \cup Asked \cup {None}]
    /\ answerer \in [Answerers -> Waiting \cup {None}]
    /\ list \in Lists
    /\ sent \subseteq Messages
    /\ input \in [Askers -> Customers \cup {None}]
    /\ outcome \in [Askers -> Results \cup {None}]
    /\ replied \in [Answerers -> Answers \cup {None}]

\* A result says whether the customer the initiator started with is on the list
\* of the receiver's session that answered it, the list as it was when that
\* session opened, whatever other sessions' messages came in between
\* (operations.py:206-213, psc_protocol.py:178-194).
ResultIsMembership ==
    \A i \in Askers :
        outcome[i] # None =>
          LET answer == replied[outcome[i].sid[2]]
          IN  /\ answer # None
              /\ answer.to.sid_0 = i
              /\ outcome[i].is_match = (GenerateHash(input[i]) \in answer.hashes)

\* A receiver's session answers the initiator that opened it, and an initiator
\* is answered by one session only, although its init may have opened several:
\* one run asks one question (operations.py:152-154, psc_protocol.py:157).
AnswersMatchQuestions ==
    \A j \in Answerers :
        replied[j] # None =>
          /\ replied[j].commit[1] = replied[j].to.sid_0
          /\ \A other \in Answerers \ {j} :
               replied[other] # None => replied[other].to.sid_0 # replied[j].to.sid_0

\* The answer to an initiator's own question is accepted whatever else was sent:
\* the proof made for it verifies, and a list the receiver may send is one the
\* initiator takes; but a proof with s = 0 does not parse (ffi.py:28, :114, :154).
OwnAnswerAccepted ==
    \A i \in Askers, m \in sent :
        /\ asker[i] # None /\ asker[i] \in Asked
        /\ m.phase = "msg2" /\ m.body.sid = asker[i].sid
        /\ m.body.proof.s # Zero
        => Msg2Accepted(asker[i], m)
=============================================================================
