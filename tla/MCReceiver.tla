----------------------------- MODULE MCReceiver -----------------------------
(***************************************************************************)
(* Instances of Receiver for TLC: the envelopes two initiators, alice and  *)
(* bob, may send.  A session is opened by phase "msg0" and continued by    *)
(* "msg1" (and "msg2"), as in PSI.  Tasks are told apart by equality only, *)
(* so they are symmetric; locks are not, a new one is CHOOSEn.  Two names  *)
(* hold a separator, and two payloads have one hash: the text "p0 as text" *)
(* is the canonical JSON of p0.                                            *)
(***************************************************************************)
EXTENDS Receiver, TLC

Symmetry == Permutations(Tasks)

PiecesOf(name) ==
    CASE name = "s1|x"   -> <<"s1", "x">>
      [] name = "x|msg1" -> <<"x", "msg1">>
      [] OTHER           -> <<name>>

HashOf(payload) == IF payload = "p0 as text" THEN "p0" ELSE payload

Intent(id, signer, sid, payload, expiry, flaw) ==
    [id |-> id, signer |-> signer, sid |-> sid, payload |-> payload,
     expiry |-> expiry, flaw |-> flaw]

Envelope(sid, phase, payload, intent) ==
    [header |-> "ap3", sid |-> sid, phase |-> phase, payload |-> payload,
     intent |-> intent]

\* The well-formed envelope of one round, its intent named after its number.
Sent(who, n, sid, phase, payload, expiry) ==
    Envelope(sid, phase, payload, Intent(n, who, sid, HashOf(payload), expiry, "none"))

Good(who, sid) == { Sent(who, "first", sid, "msg0", "p0", 0),
                    Sent(who, "second", sid, "msg1", "p1", 2) }

\* Envelopes with a missing intent, one flaw, an intent of another session or
\* of another payload.
Flawed(sid, phase, flaws) ==
    { Envelope(sid, phase, "p1", None) }
    \cup { Envelope(sid, phase, "p1", Intent(f, "alice", sid, "p1", 2, f)) :
             f \in flaws }
    \cup { Envelope(sid, phase, "p1",
                    Intent("other_session", "alice", "other", "p1", 2, "none")),
           Envelope(sid, phase, "p1",
                    Intent("other_payload", "alice", sid, "p9", 2, "none")) }

Unread == { [Sent("alice", "first", "s1", "msg0", "p0", 0) EXCEPT !.header = h] :
              h \in {"foreign_operation", "unsupported_version"} }

\* Alice's second message, whose phase holds a separator, one of another session
\* with the same key, and her first under another spelling of its payload.
SameKey == { Sent("alice", "second", "s1", "x|msg1", "p1", 2),
             Envelope("s1|x", "msg1", "p1", None),
             Envelope("s1", "msg0", "p0 as text", None) }

\* Every way to answer an envelope.
FaultyEnvelopes ==
    Unread \cup { Sent("alice", "first", "s1", "msg0", "p0", 0) } \cup SameKey
      \cup Flawed("s1", "msg0", ParseFlaws \cup AddressFlaws \cup BodyFlaws)
      \cup Flawed("s1", "x|msg1", ParseFlaws \cup BodyFlaws)
      \cup { Sent("bob", "second", "s1", "x|msg1", "p1", 2) }

\* Two initiators compete for one session id; alice also repeats her opening
\* message under a second intent.  Bob's expires after the end of UTC.
ContendedEnvelopes ==
    Good("alice", "s1")
      \cup { Sent("alice", "again", "s1", "msg0", "p0", 2),
             Sent("bob", "first", "s1", "msg0", "p0", 3) }

\* Well-formed initiators, one per session: every envelope may be delivered
\* any number of times, at the same time and in any order; s1's opening message
\* and second round also exist under a second intent.
RetriedEnvelopes ==
    { Sent("alice", "first", "s1", "msg0", "p0", 2), Sent("alice", "again", "s1", "msg0", "p0", 2),
      Sent("alice", "second", "s1", "msg1", "p1", 2), Sent("alice", "retry", "s1", "msg1", "p1", 2),
      Sent("alice", "third", "s1", "msg2", "p2", 2),
      Sent("alice", "other", "s2", "msg0", "p0", 2) }

AliceAndBob == { [key |-> k, compatible |-> b] : k \in {"alice", "bob"}, b \in BOOLEAN }
AliceOnly   == { [key |-> "alice", compatible |-> TRUE] }
=============================================================================
