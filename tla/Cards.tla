------------------------------- MODULE Cards -------------------------------
(***************************************************************************)
(* How agents come to be and what they tell each other: the AgentCard with *)
(* its AP3 extension block, the two ways to run an agent (PrivacyAgent and *)
(* AP3Middleware), the readers of a card (extract_peer_info for a run,     *)
(* RemoteAgentDiscoveryService for a survey) and the commitments a card    *)
(* carries.                                                                *)
(*                                                                         *)
(* A card is a sequence of extension blocks.  The core of an agent keeps   *)
(* the parameters its card had when it was built; the card of middleware   *)
(* belongs to the application, which may attach another block to it later. *)
(* An agent's key is named after the agent.                                *)
(***************************************************************************)
EXTENDS Compatibility, Sequences

CONSTANTS
    Agents,
    OldCards,       \* cards that agents serve before AP3 is added to them
    Offers,         \* parameters an application may attach to its card
    Commitments,    \* commitments written by hand, unsigned
    Schemas,        \* schemas given to CommitmentMetadataSystem
    None            \* the absent value

VARIABLES
    card,           \* the card each agent serves
    core            \* the running agents: role and own parameters

cardVars == <<card, core>>

Roles == {"ap3_initiator", "ap3_receiver"}
Signers == Agents \cup {"registry", None}
Commitment == [structure : Structures, format : Formats, freshness : Freshness,
               signer : Signers]
Params == [roles : SUBSET Roles, operations : SUBSET {"PSI", "PIR"},
           commitments : SUBSET Commitment]
Block  == [uri : {"ap3", "ap3_legacy", "other"}, key : Agents \cup {None}, params : Params]
Core   == [role : Roles, params : Params, ownsCard : BOOLEAN]

\* Cards and what goes on them are built from the classes of the code; a card
\* AP3 has not been added to has no AP3 block.
ASSUME CardAssumption ==
    /\ \A blocks \in OldCards :
         blocks \in Seq(Block) /\ \A n \in DOMAIN blocks : blocks[n].uri # "ap3"
    /\ Offers \subseteq Params
    /\ Commitments \subseteq Commitment
    /\ \A s \in Schemas : s.structure \in Structures /\ s.format \in Formats
ASSUME AbsentAssumption == None \notin Agents \cup Block \cup Core

-----------------------------------------------------------------------------
(* Commitments.                                                            *)

\* Variant for the checks: a frequency is taken as it is.
FreshnessOfVerbatim(frequency) == frequency

\* Frequencies outside the freshness map, and none at all, count as daily.
FreshnessOf(frequency) == IF frequency \in Freshness THEN frequency ELSE "daily"

\* A registry is usually given no key and signs with one it generates.
CreateCommitment(schema) ==
    [structure |-> schema.structure, format |-> schema.format,
     freshness |-> FreshnessOf(schema.frequency), signer |-> "registry"]

\* What an application has to publish.
Available == Commitments \cup { CreateCommitment(s) : s \in Schemas }

\* Only a commitment that has no signature is signed with the agent's key.
Signed(commitment, a) ==
    IF commitment.signer = None THEN [commitment EXCEPT !.signer = a] ELSE commitment

-----------------------------------------------------------------------------
(* Writing a card.                                                         *)

Ap3Block(a, params) == [uri |-> "ap3", key |-> a, params |-> params]

\* "Replace any existing AP3 extension to avoid duplicates" (middleware.py:84).
OtherBlocks(blocks) ==
    LET kept[n \in 0..Len(blocks)] ==
          IF n = 0 THEN <<>>
          ELSE IF blocks[n].uri = "ap3" THEN kept[n - 1]
          ELSE Append(kept[n - 1], blocks[n])
    IN  kept[Len(blocks)]

\* attach_ap3_extension: nothing of the parameters is validated.
AttachAp3Extension(a, params) ==
    /\ core[a] # None => ~core[a].ownsCard
    /\ card' = [card EXCEPT ![a] = Append(OtherBlocks(@), Ap3Block(a, params))]
    /\ UNCHANGED core

-----------------------------------------------------------------------------
(* Reading a card.                                                         *)

ValidParams(params) == params.roles # {} /\ params.operations # {}

\* The first block of a card that has one of the uris, or None.
FirstBlock(blocks, uris) ==
    LET hits == { n \in DOMAIN blocks : blocks[n].uri \in uris }
    IN  IF hits = {} THEN None
        ELSE blocks[CHOOSE n \in hits : \A m \in hits : n <= m]

\* extract_peer_info; None where it raises ValueError.
PeerInfo(blocks) ==
    LET block == FirstBlock(blocks, {"ap3"})
    IN  IF block = None \/ block.key = None \/ ~ValidParams(block.params)
        THEN None ELSE block

\* RemoteAgentDiscoveryService.extract_ap3_params also takes the legacy uri,
\* whichever comes first, and needs no key.
DiscoveredInfo(blocks) ==
    LET block == FirstBlock(blocks, {"ap3", "ap3_legacy"})
    IN  IF block = None \/ ~ValidParams(block.params) THEN None ELSE block

SurveyScore(p, q) == Score(p.params, q.params, None)

\* Variant for the checks: an absent requirement is taken for a requirement.
DiscoverRequiring(a, b, required) ==
    LET p == DiscoveredInfo(card[a])
        q == DiscoveredInfo(card[b])
    IN  /\ p # None /\ q # None
        /\ required \in CommonOperations(p.params, q.params)
        /\ IsCompatible(SurveyScore(p, q))

\* check_compatibility: no operation is named when the pair is scored.
Discover(a, b, required) ==
    LET p == DiscoveredInfo(card[a])
        q == DiscoveredInfo(card[b])
    IN  /\ p # None /\ q # None
        /\ required # None /\ SurveyScore(p, q) > 0
           => required \in CommonOperations(p.params, q.params)
        /\ IsCompatible(SurveyScore(p, q))

\* _assert_compatible of a's core, given what is read from a peer's card.
Accepts(a, peer) == IsCompatible(Score(core[a].params, peer.params, "PSI"))

-----------------------------------------------------------------------------
(* Building agents.                                                        *)

\* PrivacyAgent makes the card it serves, from one role and one commitment.
BuildPrivacyAgent(a, role, commitment) ==
    LET params == [roles |-> {role}, operations |-> {"PSI"},
                   commitments |-> {Signed(commitment, a)}]
    IN  /\ core[a] = None
        /\ card' = [card EXCEPT ![a] = <<Ap3Block(a, params)>>]
        /\ core' = [core EXCEPT ![a] = [role |-> role, params |-> params, ownsCard |-> TRUE]]

\* AP3Middleware reads the card of its host server once; the role it is given
\* need not be one of those on the card.
BuildMiddleware(a, role) ==
    /\ core[a] = None
    /\ PeerInfo(card[a]) # None
    /\ core' = [core EXCEPT ![a] = [role |-> role, params |-> PeerInfo(card[a]).params,
                                    ownsCard |-> FALSE]]
    /\ UNCHANGED card

CardInit ==
    /\ card \in [Agents -> OldCards]
    /\ core = [a \in Agents |-> None]

CardStep ==
    \E a \in Agents :
        \/ \E params \in Offers : AttachAp3Extension(a, params)
        \/ \E role \in Roles, c \in Available : BuildPrivacyAgent(a, role, c)
        \/ \E role \in Roles : BuildMiddleware(a, role)

-----------------------------------------------------------------------------
(* Properties.                                                             *)

\* The type of cards and cores.
CardTypeOK ==
    /\ card \in [Agents -> Seq(Block)]
    /\ core \in [Agents -> Core \cup {None}]

\* The core checks what its card still says.
UpToDate(a) ==
    /\ core[a] # None
    /\ PeerInfo(card[a]) # None
    /\ core[a].params = PeerInfo(card[a]).params

\* Two agents whose cores are up to date judge each other alike: no run passes
\* the initiator's check only to be refused by the receiver's (_core.py:398-418,
\* called from :134 and :529).
CompatibilityIsMutual ==
    \A a, b \in Agents :
        UpToDate(a) /\ UpToDate(b)
        => (Accepts(a, PeerInfo(card[b])) <=> Accepts(b, PeerInfo(card[a])))

\* A survey calls compatible every pair that a run would accept, so that no
\* partner is missed, as long as no card still carries a legacy block
\* (discovery.py:74-147, _core.py:398-418).
SurveyMissesNobody ==
    \A a, b \in Agents :
        /\ UpToDate(a) /\ PeerInfo(card[b]) # None
        /\ \A n \in DOMAIN card[a] : card[a][n].uri # "ap3_legacy"
        /\ \A n \in DOMAIN card[b] : card[b][n].uri # "ap3_legacy"
        /\ Accepts(a, PeerInfo(card[b]))
        => Discover(a, b, None)

Extends(new, old) ==
    /\ old.roles \subseteq new.roles
    /\ old.operations \subseteq new.operations
    /\ old.commitments \subseteq new.commitments

\* Publishing more roles, operations or commitments never loses a partner: the
\* best pair of commitments counts, not all of them (compatibility.py:90-122).
OfferingMoreLosesNobody ==
    [][ \A a, b \in Agents :
          /\ PeerInfo(card[a]) # None /\ PeerInfo(card'[a]) # None
          /\ Extends(PeerInfo(card'[a]).params, PeerInfo(card[a]).params)
          /\ core[b] # None /\ core'[b] = core[b]
          /\ Accepts(b, PeerInfo(card[a]))
          => Accepts(b, PeerInfo(card'[a])) ]_cardVars

=============================================================================
