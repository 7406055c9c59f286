--------------------------- MODULE Compatibility ---------------------------
(***************************************************************************)
(* CommitmentCompatibilityChecker (services/compatibility.py): whether the *)
(* AP3 parameters two agents publish allow a run between them.             *)
(*                                                                         *)
(* Parameters are the roles, the supported operations and the commitments  *)
(* of a card; a commitment is told apart by what the checker reads, by its *)
(* owner, and by the key it is signed with.  The explanations that go with *)
(* a score are left out.  Scores are in tenths.                            *)
(***************************************************************************)
EXTENDS Naturals

Structures == {"customer_list", "blacklist", "inventory_data"}
Formats    == {"structured", "unstructured"}
Freshness  == {"real_time", "daily", "weekly"}

AcceptableFreshness == {"real_time", "daily"}
PsiStructures       == {"customer_list", "blacklist"}
MinCompatScore      == 7

\* Variant for the checks: the second commitment's freshness is not looked at.
PairCompatibleOneSided(c, d, operation) ==
    /\ c.format = d.format
    /\ c.freshness \in AcceptableFreshness
    /\ operation = "PSI" => /\ c.format = "structured"
                            /\ {c.structure, d.structure} \subseteq PsiStructures

PairCompatible(c, d, operation) ==
    /\ c.format = d.format
    /\ {c.freshness, d.freshness} \subseteq AcceptableFreshness
    /\ operation = "PSI" => /\ c.format = "structured"
                            /\ {c.structure, d.structure} \subseteq PsiStructures

RolesFit(p, q) ==
    \/ "ap3_receiver" \in p.roles /\ "ap3_initiator" \in q.roles
    \/ "ap3_initiator" \in p.roles /\ "ap3_receiver" \in q.roles

CommonOperations(p, q) == p.operations \cap q.operations

\* Variant for the checks: every pair of commitments must fit.
PairFoundEverywhere(p, q, operation) ==
    \A c \in p.commitments, d \in q.commitments : PairCompatible(c, d, operation)

\* _best_commitment_pair ends with the first pair that fits, if there is one.
PairFound(p, q, operation) ==
    \E c \in p.commitments, d \in q.commitments : PairCompatible(c, d, operation)

Score(p, q, operation) ==
    IF ~RolesFit(p, q) THEN 0
    ELSE IF CommonOperations(p, q) = {} THEN 3
    ELSE IF ~PairFound(p, q, operation) THEN 6
    ELSE 10

IsCompatible(score) == score >= MinCompatScore

=============================================================================
