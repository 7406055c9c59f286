------------------------------- MODULE MCDoor -------------------------------
(***************************************************************************)
(* Instances of Door for TLC: two agents, a few cards and offers that      *)
(* disagree in one thing each, and messages that differ from one a1 sends  *)
(* to a2 in one field, or in how they are packed.                          *)
(***************************************************************************)
EXTENDS Door

CONSTANTS a1, a2

CommitmentOf(structure, format, freshness) ==
    [structure |-> structure, format |-> format, freshness |-> freshness, signer |-> None]

Customers == CommitmentOf("customer_list", "structured", "daily")
Inventory == CommitmentOf("inventory_data", "structured", "real_time")
Weekly    == CommitmentOf("blacklist", "structured", "weekly")

Offer(roles, operations, commitments) ==
    [roles |-> roles, operations |-> operations, commitments |-> commitments]

SomeOffers == { Offer(Roles, {"PSI"}, {Customers}),
                Offer(Roles, {"PSI"}, {Customers, Inventory}),
                Offer(Roles, {"PIR"}, {Weekly}),
                Offer({}, {"PSI"}, {Customers}) }

ByHand == {Customers}
SomeSchemas == { [structure |-> "blacklist", format |-> "structured", frequency |-> f] :
                   f \in {"weekly", "monthly"} }

Legacy == [uri |-> "ap3_legacy", key |-> None, params |-> Offer(Roles, {"PIR"}, {Inventory})]
Other  == [uri |-> "other", key |-> None, params |-> Offer({}, {}, {})]
CardsBefore == { <<>>, <<Other, Legacy>> }

Good == OwnMessage(a1, CardUrl(a2))
Packed == { <<>>, <<"text">>, <<"data">>, <<"text", "envelope">>, <<"envelope", "envelope">>,
            <<"envelope", "huge">>, <<"huge">>, <<"unmeasurable">>, <<"data", "wrong_schema">>,
            <<"no_object">>, <<"envelope", "no_object">> }

Flawed ==
    LET i == Good.intent
    IN  { [i EXCEPT !.signer = "stranger"], [i EXCEPT !.session = "other"],
          [i EXCEPT !.shape = "invalid"], [i EXCEPT !.nonce = "blank"] }
        \cup { [i EXCEPT !.initiator = u] :
                 u \in {At(None, f) : f \in Nowhere} \cup {At(a2, "upper_case")} }
        \cup { [i EXCEPT !.receiver = u] :
                 u \in { At(None, f) : f \in {"empty"} \cup NotAUrl } \cup {At(a1, "canonical"), At(a2, "default_port"),
                         At(a2, "v6_bare")} }
        \cup { [i EXCEPT !.expiry = x] : x \in {"past", "garbage", "naive"} }
        \cup { [i EXCEPT !.payloadHash = x] : x \in {"other", "short"} }

SomeMessages ==
    { [Good EXCEPT !.own = FALSE, !.parts = p] : p \in Packed }
    \cup { [Good EXCEPT !.own = FALSE, !.header = h] :
             h \in {"foreign_operation", "unsupported_version"} }
    \cup { [Good EXCEPT !.own = FALSE, !.intent = i] : i \in Flawed \cup {None} }
=============================================================================
