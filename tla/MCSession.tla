----------------------------- MODULE MCSession ------------------------------
(***************************************************************************)
(* Instances of Session for TLC: one run of at most two messages, the      *)
(* length of PSI, or three, with a verified and compatible initiator.      *)
(***************************************************************************)
EXTENDS Session

PiecesOf(name) == <<name>>
HashOf(payload) == payload

RunMessages == SentMessages
OwnCard == { [key |-> Initiator, compatible |-> TRUE] }
=============================================================================
