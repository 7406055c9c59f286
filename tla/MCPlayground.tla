---------------------------- MODULE MCPlayground ----------------------------
(***************************************************************************)
(* Instances of Playground for TLC: a plain lab, one with the roles        *)
(* exchanged and one that cannot be built.                                 *)
(***************************************************************************)
EXTENDS Playground

Form(scenario, attacks) == [scenario |-> scenario, attacks |-> attacks]

\* Two bodies of /api/run: a scenario and an attack.  Of two that overlap the
\* second may overwrite the attacks of the first, which then has none.
SomeForms == { Form({"replay"}, {}), Form({}, {"session_id"}) }

WalkAttacks == { {"replay"} }
=============================================================================
