------------------------------ MODULE Exchange ------------------------------
(***************************************************************************)
(* What run_intent promises, told without locks, caches, session tables or *)
(* signatures: the initiator asks one message after another, the           *)
(* receiver's operation takes each in its turn and only once while the     *)
(* process lives, and the initiator goes on only from the answer to its    *)
(* last message (docs/lifecycle.md, stage 6).                              *)
(***************************************************************************)
EXTENDS Naturals

CONSTANTS
    Runs,           \* calls of run_intent
    MaxRounds       \* MAX_ROUNDS

VARIABLES
    at,             \* "idle", "waiting", "result" or "raised"
    asked,          \* messages the initiator has sent
    held,           \* messages the receiver's operation has taken
    answered        \* the last message that has an answer

exchangeVars == <<at, asked, held, answered>>

Init ==
    /\ at = [r \in Runs |-> "idle"]
    /\ asked = [r \in Runs |-> 0]
    /\ held = [r \in Runs |-> 0]
    /\ answered = [r \in Runs |-> 0]

\* The initiator is free to go on: nothing is asked yet, or all is answered.
Free(r) ==
    \/ at[r] = "idle"
    \/ at[r] = "waiting" /\ answered[r] = asked[r]

Ask(r) ==
    /\ Free(r)
    /\ asked[r] < MaxRounds
    /\ asked' = [asked EXCEPT ![r] = @ + 1]
    /\ at' = [at EXCEPT ![r] = "waiting"]
    /\ UNCHANGED <<held, answered>>

\* The operation takes the next message and may answer it; one taken again
\* after a crash need not be answered for the first time.
Take(r) ==
    /\ held[r] < asked[r]
    /\ held' = [held EXCEPT ![r] = @ + 1]
    /\ \/ UNCHANGED answered
       \/ /\ answered[r] <= held[r]
          /\ answered' = [answered EXCEPT ![r] = held[r] + 1]
    /\ UNCHANGED <<at, asked>>

Crash ==
    /\ held' = [r \in Runs |-> 0]
    /\ UNCHANGED <<at, asked, answered>>

Finish(r) ==
    /\ Free(r)
    /\ at' = [at EXCEPT ![r] = "result"]
    /\ UNCHANGED <<asked, held, answered>>

Fail(r) ==
    /\ at[r] \in {"idle", "waiting"}
    /\ at' = [at EXCEPT ![r] = "raised"]
    /\ UNCHANGED <<asked, held, answered>>

Next ==
    \/ \E r \in Runs : Ask(r) \/ Take(r) \/ Finish(r) \/ Fail(r)
    \/ Crash

Spec == Init /\ [][Next]_exchangeVars
=============================================================================
