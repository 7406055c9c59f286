-------------------------------- MODULE MCPsi -------------------------------
(***************************************************************************)
(* Instances of Psi for TLC: the scalars are the integers modulo a prime,  *)
(* the Fiat-Shamir hash is a polynomial in the points it is taken over.   *)
(***************************************************************************)
EXTENDS Psi, TLC

CONSTANT Prime

Modular    == 0..(Prime - 1)
PlusMod(a, b)   == (a + b) % Prime
TimesMod(a, b)  == (a * b) % Prime
InvertMod(a)    == CHOOSE b \in 1..(Prime - 1) : (a * b) % Prime = 1
Polynomial(sid, y, t, base) == (1 + 2 * y + t * t + y * base) % Prime

SomeLists == { {}, {"x", "y"}, {"x", "y", "z"} }
Symmetry  == Permutations(Askers) \cup Permutations(Answerers)
=============================================================================
