----------------------------- MODULE MCRegister -----------------------------
(* Instances of the shared register for TLC.                               *)
EXTENDS Register, TLC

Symmetry == Permutations(Desks) \cup Permutations(HandOvers)
              \cup Permutations(Applets) \cup Permutations(Serials)
=============================================================================
