-------------------------- MODULE MCLightningSale --------------------------
(* Small instances of LightningSale for TLC. *)
EXTENDS LightningSale, TLC

CONSTANTS c1, c2, p1, p2, p3

MCEnds == [p \in Proofs |-> 1]

Symmetry == Permutations(Calls) \cup Permutations(Proofs)
=============================================================================
