------------------------------- MODULE MCAuth -------------------------------
(* Auth for TLC: the symmetry of the slots. *)
EXTENDS Auth, TLC

SlotSymmetry == Permutations(Reqs)
=============================================================================
